---------------------------- MODULE Telegram_proofs ----------------------------
(***************************************************************************)
(* Theorems about TelegramIngress and TelegramCommands, for any number of   *)
(* workers, faults, updates, lanes, owners, chats and codes.                *)
(*                                                                         *)
(* The ingress: no loop believes in a cursor ahead of the durable one, so   *)
(* that what its request makes Telegram forget is in the journal already    *)
(* (Behind), and a batch always starts at or before the durable cursor; as  *)
(* the batch commits only if it moves that cursor forward, the journal      *)
(* stays the prefix it covers (Prefix), and what was not in it before is    *)
(* exactly what takes effect.                                               *)
(*                                                                         *)
(* The commands: a command, a confirmation and a reply row each name the    *)
(* update or the row that made them, and each of these names moves one way  *)
(* only (Asked, Issued, Confirmed, Picked, Apart, Sent).                    *)
(***************************************************************************)
EXTENDS TelegramIngress, TelegramCommands, FiniteSetTheorems, TLAPS

(* The values of a loop and of the lease row.                               *)
Loops == [at : {"idle", "fetch", "batch"}, gen : Nat, cursor : 0 .. MaxUpdates,
          from : 0 .. MaxUpdates, upto : 0 .. MaxUpdates]
Leases == [holder : Workers \union {Nobody, Gone}, gen : Nat, live : BOOLEAN, cursor : 0 .. MaxUpdates]

(* No loop is ahead of the durable cursor, nor is what Telegram forgot.     *)
Behind ==
    /\ forgotten <= consumer.cursor
    /\ \A w \in Workers :
        /\ poller[w].cursor <= consumer.cursor /\ poller[w].from <= consumer.cursor
        /\ poller[w].upto <= written

(* What was recorded and took effect is what the durable cursor covers.     *)
Prefix ==
    /\ consumer.cursor <= written
    /\ journal = 1 .. consumer.cursor
    /\ times = [u \in Updates |-> IF u <= consumer.cursor THEN 1 ELSE 0]

IngressInv == IngressTypeOK /\ Behind /\ Prefix

LEMMA IngressInitially == IngressInit => IngressInv
  BY IngressAssumption DEF IngressInit, IngressInv, IngressTypeOK, Behind, Prefix, NoLease, Updates

(* Where an answer starts is covered by the durable cursor.                 *)
LEMMA FromBehind ==
  ASSUME IngressInv, NEW w \in Workers
  PROVE  From(w) \in 0 .. MaxUpdates /\ From(w) <= consumer.cursor
  BY IngressAssumption DEF IngressInv, IngressTypeOK, Behind, From

(* A step that moves neither cursor nor journal need only keep its loop's   *)
(* place.                                                                   *)
LEMMA LoopMoves ==
  ASSUME IngressInv, NEW w \in Workers, NEW loop, poller' = [poller EXCEPT ![w] = loop],
         loop \in Loops,
         loop.cursor <= consumer.cursor, loop.from <= consumer.cursor, loop.upto <= written,
         consumer' \in Leases, consumer'.cursor = consumer.cursor, faults' \in 0 .. MaxFaults,
         forgotten' \in 0 .. MaxUpdates, forgotten' <= consumer.cursor,
         UNCHANGED <<written, journal, times>>
  PROVE  IngressInv'
<1>1. IngressTypeOK'
  BY DEF IngressInv, IngressTypeOK, Updates, Loops, Leases
<1>2. Behind'
  BY DEF IngressInv, IngressTypeOK, Behind, Loops
<1>3. Prefix'
  BY DEF IngressInv, Prefix, Updates
<1>4. QED BY <1>1, <1>2, <1>3 DEF IngressInv

(* The commit of a batch: journal, effects and cursor move on together.     *)
LEMMA Settles ==
  ASSUME IngressInv, NEW w \in Workers, SettleBatch(w)
  PROVE  /\ consumer'.cursor = poller[w].upto /\ poller[w].upto \in 1 .. written
         /\ consumer.cursor < poller[w].upto
         /\ journal' = 1 .. poller[w].upto
         /\ times' = [u \in Updates |-> IF u <= poller[w].upto THEN 1 ELSE 0]
<1> DEFINE upto == poller[w].upto
           from == poller[w].from
<1>1. /\ upto \in 0 .. MaxUpdates /\ upto <= written /\ written \in 0 .. MaxUpdates
      /\ from \in 0 .. MaxUpdates /\ from <= consumer.cursor
      /\ consumer.cursor \in 0 .. MaxUpdates /\ consumer.cursor < upto
  BY IngressAssumption DEF IngressInv, IngressTypeOK, Behind, SettleBatch, MayAdvance
<1>2. /\ consumer'.cursor = upto
      /\ journal' = journal \union Batch(w)
      /\ times' = [u \in Updates |-> IF u \in Fresh(w) THEN times[u] + 1 ELSE times[u]]
  BY DEF SettleBatch, IngressInv, IngressTypeOK
<1>3. journal = 1 .. consumer.cursor /\ Batch(w) = (from + 1) .. upto
  BY DEF IngressInv, Prefix, Batch
<1>4. journal' = 1 .. upto
  BY IngressAssumption, <1>1, <1>2, <1>3
<1>5. \A u \in Updates : u \in Fresh(w) <=> consumer.cursor < u /\ u <= upto
  BY IngressAssumption, <1>1, <1>3 DEF Fresh, Updates
<1>6. \A u \in Updates : times[u] = IF u <= consumer.cursor THEN 1 ELSE 0
  BY DEF IngressInv, Prefix
<1>7. \A u \in Updates : (IF u \in Fresh(w) THEN times[u] + 1 ELSE times[u])
                           = IF u <= upto THEN 1 ELSE 0
  BY IngressAssumption, <1>1, <1>5, <1>6 DEF Updates
<1>8. times' = [u \in Updates |-> IF u <= upto THEN 1 ELSE 0]
  BY <1>2, <1>7
<1>9. QED BY IngressAssumption, <1>1, <1>2, <1>4, <1>8

LEMMA IngressInductive == IngressInv /\ [IngressNext]_ingressVars => IngressInv'
<1> SUFFICES ASSUME IngressInv, [IngressNext]_ingressVars PROVE IngressInv'
  OBVIOUS
<1> USE IngressAssumption
<1>0. /\ written \in 0 .. MaxUpdates /\ forgotten \in 0 .. MaxUpdates /\ faults \in 0 .. MaxFaults
      /\ consumer \in Leases /\ consumer.cursor \in 0 .. MaxUpdates /\ consumer.gen \in Nat
      /\ poller \in [Workers -> Loops] /\ \A w \in Workers : poller[w] \in Loops
      /\ forgotten <= consumer.cursor /\ consumer.cursor <= written
      /\ \A w \in Workers : /\ poller[w].cursor <= consumer.cursor
                            /\ poller[w].from <= consumer.cursor /\ poller[w].upto <= written
  BY DEF IngressInv, IngressTypeOK, Behind, Prefix, Loops, Leases
<1>a. NoLease \in Loops /\ NoLease.cursor = 0 /\ NoLease.from = 0 /\ NoLease.upto = 0
  BY DEF NoLease, Loops
<1>1. CASE Write \/ UNCHANGED ingressVars
  <2>1. /\ written' \in 0 .. MaxUpdates /\ written <= written'
        /\ UNCHANGED <<forgotten, consumer, poller, journal, times, faults>>
    BY <1>0, <1>1 DEF Write, ingressVars
  <2>2. IngressTypeOK'
    BY <2>1 DEF IngressInv, IngressTypeOK, Updates
  <2>3. Behind'
    BY <1>0, <2>1 DEF Behind, Loops
  <2>4. Prefix'
    BY <1>0, <2>1 DEF IngressInv, Prefix, Updates
  <2>5. QED BY <2>2, <2>3, <2>4 DEF IngressInv
<1>8. CASE LeaseExpires
  <2>1. /\ consumer' \in Leases /\ consumer'.cursor = consumer.cursor
        /\ UNCHANGED <<written, forgotten, poller, journal, times>>
    BY <1>0, <1>8 DEF LeaseExpires, Leases
  <2>2. faults' \in 0 .. MaxFaults
    BY <1>0, <1>8 DEF LeaseExpires
  <2>3. IngressTypeOK'
    BY <2>1, <2>2 DEF IngressInv, IngressTypeOK, Updates, Leases
  <2>4. Behind' /\ Prefix'
    BY <2>1 DEF IngressInv, Behind, Prefix, Updates
  <2>5. QED BY <2>3, <2>4 DEF IngressInv
<1>2. ASSUME NEW w \in Workers, EnsureLease(w) PROVE IngressInv'
  <2>1. CASE poller' = [poller EXCEPT ![w].at = "fetch"] /\ UNCHANGED consumer
    <3>1. poller' = [poller EXCEPT ![w] = [poller[w] EXCEPT !.at = "fetch"]]
      BY <2>1
    <3>2. /\ [poller[w] EXCEPT !.at = "fetch"] \in Loops
          /\ [poller[w] EXCEPT !.at = "fetch"].cursor <= consumer.cursor
          /\ [poller[w] EXCEPT !.at = "fetch"].from <= consumer.cursor
          /\ [poller[w] EXCEPT !.at = "fetch"].upto <= written
      BY <1>0 DEF Loops
    <3>3. QED BY <1>0, <1>2, <2>1, <3>1, <3>2, LoopMoves DEF EnsureLease
  <2>2. CASE /\ consumer' = [consumer EXCEPT !.holder = w, !.gen = consumer.gen + 1, !.live = TRUE]
             /\ poller' = [poller EXCEPT ![w] = [at |-> "fetch", gen |-> consumer.gen + 1,
                                                cursor |-> consumer.cursor, from |-> 0, upto |-> 0]]
    <3> DEFINE loop == [at |-> "fetch", gen |-> consumer.gen + 1, cursor |-> consumer.cursor,
                        from |-> 0, upto |-> 0]
    <3>1. /\ loop \in Loops /\ loop.cursor <= consumer.cursor /\ loop.from <= consumer.cursor
          /\ loop.upto <= written
      BY <1>0 DEF Loops
    <3>2. consumer' \in Leases /\ consumer'.cursor = consumer.cursor
      <4>1. consumer' = [holder |-> w, gen |-> consumer.gen + 1, live |-> TRUE, cursor |-> consumer.cursor]
        BY <1>0, <2>2 DEF Leases
      <4>2. consumer.gen + 1 \in Nat /\ w \in Workers \union {Nobody, Gone}
        BY <1>0
      <4>3. QED BY <1>0, <4>1, <4>2 DEF Leases
    <3>3. poller' = [poller EXCEPT ![w] = loop]
      BY <2>2
    <3> HIDE DEF loop
    <3>4. QED BY <1>0, <1>2, <3>1, <3>2, <3>3, LoopMoves DEF EnsureLease
  <2>3. CASE poller' = [poller EXCEPT ![w] = NoLease] /\ UNCHANGED consumer
    <3>1. /\ NoLease.cursor <= consumer.cursor /\ NoLease.from <= consumer.cursor
          /\ NoLease.upto <= written
      BY <1>0, <1>a
    <3>2. QED BY <1>0, <1>2, <1>a, <2>3, <3>1, LoopMoves DEF EnsureLease
  <2>4. QED BY <1>2, <2>1, <2>2, <2>3 DEF EnsureLease
<1>3. ASSUME NEW w \in Workers, Fetch(w) PROVE IngressInv'
  <2>1. PICK upto \in Updates : /\ upto <= written
                                /\ poller' = [poller EXCEPT ![w].at = "batch", ![w].from = From(w),
                                                            ![w].upto = upto]
    BY <1>3 DEF Fetch
  <2> DEFINE loop == [poller[w] EXCEPT !.at = "batch", !.from = From(w), !.upto = upto]
  <2>2. poller' = [poller EXCEPT ![w] = loop]
    BY <2>1
  <2>3. From(w) \in 0 .. MaxUpdates /\ From(w) <= consumer.cursor
    BY FromBehind
  <2>4. /\ loop \in Loops /\ loop.cursor <= consumer.cursor /\ loop.from <= consumer.cursor
        /\ loop.upto <= written
    <3> DEFINE begun == [poller[w] EXCEPT !.at = "batch"]
               based == [begun EXCEPT !.from = From(w)]
    <3>1. begun \in Loops /\ begun.cursor <= consumer.cursor /\ upto \in 0 .. MaxUpdates
      BY <1>0, <2>1 DEF Updates, Loops
    <3>2. loop = [based EXCEPT !.upto = upto]
      OBVIOUS
    <3> HIDE DEF begun, loop
    <3>3. based \in Loops /\ based.cursor <= consumer.cursor /\ based.from = From(w)
      BY <2>3, <3>1 DEF Loops
    <3> HIDE DEF based
    <3>4. QED BY <2>1, <2>3, <3>1, <3>2, <3>3 DEF Loops
  <2> HIDE DEF loop
  <2>5. QED BY <1>0, <1>3, <2>2, <2>3, <2>4, LoopMoves DEF Fetch
<1>4. ASSUME NEW w \in Workers, FetchNothing(w) \/ RollBack(w) PROVE IngressInv'
  <2> DEFINE loop == [poller[w] EXCEPT !.at = "idle"]
  <2>1. poller' = [poller EXCEPT ![w] = loop]
    BY <1>4 DEF FetchNothing, RollBack
  <2>2. /\ loop \in Loops /\ loop.cursor <= consumer.cursor /\ loop.from <= consumer.cursor
        /\ loop.upto <= written
    BY <1>0 DEF Loops
  <2>3. forgotten' \in 0 .. MaxUpdates /\ forgotten' <= consumer.cursor
    BY <1>0, <1>4, FromBehind DEF FetchNothing, RollBack
  <2> HIDE DEF loop
  <2>4. QED BY <1>0, <1>4, <2>1, <2>2, <2>3, LoopMoves DEF FetchNothing, RollBack
<1>5. ASSUME NEW w \in Workers, SettleBatch(w) PROVE IngressInv'
  <2>1. /\ consumer'.cursor = poller[w].upto /\ poller[w].upto \in 1 .. written
        /\ consumer.cursor < poller[w].upto
        /\ journal' = 1 .. poller[w].upto
        /\ times' = [u \in Updates |-> IF u <= poller[w].upto THEN 1 ELSE 0]
    BY <1>5, Settles
  <2>2. PICK cursor \in {poller[w].upto, poller[w].cursor} :
           poller' = [poller EXCEPT ![w].at = "idle", ![w].cursor = cursor]
    BY <1>5 DEF SettleBatch
  <2>3. /\ UNCHANGED <<written, forgotten, faults>>
        /\ consumer' = [consumer EXCEPT !.cursor = poller[w].upto]
    BY <1>5 DEF SettleBatch
  <2> DEFINE loop == [poller[w] EXCEPT !.at = "idle", !.cursor = cursor]
  <2>a. poller' = [poller EXCEPT ![w] = loop]
    BY <2>2
  <2>b. /\ loop \in Loops /\ loop.cursor <= poller[w].upto /\ loop.from <= poller[w].upto
        /\ loop.upto <= written
    <3>1. /\ poller[w].gen \in Nat /\ poller[w].cursor \in 0 .. MaxUpdates
          /\ poller[w].from \in 0 .. MaxUpdates /\ poller[w].upto \in 0 .. MaxUpdates
      BY <1>0 DEF Loops
    <3> DEFINE ended == [poller[w] EXCEPT !.at = "idle"]
    <3>2. /\ ended \in Loops /\ ended.from = poller[w].from /\ ended.upto = poller[w].upto
      BY <1>0 DEF Loops
    <3>3. loop = [ended EXCEPT !.cursor = cursor]
      OBVIOUS
    <3>4. /\ cursor \in 0 .. MaxUpdates /\ cursor <= poller[w].upto
          /\ poller[w].from <= poller[w].upto
      BY <1>0, <2>1, <2>2, <3>1
    <3> HIDE DEF ended, loop
    <3>5. QED BY <1>0, <3>1, <3>2, <3>3, <3>4 DEF Loops
  <2> HIDE DEF loop
  <2>c. consumer' \in Leases
    BY <1>0, <2>1, <2>3 DEF Leases
  <2>4. IngressTypeOK'
    <3>1. poller' \in [Workers -> Loops]
      BY <1>0, <2>a, <2>b
    <3>2. journal' \subseteq Updates /\ times' \in [Updates -> Nat]
      BY <1>0, <2>1 DEF Updates
    <3>3. QED BY <1>0, <2>3, <2>c, <3>1, <3>2 DEF IngressTypeOK, Loops, Leases
  <2>5. Behind'
    <3>1. ASSUME NEW v \in Workers
          PROVE  /\ poller'[v].cursor <= consumer'.cursor /\ poller'[v].from <= consumer'.cursor
                 /\ poller'[v].upto <= written'
      <4>1. CASE v = w
        BY <1>0, <2>1, <2>3, <2>a, <2>b, <4>1
      <4>2. CASE v # w
        <5>1. /\ poller'[v] = poller[v] /\ poller[v].cursor \in 0 .. MaxUpdates
              /\ poller[v].from \in 0 .. MaxUpdates
          BY <1>0, <2>a, <4>2 DEF Loops
        <5>2. poller[v].cursor <= poller[w].upto /\ poller[v].from <= poller[w].upto
          BY <1>0, <2>1, <5>1
        <5>3. QED BY <1>0, <2>1, <2>3, <5>1, <5>2
      <4>3. QED BY <4>1, <4>2
    <3>2. forgotten' <= consumer'.cursor
      BY <1>0, <2>1, <2>3
    <3>3. QED BY <3>1, <3>2 DEF Behind
  <2>6. Prefix'
    BY <1>0, <2>1, <2>3 DEF Prefix, Updates
  <2>7. QED BY <2>4, <2>5, <2>6 DEF IngressInv
<1>6. ASSUME NEW w \in Workers, FenceLost(w) \/ Release(w) \/ Crash(w) PROVE IngressInv'
  <2>1. poller' = [poller EXCEPT ![w] = NoLease] /\ UNCHANGED <<written, forgotten, journal, times>>
    BY <1>6 DEF FenceLost, Release, Crash
  <2>2. consumer' \in Leases /\ consumer'.cursor = consumer.cursor
    BY <1>0, <1>6 DEF FenceLost, Release, Crash, Leases
  <2>3. faults' \in 0 .. MaxFaults
    BY <1>0, <1>6 DEF FenceLost, Release, Crash
  <2>4. /\ NoLease.cursor <= consumer.cursor /\ NoLease.from <= consumer.cursor
        /\ NoLease.upto <= written
    BY <1>0, <1>a
  <2>5. QED BY <1>0, <1>a, <2>1, <2>2, <2>3, <2>4, LoopMoves
<1>7. QED
  BY <1>1, <1>2, <1>3, <1>4, <1>5, <1>6, <1>8 DEF IngressNext

LEMMA IngressInvariant == IngressSpec => []IngressInv
  BY IngressInitially, IngressInductive, PTL DEF IngressSpec

(* Every variable keeps its type, with any number of loops and faults.      *)
THEOREM IngressTypeCorrect == IngressSpec => []IngressTypeOK
<1>1. IngressInv => IngressTypeOK
  BY DEF IngressInv
<1>2. QED BY <1>1, IngressInvariant, PTL

(* What Telegram forgot is in the journal, which is what the durable cursor *)
(* covers: the advance of the cursor and the records of a batch cannot come *)
(* apart, by whichever generation of the lease they were made.              *)
THEOREM NothingLost == IngressSpec => []CursorIsTheJournal
<1>1. IngressInv => CursorIsTheJournal
  BY DEF IngressInv, Behind, Prefix, CursorIsTheJournal
<1>2. QED BY <1>1, IngressInvariant, PTL

LEMMA FeedStep == IngressInv /\ [IngressNext]_ingressVars => [Feed!WriteUpdate \/ Feed!SettleNext]_<<written, times>>
<1> SUFFICES ASSUME IngressInv, IngressNext, ~UNCHANGED <<written, times>>
             PROVE  Feed!WriteUpdate \/ Feed!SettleNext
  BY DEF ingressVars
<1>1. CASE Write
  BY <1>1 DEF Write, Feed!WriteUpdate
<1>2. ASSUME NEW w \in Workers, SettleBatch(w) PROVE Feed!SettleNext
  <2>1. /\ poller[w].upto \in 1 .. written /\ consumer.cursor < poller[w].upto
        /\ times' = [u \in Updates |-> IF u <= poller[w].upto THEN 1 ELSE 0]
    BY <1>2, Settles
  <2>2. poller[w].upto \in Updates /\ times[poller[w].upto] = 0
    BY <2>1, IngressAssumption DEF IngressInv, IngressTypeOK, Prefix, Updates
  <2>3. times' = Feed!First(poller[w].upto) /\ UNCHANGED written
    BY <1>2, <2>1 DEF SettleBatch, Feed!First, Feed!Updates, Updates
  <2>4. QED BY <2>1, <2>2, <2>3 DEF Feed!SettleNext
<1>3. QED
  BY <1>1, <1>2 DEF IngressNext, LeaseExpires, EnsureLease, Fetch, FetchNothing, FenceLost, RollBack,
                    Release, Crash

(* The leased consumer implements the feed that TelegramCommands relies on: *)
(* updates take effect in order and once.                                   *)
THEOREM ImplementsFeed == IngressSpec => IsFeed
<1>1. IngressInit => Feed!FeedInit
  <2> SUFFICES ASSUME IngressInit PROVE Feed!FeedInit
    OBVIOUS
  <2>1. \A u \in Updates : 0 = IF u <= 0 THEN 1 ELSE 0
    BY IngressAssumption DEF Updates
  <2>2. QED BY <2>1 DEF IngressInit, Feed!FeedInit, Feed!First, Feed!Updates, Updates
<1>2. QED BY <1>1, FeedStep, IngressInvariant, PTL DEF IngressSpec, IsFeed, Feed!FeedSpec

-----------------------------------------------------------------------------

(* The values of the rows of TelegramCommands.                              *)
Binding == [state : {"none", "active", "revoked"}, owner : Owners \union {None},
            chat : Chats \union {None}]
Token == [state : {"none", "open", "used", "lapsed"}, binding : 0 .. MaxUpdates,
          auth : 0 .. MaxAuth]
Command == [state : {"none", "queued", "applied", "rejected"},
            kind : {"none", "control", "action"}, binding : 0 .. MaxUpdates,
            auth : 0 .. MaxAuth, conf : 0 .. MaxUpdates, replied : BOOLEAN]
User == [active : BOOLEAN, auth : 1 .. MaxAuth]
Lane == [at : {"idle", "settle", "send"}, command : 0 .. MaxUpdates, timedOut : BOOLEAN]

\* CommandsTypeOK without the quota.
Typed ==
    /\ inbox \in Seq(Chats \union {None}) /\ Len(inbox) <= MaxUpdates
    /\ code \in [Codes -> Owners \union {None, "used"}]
    /\ binding \in [0 .. MaxUpdates -> Binding]
    /\ conf \in [Updates -> Token]
    /\ command \in [Updates -> Command]
    /\ user \in [Owners -> User]
    /\ lane \in [Lanes -> Lane]
    /\ sent \in [Updates -> Seq(Chats)]

WithinQuota == \A o \in Owners : Cardinality(Outstanding(o)) <= OUTSTANDING

\* A binding and a command are made by the update they are named after.
Unmade ==
    \A u \in Updates : u > Len(inbox) => binding[u] = Unbound /\ command[u] = NoCommand

Bound(b) == binding[b].state # "none" => binding[b].chat \in Chats /\ binding[b].owner \in Owners

\* A command belongs to the chat of its message, through its binding.
Asked(u) ==
    \/ command[u] = NoCommand
    \/ /\ command[u].state # "none" /\ command[u].kind # "none"
       /\ binding[command[u].binding].state # "none"
       /\ binding[command[u].binding].chat = inbox[u]

\* A token was issued with the answer to a control, under its binding.
Issued(t) ==
    conf[t].state # "none" =>
        /\ command[t].kind = "control" /\ command[t].state = "applied" /\ command[t].replied
        /\ conf[t].binding = command[t].binding

\* An action has used up its token.
Confirmed(u) ==
    command[u].kind = "action" =>
        /\ command[u].conf \in Updates /\ conf[command[u].conf].state = "used"
        /\ conf[command[u].conf].binding = command[u].binding
        /\ conf[command[u].conf].auth = command[u].auth

\* A row a lane is sending is marked, unsent, and that lane's alone.
Picked(l) ==
    lane[l].at # "idle" =>
        lane[l].command \in Updates /\ command[lane[l].command].state # "none"

Unsent(l) ==
    lane[l].at = "send" =>
        command[lane[l].command].replied /\ sent[lane[l].command] = <<>>

Apart(l, m) ==
    lane[l].at = "send" /\ lane[m].at = "send" /\ lane[l].command = lane[m].command => l = m

Sent(u) == sent[u] # <<>> => command[u].replied /\ sent[u] = <<inbox[u]>>

CommandsInv ==
    /\ Typed /\ WithinQuota /\ Unmade
    /\ \A b \in 0 .. MaxUpdates : Bound(b)
    /\ \A u \in Updates : Asked(u) /\ Issued(u) /\ Confirmed(u) /\ Sent(u)
    /\ \A l \in Lanes : Picked(l) /\ Unsent(l)
    /\ \A l, m \in Lanes : Apart(l, m)

-----------------------------------------------------------------------------
(* Bounds are positive numbers, so 0 and Now name bindings.                *)
LEMMA Bounds ==
    /\ OUTSTANDING \in Nat /\ OUTSTANDING >= 1 /\ MaxUpdates \in Nat /\ MaxUpdates >= 1
    /\ MaxAuth \in Nat /\ MaxAuth >= 1
    /\ Updates = 1 .. MaxUpdates /\ Updates \subseteq 0 .. MaxUpdates
    /\ 0 \in 0 .. MaxUpdates /\ 0 \notin Updates
BY CommandsAssumption DEF Updates

LEMMA OutstandingFinite ==
    ASSUME NEW o \in Owners
    PROVE  IsFiniteSet(Outstanding(o))
<1>1. Outstanding(o) \subseteq Updates
    BY DEF Outstanding
<1>2. IsFiniteSet(1 .. MaxUpdates)
    BY Bounds, FS_Interval
<1> QED BY <1>1, <1>2, FS_Subset DEF Updates

LEMMA CommandsInitially == Init => CommandsInv
<1> SUFFICES ASSUME Init PROVE CommandsInv
    OBVIOUS
<1> USE CommandsAssumption, Bounds DEF Init
<1>1. Typed
    BY DEF Typed, Binding, Token, Command, User, Lane, Unbound, NotIssued, NoCommand, NoRow
<1>2. WithinQuota
    <2> SUFFICES ASSUME NEW o \in Owners PROVE Cardinality(Outstanding(o)) <= OUTSTANDING
        BY DEF WithinQuota
    <2>1. Outstanding(o) = {}
        BY DEF Outstanding, NotIssued
    <2> QED BY <2>1, FS_EmptySet
<1>3. Unmade /\ (\A b \in 0 .. MaxUpdates : Bound(b))
    BY DEF Unmade, Bound, Unbound
<1>4. \A u \in Updates : Asked(u) /\ Issued(u) /\ Confirmed(u) /\ Sent(u)
    BY DEF Asked, Issued, Confirmed, Sent, NoCommand, NotIssued
<1>5. /\ \A l \in Lanes : Picked(l) /\ Unsent(l)
      /\ \A l, m \in Lanes : Apart(l, m)
    BY DEF Picked, Unsent, Apart, NoRow
<1> QED BY <1>1, <1>2, <1>3, <1>4, <1>5 DEF CommandsInv

-----------------------------------------------------------------------------
\* The steps around the chat.
LEMMA AroundStep ==
    ASSUME CommandsInv,
           \/ \E o \in Owners : ChangeUser(o) \/ \E k \in Codes : CreateCode(o, k)
           \/ \E b \in DOMAIN binding : RevokeBinding(b)
           \/ \E u \in Updates : Lapse(u) \/ Execute(u)
    PROVE  CommandsInv'
<1> USE Bounds DEF CommandsInv
<1>1. ASSUME NEW o \in Owners, ChangeUser(o) PROVE CommandsInv'
    <2>1. Typed'
        <3>1. user[o].auth + 1 \in 1 .. MaxAuth
            BY <1>1 DEF ChangeUser, Typed, User
        <3>2. user' \in [Owners -> User]
            BY <1>1, <3>1 DEF ChangeUser, Typed, User
        <3> QED BY <1>1, <3>2 DEF ChangeUser, Typed
    <2> QED BY <1>1, <2>1 DEF ChangeUser, WithinQuota, Outstanding, OwnerOf, Unmade, Bound,
            Asked, Issued, Confirmed, Sent, Picked, Unsent, Apart
<1>2. ASSUME NEW o \in Owners, NEW k \in Codes, CreateCode(o, k) PROVE CommandsInv'
    <2>1. Typed'
        BY <1>2 DEF CreateCode, Typed
    <2> QED BY <1>2, <2>1 DEF CreateCode, WithinQuota, Outstanding, OwnerOf, Unmade, Bound,
            Asked, Issued, Confirmed, Sent, Picked, Unsent, Apart
<1>3. ASSUME NEW b \in DOMAIN binding, RevokeBinding(b) PROVE CommandsInv'
    <2>1. Typed'
        <3>1. binding[b] \in Binding
            BY <1>3 DEF Typed
        <3>2. [binding[b] EXCEPT !.state = "revoked"] \in Binding
            BY <3>1 DEF Binding
        <3>3. binding' \in [0 .. MaxUpdates -> Binding]
            BY <1>3, <3>2 DEF RevokeBinding, Typed
        <3> QED BY <1>3, <3>3 DEF RevokeBinding, Typed
    <2>2. /\ \A a \in 0 .. MaxUpdates : /\ binding'[a].owner = binding[a].owner
                                       /\ binding'[a].chat = binding[a].chat
                                       /\ binding'[a].state = "none" <=> binding[a].state = "none"
          /\ \A a \in 0 .. MaxUpdates : a # b => binding'[a] = binding[a]
        BY <1>3 DEF RevokeBinding, Typed
    <2>3. WithinQuota'
        <3>1. \A o \in Owners : Outstanding(o)' = Outstanding(o)
            BY <1>3, <2>2 DEF RevokeBinding, Outstanding, OwnerOf, Typed
        <3> QED BY <3>1 DEF WithinQuota
    <2>4. Unmade'
        BY <1>3, <2>2 DEF RevokeBinding, Unmade, Unbound
    <2>5. \A a \in 0 .. MaxUpdates : Bound(a)'
        BY <1>3, <2>2 DEF RevokeBinding, Bound
    <2>6. \A u \in Updates : Asked(u)'
        BY <1>3, <2>2 DEF RevokeBinding, Asked, Typed
    <2> QED BY <1>3, <2>1, <2>3, <2>4, <2>5, <2>6
            DEF RevokeBinding, Issued, Confirmed, Sent, Picked, Unsent, Apart
<1>4. ASSUME NEW t \in Updates, Lapse(t) PROVE CommandsInv'
    <2>1. Typed'
        <3>1. [conf[t] EXCEPT !.state = "lapsed"] \in Token
            BY DEF Typed, Token
        <3>2. conf' \in [Updates -> Token]
            BY <1>4, <3>1 DEF Lapse, Typed
        <3> QED BY <1>4, <3>2 DEF Lapse, Typed
    <2>2. WithinQuota'
        <3> SUFFICES ASSUME NEW o \in Owners PROVE Cardinality(Outstanding(o)') <= OUTSTANDING
            BY DEF WithinQuota
        <3>1. Outstanding(o)' \subseteq Outstanding(o)
            BY <1>4 DEF Lapse, Outstanding, OwnerOf, Typed
        <3>2. IsFiniteSet(Outstanding(o))
            BY FS_Interval, FS_Subset DEF Outstanding
        <3> QED BY <3>1, <3>2, FS_Subset, FS_CardinalityType DEF WithinQuota
    <2>3. \A u \in Updates : Issued(u)' /\ Confirmed(u)'
        <3>1. /\ conf[t].state = "open"
              /\ \A u \in Updates : /\ conf'[u].binding = conf[u].binding
                                    /\ conf'[u].auth = conf[u].auth
                                    /\ u # t => conf'[u] = conf[u]
            BY <1>4 DEF Lapse, Typed, Token
        <3> QED BY <1>4, <3>1 DEF Lapse, Issued, Confirmed
    <2> QED BY <1>4, <2>1, <2>2, <2>3 DEF Lapse, Unmade, Bound, Asked, Sent, Picked, Unsent, Apart
<1>5. ASSUME NEW v \in Updates, Execute(v) PROVE CommandsInv'
    <2>1. Typed'
        <3>0. command[v] \in Command
            BY DEF Typed
        <3>1. \A x \in {"applied", "rejected"} : [command[v] EXCEPT !.state = x] \in Command
            BY <3>0 DEF Command
        <3>2. PICK x \in {"applied", "rejected"} : command' = [command EXCEPT ![v].state = x]
            BY <1>5 DEF Execute
        <3>3. [command[v] EXCEPT !.state = x] \in Command
            BY <3>1
        <3>4. command' \in [Updates -> Command]
            BY <3>2, <3>3 DEF Typed
        <3> QED BY <1>5, <3>4 DEF Execute, Typed
    <2>2. /\ command[v].state = "queued" /\ command'[v].state \in {"applied", "rejected"}
          /\ \A u \in Updates : /\ command'[u].kind = command[u].kind
                                /\ command'[u].binding = command[u].binding
                                /\ command'[u].conf = command[u].conf
                                /\ command'[u].auth = command[u].auth
                                /\ command'[u].replied = command[u].replied
                                /\ u # v => command'[u] = command[u]
        BY <1>5 DEF Execute, Typed, Command
    <2>3. WithinQuota' /\ Unmade'
        BY <1>5, <2>2 DEF Execute, WithinQuota, Outstanding, OwnerOf, Unmade, NoCommand
    <2>4. \A u \in Updates : Asked(u)' /\ Issued(u)' /\ Confirmed(u)' /\ Sent(u)'
        BY <1>5, <2>2 DEF Execute, Asked, Issued, Confirmed, Sent, NoCommand
    <2>5. \A l \in Lanes : Picked(l)' /\ Unsent(l)'
        BY <1>5, <2>2 DEF Execute, Picked, Unsent
    <2> QED BY <1>5, <2>1, <2>3, <2>4, <2>5 DEF Execute, Bound, Apart
<1> QED BY <1>1, <1>2, <1>3, <1>4, <1>5

-----------------------------------------------------------------------------
\* The steps of one update.

(* A message is recorded after the others, whose chats stay.               *)
LEMMA HandledStep ==
    ASSUME Typed, NEW chat \in Chats \union {None}, Handled(chat)
    PROVE  /\ inbox' \in Seq(Chats \union {None}) /\ Len(inbox') <= MaxUpdates
           /\ Now \in Updates /\ Now = Len(inbox) + 1 /\ Len(inbox') = Now /\ inbox'[Now] = chat
           /\ \A u \in Updates : u <= Len(inbox) => inbox'[u] = inbox[u]
BY Bounds DEF Typed, Handled, Now

(* What a command, the outbox and the lanes must satisfy for CommandsInv survives  *)
(* an update that leaves them alone, or queues a command.                  *)
LEMMA UpdateKeeps ==
    ASSUME CommandsInv, NEW chat \in Chats \union {None}, Handled(chat),
           \A u \in Updates : u # Now => command'[u] = command[u],
           command'[Now] = NoCommand \/ command'[Now].replied = FALSE
    PROVE  /\ \A u \in Updates : Sent(u)'
           /\ \A l \in Lanes : Picked(l)' /\ Unsent(l)'
           /\ \A l, m \in Lanes : Apart(l, m)'
<1>1. /\ Now \in Updates /\ command[Now] = NoCommand
      /\ \A u \in Updates : u <= Len(inbox) => inbox'[u] = inbox[u] /\ u # Now
      /\ \A u \in Updates : command[u] # NoCommand => u <= Len(inbox)
    BY HandledStep, Bounds DEF CommandsInv, Unmade, Typed
<1>2. UNCHANGED <<lane, sent>>
    BY DEF Handled
<1>3. \A u \in Updates : Sent(u)'
    BY <1>1, <1>2 DEF CommandsInv, Sent, NoCommand
<1>4. \A l \in Lanes : Picked(l)' /\ Unsent(l)'
    BY <1>1, <1>2 DEF CommandsInv, Picked, Unsent, NoCommand
<1> QED BY <1>2, <1>3, <1>4 DEF CommandsInv, Apart

\* Help, and what else has no effect.
LEMMA IgnoreStep == CommandsInv /\ Ignore => CommandsInv'
<1> SUFFICES ASSUME CommandsInv, Ignore PROVE CommandsInv'
    OBVIOUS
<1> USE DEF CommandsInv, Ignore
<1>0. Handled(None) /\ Typed
    OBVIOUS
<1>1. Typed'
    BY <1>0, HandledStep DEF Typed, Handled
<1>2. WithinQuota'
    BY <1>0 DEF Handled, WithinQuota, Outstanding, OwnerOf
<1>3. /\ \A u \in Updates : command[u] # NoCommand => u <= Len(inbox)
      /\ \A u \in Updates : u <= Len(inbox) => inbox'[u] = inbox[u]
      /\ Len(inbox') = Len(inbox) + 1
    BY <1>0, HandledStep, Bounds DEF Unmade, Typed
<1>4. Unmade'
    BY <1>3, Bounds DEF Unmade, Typed
<1>5. \A u \in Updates : Asked(u)' /\ Issued(u)' /\ Confirmed(u)'
    BY <1>3 DEF Asked, Issued, Confirmed
<1>6. \A b \in 0 .. MaxUpdates : Bound(b)'
    BY DEF Bound
<1>7. /\ \A u \in Updates : Sent(u)'
      /\ \A l \in Lanes : Picked(l)' /\ Unsent(l)'
      /\ \A l, m \in Lanes : Apart(l, m)'
    <2>1. Now \in Updates /\ command[Now] = NoCommand
        BY <1>0, HandledStep DEF Unmade, Typed
    <2>2. CommandsInv
        OBVIOUS
    <2> HIDE DEF CommandsInv
    <2> QED BY <1>0, <2>1, <2>2, UpdateKeeps DEF Ignore
<1> QED BY <1>1, <1>2, <1>4, <1>5, <1>6, <1>7

\* A code consumed: a new binding, and those of the owner it replaces revoked.
LEMMA BindStep ==
    ASSUME CommandsInv, NEW chat \in Chats, NEW k \in Codes, Bind(chat, k)
    PROVE  CommandsInv'
<1> USE Bounds DEF CommandsInv, Bind
<1>1. /\ CommandsInv /\ Handled(chat) /\ code[k] \in Owners /\ chat \in Chats \union {None}
      /\ conf' = conf /\ command' = command
    OBVIOUS
<1>2. /\ Now \in Updates /\ binding[Now] = Unbound /\ command[Now] = NoCommand
      /\ Now = Len(inbox) + 1 /\ Len(inbox') = Now /\ Len(inbox) \in Nat
      /\ \A u \in Updates : u <= Len(inbox) => inbox'[u] = inbox[u]
      /\ \A u \in Updates : command[u] # NoCommand => u <= Len(inbox)
    BY <1>1, HandledStep DEF Unmade, Typed
<1>3. /\ binding'[Now] = [state |-> "active", owner |-> code[k], chat |-> chat]
      /\ \A b \in 0 .. MaxUpdates : b # Now =>
            /\ binding'[b].owner = binding[b].owner /\ binding'[b].chat = binding[b].chat
            /\ binding'[b].state = "none" <=> binding[b].state = "none"
            /\ binding[b].state = "none" => binding'[b] = binding[b]
      /\ \A b \in 0 .. MaxUpdates : binding'[b] \in Binding
      /\ binding' \in [0 .. MaxUpdates -> Binding]
    <2>1. DOMAIN binding = 0 .. MaxUpdates
        BY DEF Typed
    <2>2. ASSUME NEW b \in 0 .. MaxUpdates PROVE binding[b] \in Binding
        BY DEF Typed
    <2>3. [state |-> "active", owner |-> code[k], chat |-> chat] \in Binding
        BY <1>1 DEF Binding
    <2>4. ASSUME NEW b \in 0 .. MaxUpdates
          PROVE  LET r == [binding[b] EXCEPT !.state = "revoked"] IN
                 r \in Binding /\ r.owner = binding[b].owner /\ r.chat = binding[b].chat
                 /\ r.state = "revoked"
        BY <2>2 DEF Binding
    <2> HIDE DEF CommandsInv
    <2>5. binding' = [b \in 0 .. MaxUpdates |->
            IF b = Now THEN [state |-> "active", owner |-> code[k], chat |-> chat]
            ELSE IF Replaces(b, code[k]) THEN [binding[b] EXCEPT !.state = "revoked"]
            ELSE binding[b]]
        BY <2>1
    <2>6. ASSUME NEW b \in 0 .. MaxUpdates
          PROVE  binding'[b] \in Binding
        BY <2>2, <2>3, <2>4, <2>5
    <2>7. ASSUME NEW b \in 0 .. MaxUpdates, b # Now
          PROVE  /\ binding'[b].owner = binding[b].owner /\ binding'[b].chat = binding[b].chat
                 /\ binding'[b].state = "none" <=> binding[b].state = "none"
                 /\ binding[b].state = "none" => binding'[b] = binding[b]
        BY <2>4, <2>5, <2>7 DEF Replaces
    <2>8. binding'[Now] = [state |-> "active", owner |-> code[k], chat |-> chat]
        BY <1>2, <2>5
    <2>9. binding' \in [0 .. MaxUpdates -> Binding]
        BY <2>5, <2>6
    <2> QED BY <2>6, <2>7, <2>8, <2>9
<1>4. Typed'
    <2>1. code' \in [Codes -> Owners \union {None, "used"}]
        BY DEF Typed
    <2> QED BY <1>1, <1>3, <2>1, HandledStep DEF Typed, Handled
<1>5. WithinQuota'
    <2>1. ASSUME NEW t \in Updates, conf[t].state = "open"
          PROVE  conf[t].binding \in 0 .. MaxUpdates /\ conf[t].binding # Now
        <3>1. conf[t].binding = command[t].binding /\ command[t].kind # "none"
            BY <2>1 DEF Issued
        <3>2. binding[conf[t].binding].state # "none"
            BY <3>1 DEF Asked, NoCommand
        <3> QED BY <1>2, <3>2 DEF Unbound, Typed, Token
    <2>2. ASSUME NEW o \in Owners PROVE Outstanding(o)' = Outstanding(o)
        BY <1>1, <1>3, <2>1 DEF Outstanding, OwnerOf
    <2> QED BY <2>2 DEF WithinQuota
<1>6. Unmade'
    BY <1>1, <1>2, <1>3 DEF Unmade, Unbound
<1>7. \A b \in 0 .. MaxUpdates : Bound(b)'
    BY <1>1, <1>3 DEF Bound
<1>8. \A u \in Updates : Asked(u)' /\ Issued(u)' /\ Confirmed(u)'
    <2>1. ASSUME NEW u \in Updates, command[u] # NoCommand
          PROVE  /\ command[u].binding \in 0 .. MaxUpdates
                 /\ inbox'[u] = inbox[u]
                 /\ command[u].binding # Now
        <3>1. binding[command[u].binding].state # "none"
            BY <2>1 DEF Asked
        <3> QED BY <1>2, <2>1, <3>1 DEF Unbound, Typed, Command
    <2>2. ASSUME NEW u \in Updates PROVE Asked(u)'
        BY <1>1, <1>3, <2>1 DEF Asked
    <2> QED BY <1>1, <2>2 DEF Issued, Confirmed
<1>9. /\ \A u \in Updates : Sent(u)'
      /\ \A l \in Lanes : Picked(l)' /\ Unsent(l)'
      /\ \A l, m \in Lanes : Apart(l, m)'
    <2> HIDE DEF CommandsInv
    <2> QED BY <1>1, <1>2, UpdateKeeps
<1> QED BY <1>4, <1>5, <1>6, <1>7, <1>8, <1>9

(* A command is queued for the chat of the message, through the binding the *)
(* chat resolves to.                                                       *)
LEMMA QueueStep ==
    ASSUME CommandsInv, NEW chat \in Chats, Handled(chat), UNCHANGED <<code, binding>>,
           NEW b \in DOMAIN binding, Resolves(b, chat),
           NEW kind \in {"control", "action"}, NEW token \in 0 .. MaxUpdates,
           Queue(b, kind, token)
    PROVE  /\ command' \in [Updates -> Command]
           /\ Now \in Updates /\ command[Now] = NoCommand
           /\ command'[Now] = [state |-> "queued", kind |-> kind, binding |-> b,
                               auth |-> Auth(b), conf |-> token, replied |-> FALSE]
           /\ \A u \in Updates : u # Now => command'[u] = command[u]
           /\ Unmade' /\ \A a \in 0 .. MaxUpdates : Bound(a)'
           /\ \A u \in Updates : Asked(u)' /\ Sent(u)'
           /\ \A l \in Lanes : Picked(l)' /\ Unsent(l)'
           /\ \A l, m \in Lanes : Apart(l, m)'
<1>1. /\ Now \in Updates /\ command[Now] = NoCommand
      /\ Now = Len(inbox) + 1 /\ Len(inbox') = Now /\ Len(inbox) \in Nat /\ inbox'[Now] = chat
      /\ \A u \in Updates : u <= Len(inbox) => inbox'[u] = inbox[u]
      /\ \A u \in Updates : command[u] # NoCommand => u <= Len(inbox)
    BY HandledStep, Bounds DEF CommandsInv, Unmade, Typed
<1>2. /\ b \in 0 .. MaxUpdates /\ binding[b].state = "active" /\ binding[b].chat = chat
      /\ binding[b].owner \in Owners
    <2>1. b \in 0 .. MaxUpdates
        BY DEF CommandsInv, Typed
    <2>2. binding[b].state = "active" /\ binding[b].chat = chat
        BY DEF Resolves
    <2> QED BY <2>1, <2>2 DEF CommandsInv, Bound
<1>3. Auth(b) \in 0 .. MaxAuth
    BY <1>2, Bounds DEF CommandsInv, Typed, Auth, OwnerOf, User
<1>4. /\ command'[Now] = [state |-> "queued", kind |-> kind, binding |-> b,
                          auth |-> Auth(b), conf |-> token, replied |-> FALSE]
      /\ \A u \in Updates : u # Now => command'[u] = command[u]
      /\ command' \in [Updates -> Command]
    <2>1. [state |-> "queued", kind |-> kind, binding |-> b,
           auth |-> Auth(b), conf |-> token, replied |-> FALSE] \in Command
        BY <1>2, <1>3 DEF Command
    <2>2. command \in [Updates -> Command]
        BY DEF CommandsInv, Typed
    <2> QED BY <1>1, <2>1, <2>2 DEF Queue
<1>5. Unmade'
    BY <1>1, <1>4, Bounds DEF CommandsInv, Unmade
<1>6. \A u \in Updates : Asked(u)'
    <2>1. ASSUME NEW u \in Updates PROVE Asked(u)'
        <3>1. CASE u = Now
            BY <1>1, <1>2, <1>4, <3>1 DEF Asked
        <3>2. CASE u # Now
            BY <1>1, <1>4, <3>2 DEF CommandsInv, Asked
        <3> QED BY <3>1, <3>2
    <2> QED BY <2>1
<1>7. \A a \in 0 .. MaxUpdates : Bound(a)'
    BY DEF CommandsInv, Bound
<1>8. chat \in Chats \union {None} /\ command'[Now].replied = FALSE
    BY <1>4
<1> QED BY <1>1, <1>4, <1>5, <1>6, <1>7, <1>8, UpdateKeeps

LEMMA AskStep ==
    ASSUME CommandsInv, NEW chat \in Chats, Ask(chat)
    PROVE  CommandsInv'
<1>1. PICK b \in DOMAIN binding : Resolves(b, chat) /\ Queue(b, "control", 0)
    BY DEF Ask
<1>2. Handled(chat) /\ UNCHANGED <<code, binding>> /\ UNCHANGED conf /\ CommandsInv
    BY DEF Ask
<1>3. /\ command' \in [Updates -> Command]
      /\ Now \in Updates /\ command[Now] = NoCommand
      /\ command'[Now].kind = "control"
      /\ \A u \in Updates : u # Now => command'[u] = command[u]
      /\ Unmade' /\ \A a \in 0 .. MaxUpdates : Bound(a)'
      /\ \A u \in Updates : Asked(u)' /\ Sent(u)'
      /\ \A l \in Lanes : Picked(l)' /\ Unsent(l)'
      /\ \A l, m \in Lanes : Apart(l, m)'
    <2>1. 0 \in 0 .. MaxUpdates /\ "control" \in {"control", "action"}
        BY Bounds
    <2>2. /\ command' \in [Updates -> Command]
          /\ Now \in Updates /\ command[Now] = NoCommand
          /\ command'[Now] = [state |-> "queued", kind |-> "control", binding |-> b,
                              auth |-> Auth(b), conf |-> 0, replied |-> FALSE]
          /\ \A u \in Updates : u # Now => command'[u] = command[u]
          /\ Unmade' /\ \A a \in 0 .. MaxUpdates : Bound(a)'
          /\ \A u \in Updates : Asked(u)' /\ Sent(u)'
          /\ \A l \in Lanes : Picked(l)' /\ Unsent(l)'
          /\ \A l, m \in Lanes : Apart(l, m)'
        BY <1>1, <1>2, <2>1, QueueStep
    <2> QED BY <2>2
<1>4. Typed'
    BY <1>2, <1>3, HandledStep DEF CommandsInv, Typed, Handled
<1>5. WithinQuota'
    BY <1>2 DEF CommandsInv, WithinQuota, Outstanding, OwnerOf
<1>6. \A u \in Updates : Issued(u)' /\ Confirmed(u)'
    BY <1>2, <1>3 DEF CommandsInv, Issued, Confirmed, NoCommand
<1> QED BY <1>3, <1>4, <1>5, <1>6 DEF CommandsInv

(* A confirmation uses up the token; the action is queued under what the    *)
(* token was issued for, and no other action names it.                     *)
LEMMA ConfirmStep ==
    ASSUME CommandsInv, NEW chat \in Chats, NEW t \in Updates, Confirm(chat, t)
    PROVE  CommandsInv'
<1>1. PICK b \in DOMAIN binding :
        /\ Resolves(b, chat) /\ Consumes(t, b)
        /\ conf' = [conf EXCEPT ![t].state = "used"]
        /\ Queue(b, "action", t) \/ UNCHANGED command
    BY DEF Confirm
<1>2. Handled(chat) /\ UNCHANGED <<code, binding>> /\ CommandsInv /\ chat \in Chats \union {None}
    BY DEF Confirm
<1>3. /\ conf[t].state = "open" /\ conf[t].binding = b /\ conf[t].auth = Auth(b)
      /\ conf' \in [Updates -> Token] /\ conf'[t].state = "used"
      /\ \A u \in Updates : conf'[u].binding = conf[u].binding /\ conf'[u].auth = conf[u].auth
      /\ \A u \in Updates : u # t => conf'[u] = conf[u]
    <2>1. conf \in [Updates -> Token]
        BY DEF CommandsInv, Typed
    <2>2. [conf[t] EXCEPT !.state = "used"] \in Token
        BY <2>1 DEF Token
    <2>3. conf[t].state = "open" /\ conf[t].binding = b /\ conf[t].auth = Auth(b)
        BY <1>1 DEF Consumes
    <2> QED BY <1>1, <2>1, <2>2, <2>3 DEF Token
<1>4. WithinQuota'
    <2> SUFFICES ASSUME NEW o \in Owners PROVE Cardinality(Outstanding(o)') <= OUTSTANDING
        BY DEF WithinQuota
    <2>1. Outstanding(o)' \subseteq Outstanding(o)
        BY <1>2, <1>3 DEF Outstanding, OwnerOf
    <2>2. IsFiniteSet(Outstanding(o))
        BY OutstandingFinite
    <2> QED BY <2>1, <2>2, FS_Subset, FS_CardinalityType, Bounds DEF CommandsInv, WithinQuota
<1>5. CASE UNCHANGED command
    <2>1. Typed'
        BY <1>2, <1>3, <1>5, HandledStep DEF CommandsInv, Typed, Handled
    <2>2. /\ Now \in Updates /\ command[Now] = NoCommand
          /\ Now = Len(inbox) + 1 /\ Len(inbox') = Now /\ Len(inbox) \in Nat
          /\ \A u \in Updates : u <= Len(inbox) => inbox'[u] = inbox[u]
          /\ \A u \in Updates : command[u] # NoCommand => u <= Len(inbox)
        <3>1. Typed /\ Unmade
            BY DEF CommandsInv
        <3>2. /\ Now \in Updates /\ Now = Len(inbox) + 1 /\ Len(inbox') = Now
              /\ \A u \in Updates : u <= Len(inbox) => inbox'[u] = inbox[u]
            BY <1>2, <3>1, HandledStep
        <3>3. Len(inbox) \in Nat
            BY <3>1 DEF Typed
        <3> QED BY <3>1, <3>2, <3>3, Bounds DEF Unmade
    <2>3. Unmade' /\ \A a \in 0 .. MaxUpdates : Bound(a)'
        BY <1>2, <1>5, <2>2, Bounds DEF CommandsInv, Unmade, Bound
    <2>4. \A u \in Updates : Asked(u)'
        BY <1>2, <1>5, <2>2 DEF CommandsInv, Asked
    <2>5. \A u \in Updates : Issued(u)' /\ Confirmed(u)'
        BY <1>3, <1>5 DEF CommandsInv, Issued, Confirmed
    <2>6. /\ \A u \in Updates : Sent(u)'
          /\ \A l \in Lanes : Picked(l)' /\ Unsent(l)'
          /\ \A l, m \in Lanes : Apart(l, m)'
        BY <1>2, <1>5, <2>2, UpdateKeeps
    <2> QED BY <1>4, <2>1, <2>3, <2>4, <2>5, <2>6 DEF CommandsInv
<1>6. CASE Queue(b, "action", t)
    <2>1. /\ command' \in [Updates -> Command]
          /\ Now \in Updates /\ command[Now] = NoCommand
          /\ command'[Now] = [state |-> "queued", kind |-> "action", binding |-> b,
                              auth |-> Auth(b), conf |-> t, replied |-> FALSE]
          /\ \A u \in Updates : u # Now => command'[u] = command[u]
          /\ Unmade' /\ \A a \in 0 .. MaxUpdates : Bound(a)'
          /\ \A u \in Updates : Asked(u)' /\ Sent(u)'
          /\ \A l \in Lanes : Picked(l)' /\ Unsent(l)'
          /\ \A l, m \in Lanes : Apart(l, m)'
        BY <1>1, <1>2, <1>6, QueueStep, Bounds
    <2>2. Typed'
        BY <1>2, <1>3, <2>1, HandledStep DEF CommandsInv, Typed, Handled
    <2>3. \A u \in Updates : Issued(u)'
        BY <1>3, <2>1 DEF CommandsInv, Issued, NoCommand
    <2>4. \A u \in Updates : Confirmed(u)'
        BY <1>3, <2>1 DEF CommandsInv, Confirmed
    <2> QED BY <1>4, <2>1, <2>2, <2>3, <2>4 DEF CommandsInv
<1> QED BY <1>1, <1>5, <1>6

-----------------------------------------------------------------------------
\* The steps of a replies lane.

\* Marking a row answered; the tokens stay apart from it.
LEMMA MarkStep ==
    ASSUME CommandsInv, NEW u \in Updates, command[u].state # "none", Mark(u),
           UNCHANGED <<inbox, code, binding, user, sent>>
    PROVE  /\ command' \in [Updates -> Command] /\ command'[u].replied = TRUE
           /\ \A v \in Updates :
                /\ command'[v].state = command[v].state /\ command'[v].kind = command[v].kind
                /\ command'[v].binding = command[v].binding
                /\ command'[v].conf = command[v].conf /\ command'[v].auth = command[v].auth
                /\ command[v].replied => command'[v].replied
                /\ v # u => command'[v] = command[v]
           /\ Unmade' /\ \A b \in 0 .. MaxUpdates : Bound(b)'
           /\ \A v \in Updates : Asked(v)' /\ Sent(v)'
<1>1. command \in [Updates -> Command] /\ command[u] \in Command
    BY DEF CommandsInv, Typed
<1>2. [command[u] EXCEPT !.replied = TRUE] \in Command
    BY <1>1 DEF Command
<1>3. /\ command' \in [Updates -> Command] /\ command'[u].replied = TRUE
      /\ \A v \in Updates :
            /\ command'[v].state = command[v].state /\ command'[v].kind = command[v].kind
            /\ command'[v].binding = command[v].binding
            /\ command'[v].conf = command[v].conf /\ command'[v].auth = command[v].auth
            /\ command[v].replied => command'[v].replied
            /\ v # u => command'[v] = command[v]
    BY <1>1, <1>2 DEF Mark, Command
<1>4. Unmade' /\ \A b \in 0 .. MaxUpdates : Bound(b)'
    BY <1>3 DEF CommandsInv, Unmade, Bound, NoCommand
<1>5. \A v \in Updates : Asked(v)'
    BY <1>3 DEF CommandsInv, Asked, NoCommand
<1>6. \A v \in Updates : Sent(v)'
    BY <1>3 DEF CommandsInv, Sent
<1> QED BY <1>3, <1>4, <1>5, <1>6

LEMMA PickRowStep ==
    ASSUME CommandsInv, NEW l \in Lanes, NEW u \in Updates, PickRow(l, u)
    PROVE  CommandsInv'
<1> DEFINE picked == [at |-> "settle", command |-> u, timedOut |-> command[u].state = "queued"]
<1>1. lane' = [lane EXCEPT ![l] = picked] /\ command[u].state # "none"
    BY DEF PickRow
<1>2. picked \in Lane /\ picked.at = "settle" /\ picked.command = u
    BY Bounds DEF Lane
<1>3. UNCHANGED <<inbox, code, binding, conf, command, user, sent>>
    BY DEF PickRow
<1> HIDE DEF picked
<1>4. /\ lane' \in [Lanes -> Lane] /\ lane'[l] = picked
      /\ \A m \in Lanes : m # l => lane'[m] = lane[m]
    BY <1>1, <1>2 DEF CommandsInv, Typed
<1>5. Typed'
    BY <1>3, <1>4 DEF CommandsInv, Typed
<1>6. \A m \in Lanes : Picked(m)' /\ Unsent(m)'
    BY <1>1, <1>2, <1>3, <1>4 DEF CommandsInv, Picked, Unsent
<1>7. \A m, n \in Lanes : Apart(m, n)'
    BY <1>2, <1>4 DEF CommandsInv, Apart
<1> QED BY <1>3, <1>5, <1>6, <1>7
        DEF CommandsInv, WithinQuota, Outstanding, OwnerOf, Unmade, Bound, Asked, Issued, Confirmed, Sent

\* A lane that leaves its row holds none.
LEMMA LeaveStep ==
    ASSUME CommandsInv, NEW l \in Lanes, Leave(l)
    PROVE  /\ lane' \in [Lanes -> Lane] /\ lane'[l].at = "idle"
           /\ \A m \in Lanes : m # l => lane'[m] = lane[m]
           /\ \A m, n \in Lanes : Apart(m, n)'
<1>1. NoRow \in Lane /\ NoRow.at = "idle"
    BY Bounds DEF NoRow, Lane
<1>2. /\ lane' \in [Lanes -> Lane] /\ lane'[l] = NoRow
      /\ \A m \in Lanes : m # l => lane'[m] = lane[m]
    BY <1>1 DEF CommandsInv, Typed, Leave
<1> QED BY <1>1, <1>2 DEF CommandsInv, Apart

LEMMA DropRowStep ==
    ASSUME CommandsInv, NEW l \in Lanes, DropRow(l)
    PROVE  CommandsInv'
<1>1. /\ Leave(l) /\ UNCHANGED <<inbox, code, binding, conf, command, user, sent>>
    BY DEF DropRow
<1>2. Typed'
    BY <1>1, LeaveStep DEF CommandsInv, Typed
<1>3. \A m \in Lanes : Picked(m)' /\ Unsent(m)'
    BY <1>1, LeaveStep DEF CommandsInv, Picked, Unsent
<1> QED BY <1>1, <1>2, <1>3, LeaveStep
        DEF CommandsInv, WithinQuota, Outstanding, OwnerOf, Unmade, Bound, Asked, Issued, Confirmed, Sent

LEMMA SuppressStep ==
    ASSUME CommandsInv, NEW l \in Lanes, Suppress(l)
    PROVE  CommandsInv'
<1> DEFINE u == lane[l].command
<1>1. /\ lane[l].at = "settle" /\ Mark(u) /\ Leave(l)
      /\ UNCHANGED <<inbox, code, binding, user, sent>> /\ conf' = conf
    BY DEF Suppress
<1>2. u \in Updates /\ command[u].state # "none"
    BY <1>1 DEF CommandsInv, Picked
<1> HIDE DEF u
<1>3. /\ command' \in [Updates -> Command]
      /\ \A v \in Updates :
            /\ command'[v].state = command[v].state /\ command'[v].kind = command[v].kind
            /\ command'[v].binding = command[v].binding
            /\ command'[v].conf = command[v].conf /\ command'[v].auth = command[v].auth
            /\ command[v].replied => command'[v].replied
      /\ Unmade' /\ \A b \in 0 .. MaxUpdates : Bound(b)'
      /\ \A v \in Updates : Asked(v)' /\ Sent(v)'
    BY <1>1, <1>2, MarkStep
<1>4. Typed'
    BY <1>1, <1>3, LeaveStep DEF CommandsInv, Typed
<1>5. WithinQuota'
    BY <1>1 DEF CommandsInv, WithinQuota, Outstanding, OwnerOf
<1>6. \A v \in Updates : Issued(v)' /\ Confirmed(v)'
    BY <1>1, <1>3 DEF CommandsInv, Issued, Confirmed
<1>7. \A m \in Lanes : Picked(m)' /\ Unsent(m)'
    BY <1>1, <1>3, LeaveStep DEF CommandsInv, Picked, Unsent
<1> QED BY <1>1, <1>3, <1>4, <1>5, <1>6, <1>7, LeaveStep DEF CommandsInv

(* The token of an answer is new, and its owner has room for it.            *)
LEMMA IssueStep ==
    ASSUME CommandsInv, NEW u \in Updates, command[u].state # "none", ~command[u].replied,
           MayIssue(u), Issue(u), UNCHANGED binding
    PROVE  /\ conf' \in [Updates -> Token] /\ WithinQuota'
           /\ conf[u].state = "none" /\ conf'[u].binding = command[u].binding
           /\ \A t \in Updates : t # u => conf'[t] = conf[t]
<1> DEFINE token == [state |-> "open", binding |-> command[u].binding,
                     auth |-> Auth(command[u].binding)]
<1>1. conf \in [Updates -> Token] /\ command[u] \in Command
    BY DEF CommandsInv, Typed
<1>2. command[u].binding \in 0 .. MaxUpdates /\ OwnerOf(command[u].binding) \in Owners
    BY <1>1 DEF CommandsInv, Asked, NoCommand, Bound, OwnerOf, Command
<1>3. token \in Token
    BY <1>2, Bounds DEF CommandsInv, Typed, Auth, User, Token
<1>4. conf' = [conf EXCEPT ![u] = token]
    BY DEF Issue
<1>5. token.state = "open" /\ token.binding = command[u].binding
    OBVIOUS
<1> HIDE DEF token
<1>6. /\ conf' \in [Updates -> Token] /\ conf'[u] = token
      /\ \A t \in Updates : t # u => conf'[t] = conf[t]
    BY <1>1, <1>3, <1>4
<1>7. conf[u].state = "none"
    BY DEF CommandsInv, Issued
<1>8. WithinQuota'
    <2> SUFFICES ASSUME NEW o \in Owners PROVE Cardinality(Outstanding(o)') <= OUTSTANDING
        BY DEF WithinQuota
    <2>1. IsFiniteSet(Outstanding(o)) /\ u \notin Outstanding(o)
        <3>1. IsFiniteSet(Outstanding(o))
            BY OutstandingFinite
        <3> QED BY <3>1, <1>7 DEF Outstanding
    <2>2. CASE o = OwnerOf(command[u].binding)
        <3>1. Outstanding(o)' = Outstanding(o) \union {u}
            BY <1>5, <1>6, <2>2 DEF Outstanding, OwnerOf
        <3>2. Cardinality(Outstanding(o)) < OUTSTANDING
            BY <2>2 DEF MayIssue
        <3>3. Cardinality(Outstanding(o)) \in Nat
            BY <2>1, FS_CardinalityType
        <3>4. Cardinality(Outstanding(o)') = Cardinality(Outstanding(o)) + 1
            BY <2>1, <3>1, FS_AddElement
        <3> QED BY <3>2, <3>3, <3>4, Bounds
    <2>3. CASE o # OwnerOf(command[u].binding)
        <3>1. Outstanding(o)' = Outstanding(o)
            BY <1>5, <1>6, <1>7, <2>3 DEF Outstanding, OwnerOf
        <3> QED BY <3>1 DEF CommandsInv, WithinQuota
    <2> QED BY <2>2, <2>3
<1> QED BY <1>5, <1>6, <1>7, <1>8

LEMMA SettleRowStep ==
    ASSUME CommandsInv, NEW l \in Lanes, SettleRow(l)
    PROVE  CommandsInv'
<1> DEFINE u == lane[l].command
<1>1. /\ lane[l].at = "settle" /\ Wins(u) /\ Mark(u)
      /\ lane' = [lane EXCEPT ![l].at = "send"]
      /\ UNCHANGED <<inbox, code, binding, user, sent>>
      /\ UNCHANGED conf \/ (MayIssue(u) /\ Issue(u))
    BY DEF SettleRow
<1>2. u \in Updates /\ command[u].state # "none" /\ ~command[u].replied /\ sent[u] = <<>>
    BY <1>1 DEF CommandsInv, Picked, Wins, Sent
<1>3. lane \in [Lanes -> Lane] /\ lane[l] \in Lane /\ lane[l].command = u
    BY DEF CommandsInv, Typed
<1>4. /\ [lane[l] EXCEPT !.at = "send"] \in Lane
      /\ [lane[l] EXCEPT !.at = "send"].command = u
      /\ [lane[l] EXCEPT !.at = "send"].at = "send"
    BY <1>3 DEF Lane
<1> HIDE DEF u
<1>5. /\ lane' \in [Lanes -> Lane] /\ lane'[l].command = u /\ lane'[l].at = "send"
      /\ \A m \in Lanes : m # l => lane'[m] = lane[m]
    BY <1>1, <1>3, <1>4
<1>6. /\ command' \in [Updates -> Command] /\ command'[u].replied = TRUE
      /\ \A v \in Updates :
            /\ command'[v].state = command[v].state /\ command'[v].kind = command[v].kind
            /\ command'[v].binding = command[v].binding
            /\ command'[v].conf = command[v].conf /\ command'[v].auth = command[v].auth
            /\ command[v].replied => command'[v].replied
            /\ v # u => command'[v] = command[v]
      /\ Unmade' /\ \A b \in 0 .. MaxUpdates : Bound(b)'
      /\ \A v \in Updates : Asked(v)' /\ Sent(v)'
    BY <1>1, <1>2, MarkStep
<1>7. /\ conf' \in [Updates -> Token] /\ WithinQuota'
      /\ \A t \in Updates : t # u => conf'[t] = conf[t]
      /\ \/ conf' = conf
         \/ /\ command[u].kind = "control" /\ command[u].state = "applied"
            /\ conf[u].state = "none" /\ conf'[u].binding = command[u].binding
    <2>1. CASE UNCHANGED conf
        BY <1>1, <2>1 DEF CommandsInv, Typed, WithinQuota, Outstanding, OwnerOf
    <2>2. CASE MayIssue(u) /\ Issue(u)
        BY <1>1, <1>2, <2>2, IssueStep DEF MayIssue
    <2> QED BY <1>1, <2>1, <2>2
<1>8. Typed'
    BY <1>1, <1>5, <1>6, <1>7 DEF CommandsInv, Typed
<1>9. \A v \in Updates : Issued(v)' /\ Confirmed(v)'
    <2>1. \A v \in Updates : Issued(v)'
        BY <1>2, <1>6, <1>7 DEF CommandsInv, Issued
    <2>2. ASSUME NEW v \in Updates, command[v].kind = "action", command[v].conf = u PROVE conf' = conf
        BY <1>7, <2>2 DEF CommandsInv, Confirmed
    <2>3. \A v \in Updates : Confirmed(v)'
        BY <1>6, <1>7, <2>2 DEF CommandsInv, Confirmed
    <2> QED BY <2>1, <2>3
<1>10. \A m \in Lanes : Picked(m)' /\ Unsent(m)'
    BY <1>1, <1>2, <1>5, <1>6 DEF CommandsInv, Picked, Unsent
<1>11. \A m, n \in Lanes : Apart(m, n)'
    <2>1. ASSUME NEW m \in Lanes, lane[m].at = "send" PROVE lane[m].command # u
        BY <1>2, <2>1 DEF CommandsInv, Unsent
    <2> QED BY <1>5, <2>1 DEF CommandsInv, Apart
<1> QED BY <1>6, <1>7, <1>8, <1>9, <1>10, <1>11 DEF CommandsInv

LEMMA SendRowStep ==
    ASSUME CommandsInv, NEW l \in Lanes, SendRow(l)
    PROVE  CommandsInv'
<1> DEFINE u == lane[l].command
           chat == binding[command[u].binding].chat
<1>1. /\ lane[l].at = "send" /\ sent' = [sent EXCEPT ![u] = Append(sent[u], chat)] /\ Leave(l)
      /\ UNCHANGED <<inbox, code, binding, conf, command, user>>
    BY DEF SendRow
<1>2. /\ u \in Updates /\ command[u].state # "none" /\ command[u].replied /\ sent[u] = <<>>
      /\ sent \in [Updates -> Seq(Chats)]
    BY <1>1 DEF CommandsInv, Picked, Unsent, Typed
<1>3. chat = inbox[u] /\ chat \in Chats
    <2>1. command[u].binding \in 0 .. MaxUpdates
        BY <1>2 DEF CommandsInv, Typed, Command
    <2> QED BY <1>2, <2>1 DEF CommandsInv, Asked, Bound, NoCommand
<1>4. /\ sent' \in [Updates -> Seq(Chats)] /\ sent'[u] = <<inbox[u]>>
      /\ \A v \in Updates : v # u => sent'[v] = sent[v]
    BY <1>1, <1>2, <1>3
<1>5. \A m \in Lanes : m # l /\ lane[m].at = "send" => lane[m].command # u
    BY <1>1 DEF CommandsInv, Apart
<1> HIDE DEF u, chat
<1>6. Typed'
    BY <1>1, <1>4, LeaveStep DEF CommandsInv, Typed
<1>7. \A v \in Updates : Sent(v)'
    BY <1>1, <1>2, <1>4 DEF CommandsInv, Sent
<1>8. \A m \in Lanes : Picked(m)' /\ Unsent(m)'
    BY <1>1, <1>4, <1>5, LeaveStep DEF CommandsInv, Picked, Unsent
<1> QED BY <1>1, <1>6, <1>7, <1>8, LeaveStep
        DEF CommandsInv, WithinQuota, Outstanding, OwnerOf, Unmade, Bound, Asked, Issued, Confirmed

-----------------------------------------------------------------------------
LEMMA CommandsInductive == CommandsInv /\ [Next]_vars => CommandsInv'
<1> SUFFICES ASSUME CommandsInv, [Next]_vars PROVE CommandsInv'
    OBVIOUS
<1>1. CASE UNCHANGED vars
    BY <1>1 DEF vars, CommandsInv, Typed, WithinQuota, Outstanding, OwnerOf, Unmade, Bound, Asked,
        Issued, Confirmed, Sent, Picked, Unsent, Apart
<1>2. ASSUME NEW c \in Chats,
             Ask(c) \/ (\E k \in Codes : Bind(c, k)) \/ (\E t \in Updates : Confirm(c, t))
      PROVE  CommandsInv'
    BY <1>2, AskStep, BindStep, ConfirmStep
<1>3. ASSUME NEW l \in Lanes,
             \/ Suppress(l) \/ SettleRow(l) \/ DropRow(l) \/ SendRow(l)
             \/ \E u \in Updates : PickRow(l, u)
      PROVE  CommandsInv'
    BY <1>3, SuppressStep, SettleRowStep, DropRowStep, SendRowStep, PickRowStep
<1> QED BY <1>1, <1>2, <1>3, AroundStep, IgnoreStep DEF Next

(* What any step does to actions: a new one takes an open token.            *)
LEMMA ActionStep ==
    ASSUME CommandsInv, [Next]_vars, NEW u \in Updates, command'[u].kind = "action"
    PROVE  \/ command[u].kind = "action" /\ command'[u].conf = command[u].conf
           \/ u = Now /\ conf[command'[u].conf].state = "open"
<1>1. CASE UNCHANGED command
    BY <1>1
<1>2. ASSUME NEW v \in Updates, Execute(v) PROVE command'[u].kind = command[u].kind
                                                /\ command'[u].conf = command[u].conf
    BY <1>2 DEF CommandsInv, Typed, Command, Execute
<1>3. ASSUME NEW v \in Updates, Mark(v) PROVE command'[u].kind = command[u].kind
                                             /\ command'[u].conf = command[u].conf
    BY <1>3 DEF CommandsInv, Typed, Command, Mark
<1>4. ASSUME NEW b, NEW kind, NEW token, Queue(b, kind, token)
      PROVE  \/ command'[u] = command[u]
             \/ u = Now /\ command'[u].kind = kind /\ command'[u].conf = token
    BY <1>4 DEF CommandsInv, Typed, Queue
<1>5. ASSUME NEW c \in Chats, Ask(c) PROVE command'[u] = command[u]
    BY <1>4, <1>5 DEF Ask
<1>6. ASSUME NEW c \in Chats, NEW t \in Updates, Confirm(c, t)
      PROVE  \/ command'[u] = command[u]
             \/ u = Now /\ conf[command'[u].conf].state = "open"
    <2>1. conf[t].state = "open"
        BY <1>6 DEF Confirm, Consumes
    <2>2. UNCHANGED command \/ \E b \in DOMAIN binding : Queue(b, "action", t)
        BY <1>6 DEF Confirm
    <2> QED BY <1>4, <2>1, <2>2
<1>7. ASSUME NEW l \in Lanes, Suppress(l) \/ SettleRow(l)
      PROVE  \E v \in Updates : Mark(v)
    BY <1>7 DEF Suppress, SettleRow, CommandsInv, Picked
<1>8. \/ UNCHANGED command
      \/ \E v \in Updates : Execute(v)
      \/ \E c \in Chats : Ask(c) \/ \E t \in Updates : Confirm(c, t)
      \/ \E l \in Lanes : Suppress(l) \/ SettleRow(l)
    BY DEF Next, vars, ChangeUser, CreateCode, RevokeBinding, Lapse, Ignore, Bind, PickRow,
        DropRow, SendRow
<1> QED BY <1>1, <1>2, <1>3, <1>5, <1>6, <1>7, <1>8

LEMMA CommandsInvariant == Spec => []CommandsInv
BY CommandsInitially, CommandsInductive, PTL DEF Spec

(* Every reachable state is well typed, and no owner ever has more open     *)
(* confirmations than TELEGRAM_CONFIRMATION_MAX_OUTSTANDING.                *)
THEOREM CommandsTypeCorrect == Spec => []CommandsTypeOK
<1>1. CommandsInv => CommandsTypeOK
    BY DEF CommandsInv, Typed, WithinQuota, CommandsTypeOK, Binding, Token, Command, User, Lane
<1> QED BY <1>1, CommandsInvariant, PTL

(* A confirmation queues at most one action, however often it is sent.      *)
THEOREM ActsOnce == Spec => []OneActionPerConfirmation
<1>1. Init => OneActionPerConfirmation
    BY DEF Init, OneActionPerConfirmation, NoCommand
<1>2. CommandsInv /\ OneActionPerConfirmation /\ [Next]_vars => OneActionPerConfirmation'
    <2> SUFFICES ASSUME CommandsInv, OneActionPerConfirmation, [Next]_vars,
                        NEW u \in Updates, NEW v \in Updates,
                        command'[u].kind = "action", command'[v].kind = "action",
                        command'[u].conf = command'[v].conf
                 PROVE  u = v
        BY DEF OneActionPerConfirmation
    <2>1. ASSUME NEW w \in Updates, command[w].kind = "action"
          PROVE  conf[command[w].conf].state # "open"
        BY <2>1 DEF CommandsInv, Confirmed
    <2> QED BY <2>1, ActionStep DEF OneActionPerConfirmation
<1> QED BY <1>1, <1>2, CommandsInvariant, PTL DEF Spec

(* An action was asked for, answered and confirmed in one chat and through  *)
(* one binding, under the authorization its token was issued in.            *)
THEOREM ActsWhereAsked == Spec => []ConfirmedWhereAsked
<1>1. CommandsInv => ConfirmedWhereAsked
    <2> SUFFICES ASSUME CommandsInv, NEW u \in Updates, command[u].kind = "action",
                        NEW t, t = command[u].conf
                 PROVE  /\ command[t].kind = "control" /\ command[t].state = "applied"
                        /\ command[t].replied
                        /\ inbox[t] = inbox[u]
                        /\ command[t].binding = command[u].binding
                        /\ conf[t].auth = command[u].auth
        BY DEF ConfirmedWhereAsked
    <2>1. /\ t \in Updates /\ conf[t].state = "used"
          /\ conf[t].binding = command[u].binding /\ conf[t].auth = command[u].auth
        BY DEF CommandsInv, Confirmed
    <2>2. /\ command[t].kind = "control" /\ command[t].state = "applied"
          /\ command[t].replied /\ conf[t].binding = command[t].binding
        BY <2>1 DEF CommandsInv, Issued
    <2>3. inbox[t] = inbox[u]
        <3>1. command[t] # NoCommand /\ command[u] # NoCommand
            BY <2>2 DEF NoCommand
        <3>2. /\ binding[command[t].binding].chat = inbox[t]
              /\ binding[command[u].binding].chat = inbox[u]
            BY <2>1, <3>1 DEF CommandsInv, Asked
        <3> QED BY <2>1, <2>2, <3>2
    <2> QED BY <2>1, <2>2, <2>3
<1> QED BY <1>1, CommandsInvariant, PTL

(* Telegram gets at most one answer to a command, in the chat that asked.   *)
THEOREM AnswersOnce == Spec => []AnsweredOnceWhereAsked
<1>1. CommandsInv => AnsweredOnceWhereAsked
    BY DEF CommandsInv, Sent, AnsweredOnceWhereAsked
<1> QED BY <1>1, CommandsInvariant, PTL
=============================================================================
