------------------------ MODULE ExecutorQueue_proofs ------------------------
(***************************************************************************)
(* Proofs about the executor-command queue for any number of commands,      *)
(* owners, keys, workers and attempts.  First come lemmas about the         *)
(* statements on table executor_commands, which the bridge's proofs use     *)
(* too.  The inductive invariant then adds to the checked ones what a claim *)
(* statement relies on between its snapshot and its UPDATE, and how a fence *)
(* relates to the generation in the table.                                  *)
(***************************************************************************)
EXTENDS ExecutorQueue, FiniteSetTheorems, TLAPS

(* Every statement but a claim and an acknowledgement is Calm: it changes a *)
(* row in one of four ways, and only recovery, which gives up rows out of   *)
(* attempts, is not Quiet as well.                                          *)
Born(d)    == row[d].status = "none" /\ row'[d].status = "queued" /\ ~row'[d].leased
Dropped(d) == row[d].status \in Terminal /\ row'[d] = Remembered(row[d])
Lapsed(d)  == row[d].leased /\ row'[d] = [row[d] EXCEPT !.leased = FALSE]
GaveUp(d)  == Exhausted(d) /\ row'[d] = [row[d] EXCEPT !.status = "rejected",
                                           !.code = "exhausted", !.ended = endings + 1]

Quiet(d) == row'[d] = row[d] \/ Born(d) \/ Dropped(d) \/ Lapsed(d)

Calm(d) == Quiet(d) \/ GaveUp(d)

(* Only an applying row has a lease.                                        *)
LeasedApplies == \A c \in Commands : row[c].leased => row[c].status = "applying"

-----------------------------------------------------------------------------
(* The row of a command not yet inserted.                                   *)
LEMMA NoRowType == NoAuth \in Authorization /\ NoRow \in Row
<1>1. NoAuth \in Authorization
  BY DEF NoAuth, Authorization
<1>2. QED BY <1>1, RowsAssumption DEF NoRow, Row, Stored, Active, Terminal, Codes

(* What retention keeps of a row.                                           *)
LEMMA RememberedType ==
  ASSUME NEW r \in Row
  PROVE  /\ Remembered(r) \in Row /\ Remembered(r).status = "pruned" /\ ~Remembered(r).leased
         /\ Remembered(r).owner = r.owner /\ Remembered(r).key = r.key
         /\ Remembered(r).hash = r.hash /\ Remembered(r).code = r.code
  BY NoRowType, RowsAssumption DEF Remembered, NoRow, Row

(* The row of a command as enqueue inserts it.                              *)
LEMMA QueuedRowType ==
  ASSUME NEW o \in Owners, NEW k \in Keys, NEW h \in Hashes, NEW a \in Authorization, NEW n \in Nat
  PROVE  /\ QueuedRow(o, k, h, a, n) \in Row
         /\ QueuedRow(o, k, h, a, n).status = "queued"
         /\ ~QueuedRow(o, k, h, a, n).leased
         /\ QueuedRow(o, k, h, a, n).owner = o /\ QueuedRow(o, k, h, a, n).key = k
         /\ QueuedRow(o, k, h, a, n).hash = h /\ QueuedRow(o, k, h, a, n).auth = a
         /\ QueuedRow(o, k, h, a, n).attempt = 0
         /\ QueuedRow(o, k, h, a, n).code = None
<1>1. "queued" \in Stored
  BY DEF Stored, Active
<1>2. QED BY <1>1, NoRowType, RowsAssumption DEF QueuedRow, NoRow, Row

(* A decided row is a row.                                                  *)
LEMMA DecidedRowType ==
  ASSUME NEW r \in Row, NEW n \in Nat, NEW x \in Codes
  PROVE  /\ [r EXCEPT !.status = "rejected", !.code = x, !.ended = n] \in Row
         /\ [r EXCEPT !.status = "rejected", !.code = x, !.leased = FALSE, !.ended = n] \in Row
         /\ \A p \in Receipts :
               [r EXCEPT !.status = "applied", !.receipt = p, !.leased = FALSE, !.ended = n] \in Row
<1>1. {"rejected", "applied"} \subseteq Stored
  BY DEF Stored, Terminal
<1>2. QED BY <1>1 DEF Row

(* Pruning keeps a row or remembers a terminal one.                         *)
LEMMA AfterPruneType ==
  ASSUME RowsTypeOK, NEW o, NEW t
  PROVE  /\ AfterPrune(o, t) \in [Commands -> Row]
         /\ \A c \in Commands :
               \/ AfterPrune(o, t)[c] = row[c]
               \/ row[c].status \in Terminal /\ AfterPrune(o, t)[c] = Remembered(row[c])
  BY RememberedType DEF AfterPrune, PruneVictims, RowsOf, RowsTypeOK

(* Enqueue inserts at most one row, prunes, and touches nothing else.       *)
LEMMA EnqueueQuiet ==
  ASSUME RowsTypeOK, NEW o \in Owners, NEW k \in Keys, NEW h \in Hashes, NEW a \in Authorization,
         NEW t, Enqueue(o, k, h, a, t)
  PROVE  /\ RowsTypeOK'
         /\ \A d \in Commands : Quiet(d)
         /\ \A d \in Commands : row[d].status = "none" /\ row'[d].status # "none" =>
               row'[d] = QueuedRow(o, k, h, a, arrivals + 1)
<1> DEFINE kept == AfterPrune(o, t)
<1>1. kept \in [Commands -> Row]
  BY AfterPruneType
<1>2. \A c \in Commands : \/ kept[c] = row[c]
                          \/ row[c].status \in Terminal /\ kept[c] = Remembered(row[c])
  BY AfterPruneType
<1> HIDE DEF kept
<1>5. CASE Insert(o, k, h, a, t)
  <2> DEFINE q == QueuedRow(o, k, h, a, arrivals + 1)
  <2>1. PICK c \in Commands : row[c].status = "none" /\ row' = [kept EXCEPT ![c] = q]
    BY <1>5 DEF Insert, kept
  <2>2. q \in Row /\ q.status = "queued" /\ ~q.leased
    BY QueuedRowType DEF RowsTypeOK
  <2> HIDE DEF q
  <2>3. RowsTypeOK'
    <3>1. row' \in [Commands -> Row]
      BY <1>1, <2>1, <2>2
    <3>2. arrivals' \in Nat /\ endings' \in Nat
      BY <1>5 DEF Insert, RowsTypeOK
    <3>3. QED BY <3>1, <3>2 DEF RowsTypeOK
  <2>4. ASSUME NEW d \in Commands PROVE Quiet(d)
    <3>1. CASE d = c
      BY <1>1, <2>1, <2>2, <3>1 DEF Quiet, Born
    <3>2. CASE d # c
      BY <1>1, <1>2, <2>1, <3>2 DEF Quiet, Dropped
    <3>3. QED BY <3>1, <3>2
  <2>5. \A d \in Commands : row[d].status = "none" => row'[d] = row[d] \/ row'[d] = q
    BY <1>1, <1>2, <2>1 DEF Terminal
  <2>6. QED BY <2>3, <2>4, <2>5 DEF q
<1>6. CASE Replay(o, k, h, t)
  <2>1. row' = kept /\ UNCHANGED <<arrivals, endings>>
    BY <1>6 DEF Replay, kept
  <2>2. RowsTypeOK' /\ \A d \in Commands : Quiet(d)
    BY <1>1, <1>2, <2>1 DEF RowsTypeOK, Quiet, Dropped
  <2>3. \A d \in Commands : row[d].status = "none" => row'[d] = row[d]
    BY <1>2, <2>1 DEF Terminal
  <2>4. QED BY <2>2, <2>3
<1>7. QED BY <1>5, <1>6 DEF Enqueue

(* Retention on its own is quiet.                                           *)
LEMMA PruneQuiet ==
  ASSUME RowsTypeOK, NEW o \in Owners, NEW t, Prune(o, t)
  PROVE  RowsTypeOK' /\ \A d \in Commands : Quiet(d)
  BY AfterPruneType DEF Prune, RowsTypeOK, Quiet, Dropped

(* A lease that runs out changes nothing else.                              *)
LEMMA ExpireQuiet ==
  ASSUME RowsTypeOK, NEW c \in Commands, ExpireLease(c)
  PROVE  RowsTypeOK' /\ \A d \in Commands : Quiet(d)
<1>1. [row[c] EXCEPT !.leased = FALSE] \in Row
  BY DEF RowsTypeOK, Row
<1>2. row' = [row EXCEPT ![c] = [row[c] EXCEPT !.leased = FALSE]] /\ row[c].leased
  BY DEF ExpireLease
<1>3. RowsTypeOK'
  BY <1>1, <1>2 DEF RowsTypeOK, ExpireLease
<1>4. \A d \in Commands : Quiet(d)
  BY <1>2 DEF RowsTypeOK, Quiet, Lapsed
<1>5. QED BY <1>3, <1>4

(* Recovery rejects exhausted rows and touches no other.                    *)
LEMMA RecoverCalm ==
  ASSUME RowsTypeOK, RecoverExpiredLeases
  PROVE  RowsTypeOK' /\ \A d \in Commands : Calm(d)
<1>1. CASE UNCHANGED <<row, arrivals, endings>>
  BY <1>1 DEF RowsTypeOK, Calm, Quiet
<1>2. ASSUME NEW S \in SUBSET {c \in Commands : Exhausted(c)}, RecoverExhausted(S)
      PROVE  RowsTypeOK' /\ \A d \in Commands : Calm(d)
  <2> DEFINE out(c) == [row[c] EXCEPT !.status = "rejected", !.code = "exhausted",
                                      !.ended = endings + 1]
  <2>0. endings + 1 \in Nat /\ "exhausted" \in Codes
    BY DEF RowsTypeOK, Codes
  <2>1. \A c \in Commands : out(c) \in Row
    BY <2>0, DecidedRowType DEF RowsTypeOK
  <2>2. row' = [c \in Commands |-> IF c \in S THEN out(c) ELSE row[c]]
    BY <1>2 DEF RecoverExhausted
  <2>3. \A d \in Commands : Calm(d)
    BY <2>2 DEF Calm, Quiet, GaveUp
  <2> HIDE DEF out
  <2>4. row' \in [Commands -> Row]
    BY <2>1, <2>2 DEF RowsTypeOK
  <2>5. arrivals' \in Nat /\ endings' \in Nat
    BY <1>2, <2>0 DEF RowsTypeOK, RecoverExhausted
  <2>6. QED BY <2>3, <2>4, <2>5 DEF RowsTypeOK
<1>3. QED BY <1>1, <1>2 DEF RecoverExpiredLeases

(* An acknowledgement decides exactly the row whose fence it presents.      *)
LEMMA DecideOnly ==
  ASSUME RowsTypeOK, NEW c \in Commands, NEW g, NEW r \in Receipts \cup {None}, Decide(c, g, r)
  PROVE  /\ RowsTypeOK'
         /\ \A d \in Commands \ {c} : row'[d] = row[d]
         /\ FenceHolds(c, g)
         /\ ~row'[c].leased /\ row'[c].attempt = row[c].attempt
         /\ row'[c].owner = row[c].owner /\ row'[c].key = row[c].key
         /\ row'[c].hash = row[c].hash
         /\ IF r = None THEN row'[c].status = "rejected" /\ row'[c].code = "executor"
                        ELSE /\ row'[c].status = "applied" /\ row'[c].receipt = r
                             /\ row'[c].code = row[c].code
<1> DEFINE out == IF r = None
                  THEN [row[c] EXCEPT !.status = "rejected", !.code = "executor",
                                      !.leased = FALSE, !.ended = endings + 1]
                  ELSE [row[c] EXCEPT !.status = "applied", !.receipt = r,
                                      !.leased = FALSE, !.ended = endings + 1]
<1>1. row' = [row EXCEPT ![c] = out]
  BY DEF Decide, AckApplied, AckRejected
<1>2. endings + 1 \in Nat /\ "executor" \in Codes
  BY DEF RowsTypeOK, Codes
<1>3. out \in Row
  BY <1>2, DecidedRowType DEF RowsTypeOK
<1>4. /\ ~out.leased /\ out.attempt = row[c].attempt /\ out.owner = row[c].owner
      /\ out.key = row[c].key /\ out.hash = row[c].hash
      /\ IF r = None THEN out.status = "rejected" /\ out.code = "executor"
                     ELSE out.status = "applied" /\ out.receipt = r /\ out.code = row[c].code
  BY DEF RowsTypeOK, Row
<1> HIDE DEF out
<1>5. RowsTypeOK'
  BY <1>1, <1>3 DEF RowsTypeOK, Decide, AckApplied, AckRejected
<1>6. FenceHolds(c, g)
  BY DEF Decide, AckApplied, AckRejected
<1>7. QED BY <1>1, <1>4, <1>5, <1>6 DEF RowsTypeOK

(* A claim changes one row, and gives it the next generation.               *)
LEMMA GrantedRow ==
  ASSUME RowsTypeOK, NEW c \in Commands, row[c].attempt < MaxAttempts, row' = Granted(c)
  PROVE  /\ row' \in [Commands -> Row]
         /\ \A d \in Commands \ {c} : row'[d] = row[d]
         /\ row'[c].status = "applying" /\ row'[c].owner = row[c].owner
         /\ row'[c].key = row[c].key /\ row'[c].hash = row[c].hash
         /\ row'[c].auth = row[c].auth /\ row'[c].code = row[c].code
         /\ row'[c].attempt = row[c].attempt + 1
<1> DEFINE out == [row[c] EXCEPT !.status = "applying", !.attempt = row[c].attempt + 1,
                                 !.leased = TRUE]
<1>1. row' = [row EXCEPT ![c] = out]
  BY DEF Granted
<1>2. row[c].attempt + 1 \in 0 .. MaxAttempts
  BY RowsAssumption DEF RowsTypeOK, Row
<1>3. "applying" \in Stored
  BY DEF Stored, Active
<1>4. out \in Row
  BY <1>2, <1>3 DEF RowsTypeOK, Row
<1>5. /\ out.key = row[c].key /\ out.hash = row[c].hash
      /\ out.auth = row[c].auth /\ out.code = row[c].code
      /\ out.status = "applying" /\ out.owner = row[c].owner /\ out.attempt = row[c].attempt + 1
  BY DEF RowsTypeOK, Row
<1> HIDE DEF out
<1>6. QED BY <1>1, <1>4, <1>5 DEF RowsTypeOK

(* What a calm statement leaves alone.                                      *)
LEMMA CalmFacts ==
  ASSUME RowsTypeOK, LeasedApplies, NEW d \in Commands, Calm(d)
  PROVE  /\ row'[d].status = "applying" =>
               row[d].status = "applying" /\ row'[d].owner = row[d].owner
         /\ row'[d].leased => /\ row[d].leased
                              /\ row'[d].status = row[d].status
                              /\ row'[d].attempt = row[d].attempt
         /\ row'[d].status = "applied" => row'[d] = row[d]
         /\ row[d].status = "queued" => row'[d] = row[d]
         /\ Expired(d) /\ row[d].attempt < MaxAttempts => row'[d] = row[d]
         /\ row[d].status # "none" => row'[d].status # "none"
         /\ row[d].status # "none" /\ row'[d].status # "pruned" =>
               row[d].status # "pruned" /\ row'[d].attempt = row[d].attempt
         /\ row[d].status \in Terminal =>
               row'[d] = row[d] \/ row'[d] = Remembered(row[d])
         /\ row[d].status = "applying" /\ row'[d].status \in Terminal =>
               /\ row'[d].code = "exhausted"
               /\ ~row[d].leased /\ row[d].attempt = MaxAttempts
<1>0. row[d] \in Row
  BY DEF RowsTypeOK
<1>1. CASE row'[d] = row[d]
  <2>1. row[d].status = "applying" => row'[d].status \notin Terminal
    BY <1>1 DEF Terminal
  <2>2. QED BY <1>1, <2>1
<1>2. CASE Born(d)
  BY <1>2 DEF Born, Expired, Terminal
<1>3. CASE Dropped(d)
  BY <1>0, <1>3, RememberedType DEF Dropped, Expired, Terminal
<1>4. CASE Lapsed(d)
  <2>1. row[d].leased /\ row[d].status = "applying"
    BY <1>4 DEF Lapsed, LeasedApplies
  <2>2. /\ row'[d].status = "applying" /\ row'[d].owner = row[d].owner
        /\ row'[d].attempt = row[d].attempt /\ ~row'[d].leased
    BY <1>0, <1>4, <2>1 DEF Lapsed, Row
  <2>3. QED BY <2>1, <2>2 DEF Expired, Terminal
<1>5. CASE GaveUp(d)
  <2>1. /\ row'[d].status = "rejected" /\ row'[d].code = "exhausted"
        /\ row'[d].attempt = row[d].attempt /\ row'[d].leased = row[d].leased
    BY <1>0, <1>5 DEF GaveUp, Row
  <2>2. row[d].status = "applying" /\ ~row[d].leased /\ row[d].attempt >= MaxAttempts
    BY <1>5 DEF GaveUp, Exhausted, Expired
  <2>3. row[d].attempt \in 0 .. MaxAttempts /\ MaxAttempts \in Nat
    BY <1>0, RowsAssumption DEF Row
  <2>4. row[d].attempt = MaxAttempts /\ ~(row[d].attempt < MaxAttempts)
    BY <2>2, <2>3
  <2>5. QED BY <2>1, <2>2, <2>4 DEF Terminal
<1>6. QED BY <1>1, <1>2, <1>3, <1>4, <1>5 DEF Calm, Quiet

-----------------------------------------------------------------------------
(* The inductive invariant.                                                 *)
Claiming(w) == worker[w].pc = "claiming"

(* A claim statement's candidate stays claimable until its UPDATE.          *)
ClaimsStand ==
    \A w \in Workers :
        Claiming(w) =>
            /\ worker[w].cmd \in Commands
            /\ row[worker[w].cmd].attempt < MaxAttempts
            /\ row[worker[w].cmd].status = "queued" \/ Expired(worker[w].cmd)

(* FOR UPDATE SKIP LOCKED: two claim statements never share a candidate.    *)
ClaimsApart ==
    \A v, w \in Workers :
        Claiming(v) /\ Claiming(w) /\ v # w => worker[v].cmd # worker[w].cmd

(* A fence is never ahead of the table.                                     *)
FencesBehind ==
    \A w \in Workers :
        Fenced(w) =>
            /\ worker[w].cmd \in Commands
            /\ row[worker[w].cmd].status # "none"
            /\ row[worker[w].cmd].status # "pruned" =>
                   worker[w].gen <= row[worker[w].cmd].attempt

(* Only a worker that has not answered yet can hold the live fence.         *)
SpentFences ==
    \A w \in Workers :
        worker[w].pc \in {"told", "classify"} => ~FenceHolds(worker[w].cmd, worker[w].gen)

(* An applied row names its receipt, so a rejection never matches it.       *)
AppliedNamed == \A c \in Commands : row[c].status = "applied" => row[c].receipt # None

QueueIInv ==
    /\ QueueTypeOK
    /\ LeasedApplies
    /\ AppliedNamed
    /\ ClaimsStand
    /\ ClaimsApart
    /\ FencesBehind
    /\ SpentFences
    /\ OneApplyingPerOwner
    /\ FencesDistinct
    /\ RepliesTruthful

-----------------------------------------------------------------------------
(* Statements that grant no claim and take no acknowledgement preserve the  *)
(* invariant whatever the workers hold.                                     *)
LEMMA QueueCalmStep ==
  ASSUME QueueIInv, RowsTypeOK', \A d \in Commands : Calm(d), UNCHANGED worker
  PROVE  QueueIInv'
<1> USE DEF QueueIInv
<1>0. /\ RowsTypeOK /\ LeasedApplies
  BY DEF QueueTypeOK
<1>1. QueueTypeOK'
  BY DEF QueueTypeOK
<1>2. LeasedApplies' /\ AppliedNamed'
  BY <1>0, CalmFacts DEF LeasedApplies, AppliedNamed
<1>3. ClaimsStand'
  <2> SUFFICES ASSUME NEW w \in Workers, Claiming(w)
               PROVE  row'[worker[w].cmd] = row[worker[w].cmd]
    BY DEF ClaimsStand, Claiming, Expired
  <2> QED BY <1>0, CalmFacts DEF ClaimsStand
<1>4. ClaimsApart'
  BY DEF ClaimsApart, Claiming
<1>5. FencesBehind'
  BY <1>0, CalmFacts DEF FencesBehind, Fenced
<1>6. SpentFences'
  <2> SUFFICES ASSUME NEW w \in Workers, worker[w].pc \in {"told", "classify"},
                      FenceHolds(worker[w].cmd, worker[w].gen)'
               PROVE  FALSE
    BY DEF SpentFences
  <2>1. worker[w].cmd \in Commands
    BY DEF FencesBehind, Fenced
  <2>2. FenceHolds(worker[w].cmd, worker[w].gen)
    BY <1>0, <2>1, CalmFacts DEF FenceHolds
  <2>3. QED BY <2>2 DEF SpentFences
<1>7. OneApplyingPerOwner'
  BY <1>0, CalmFacts DEF OneApplyingPerOwner
<1>8. FencesDistinct'
  BY DEF FencesDistinct, Fenced
<1>9. RepliesTruthful'
  <2> SUFFICES ASSUME NEW w \in Workers, worker[w].pc = "told",
                      worker[w].reply \in {"acknowledged", "duplicate"},
                      row'[worker[w].cmd].status # "pruned"
               PROVE  row'[worker[w].cmd] = row[worker[w].cmd]
    BY DEF RepliesTruthful
  <2>1. worker[w].cmd \in Commands /\ row[worker[w].cmd] \in Row
    BY <1>0 DEF FencesBehind, Fenced, RowsTypeOK
  <2>2. row[worker[w].cmd].status # "none"
    BY DEF FencesBehind, Fenced
  <2>3. row[worker[w].cmd].status # "pruned"
    BY <1>0, <2>1, <2>2, CalmFacts
  <2>4. row[worker[w].cmd].status \in Terminal
    BY <2>3 DEF RepliesTruthful, Terminal
  <2>5. QED BY <1>0, <2>1, <2>4, CalmFacts, RememberedType
<1>10. QED BY <1>1, <1>2, <1>3, <1>4, <1>5, <1>6, <1>7, <1>8, <1>9

-----------------------------------------------------------------------------
(* A worker with nothing to do.                                             *)
LEMMA IdleType == Idle \in WorkerState /\ Idle.pc = "idle"
  BY RowsAssumption DEF Idle, WorkerState

(* A worker that starts over, or a claim that finds nothing, disturbs no    *)
(* one.                                                                     *)
LEMMA ResetStep ==
  ASSUME QueueIInv, NEW w \in Workers, UNCHANGED <<row, arrivals, endings>>,
         worker' = [worker EXCEPT ![w] = Idle]
  PROVE  QueueIInv'
<1> USE DEF QueueIInv
<1>1. Idle \in WorkerState /\ Idle.pc = "idle"
  BY IdleType
<1>2. QueueTypeOK'
  BY <1>1 DEF QueueTypeOK, RowsTypeOK
<1>3. \A v \in Workers : worker'[v] = worker[v] \/ worker'[v].pc = "idle"
  BY <1>1 DEF QueueTypeOK
<1>4. LeasedApplies' /\ AppliedNamed' /\ OneApplyingPerOwner'
  BY DEF LeasedApplies, AppliedNamed, OneApplyingPerOwner
<1>5. ClaimsStand' /\ ClaimsApart'
  BY <1>3 DEF ClaimsStand, ClaimsApart, Claiming, Expired
<1>6. FencesBehind' /\ FencesDistinct'
  BY <1>3 DEF FencesBehind, FencesDistinct, Fenced
<1>7. SpentFences' /\ RepliesTruthful'
  BY <1>3 DEF SpentFences, RepliesTruthful, FenceHolds
<1>8. QED BY <1>2, <1>4, <1>5, <1>6, <1>7

(* Choosing a candidate changes no row.                                     *)
LEMMA ClaimSnapshotStep ==
  ASSUME QueueIInv, NEW w \in Workers, ClaimSnapshot(w)
  PROVE  QueueIInv'
<1> USE DEF QueueIInv
<1>1. PICK c \in Commands :
         /\ FirstClaimable(c, Unlocked)
         /\ worker' = [worker EXCEPT ![w] = [Idle EXCEPT !.pc = "claiming", !.cmd = c]]
  BY DEF ClaimSnapshot
<1> DEFINE x == [Idle EXCEPT !.pc = "claiming", !.cmd = c]
<1>2. x \in WorkerState /\ x.pc = "claiming" /\ x.cmd = c
  BY IdleType DEF WorkerState
<1> HIDE DEF x
<1>3. UNCHANGED <<row, arrivals, endings>>
  BY DEF ClaimSnapshot
<1>4. QueueTypeOK'
  BY <1>1, <1>2, <1>3 DEF x, QueueTypeOK, RowsTypeOK
<1>5. worker'[w] = x /\ \A v \in Workers \ {w} : worker'[v] = worker[v]
  BY <1>1 DEF x, QueueTypeOK
<1>6. LeasedApplies' /\ AppliedNamed' /\ OneApplyingPerOwner'
  BY <1>3 DEF LeasedApplies, AppliedNamed, OneApplyingPerOwner
<1>7. ClaimsStand'
  <2>1. row[c].attempt < MaxAttempts /\ (row[c].status = "queued" \/ Expired(c))
    BY <1>1 DEF FirstClaimable, Claimable
  <2>2. QED BY <1>2, <1>3, <1>5, <2>1 DEF ClaimsStand, Claiming, Expired
<1>8. ClaimsApart'
  <2>1. \A v \in Workers : Claiming(v) => worker[v].cmd # c
    BY <1>1 DEF FirstClaimable, Unlocked, Claiming
  <2>2. QED BY <1>2, <1>5, <2>1 DEF ClaimsApart, Claiming
<1>9. FencesBehind' /\ FencesDistinct'
  BY <1>2, <1>3, <1>5 DEF FencesBehind, FencesDistinct, Fenced
<1>10. SpentFences' /\ RepliesTruthful'
  BY <1>2, <1>3, <1>5 DEF SpentFences, RepliesTruthful, FenceHolds
<1>11. QED BY <1>4, <1>6, <1>7, <1>8, <1>9, <1>10

(* The UPDATE of a claim hands out a generation no process has held.        *)
LEMMA ClaimUpdateStep ==
  ASSUME QueueIInv, NEW w \in Workers, ClaimUpdate(w)
  PROVE  QueueIInv'
<1> USE DEF QueueIInv
<1> DEFINE c == worker[w].cmd
           g == row[c].attempt + 1
<1>1. /\ worker[w].pc = "claiming" /\ IndexAdmits(c) /\ row' = Granted(c)
      /\ worker' = [worker EXCEPT ![w].pc = "holding", ![w].gen = g]
      /\ UNCHANGED <<arrivals, endings>>
  BY DEF ClaimUpdate
<1>2. /\ c \in Commands /\ row[c].attempt < MaxAttempts
      /\ row[c].status = "queued" \/ Expired(c)
  BY <1>1 DEF ClaimsStand, Claiming
<1>3. row[c] \in Row /\ worker[w] \in WorkerState /\ RowsTypeOK
  BY <1>2 DEF QueueTypeOK, RowsTypeOK
<1>4. g \in 0 .. MaxAttempts
  BY <1>2, <1>3, RowsAssumption DEF Row
<1> HIDE DEF c, g
<1>5. /\ row' \in [Commands -> Row]
      /\ \A d \in Commands \ {c} : row'[d] = row[d]
      /\ row'[c].status = "applying" /\ row'[c].owner = row[c].owner
      /\ row'[c].attempt = g
  BY <1>1, <1>2, <1>3, GrantedRow DEF g
<1>6. /\ worker'[w] \in WorkerState
      /\ worker'[w].pc = "holding" /\ worker'[w].cmd = c /\ worker'[w].gen = g
      /\ \A v \in Workers \ {w} : worker'[v] = worker[v]
  <2> DEFINE x == [worker[w] EXCEPT !.pc = "holding", !.gen = g]
  <2>1. /\ x \in WorkerState
        /\ x.pc = "holding" /\ x.cmd = c /\ x.gen = g
    BY <1>3, <1>4 DEF c, WorkerState
  <2>2. worker' = [worker EXCEPT ![w] = x]
    BY <1>1
  <2> HIDE DEF x
  <2>3. QED BY <2>1, <2>2 DEF QueueTypeOK
<1>7. QueueTypeOK'
  <2>1. worker' \in [Workers -> WorkerState]
    BY <1>1, <1>6 DEF QueueTypeOK
  <2>2. QED BY <1>1, <1>5, <2>1 DEF QueueTypeOK, RowsTypeOK
<1>8. LeasedApplies' /\ AppliedNamed'
  BY <1>5 DEF LeasedApplies, AppliedNamed
<1>9. \A v \in Workers \ {w} : Claiming(v) => worker[v].cmd # c
  BY <1>1, <1>2 DEF ClaimsApart, Claiming, c
<1>10. ClaimsStand' /\ ClaimsApart'
  BY <1>5, <1>6, <1>9 DEF ClaimsStand, ClaimsApart, Claiming, Expired
<1>11. \A v \in Workers : Fenced(v) /\ worker[v].cmd = c => worker[v].gen < g
  <2> SUFFICES ASSUME NEW v \in Workers, Fenced(v), worker[v].cmd = c
               PROVE  worker[v].gen < g
    OBVIOUS
  <2>1. worker[v].gen <= row[c].attempt
    BY <1>2 DEF FencesBehind, Expired
  <2>2. worker[v].gen \in Nat /\ row[c].attempt \in Nat
    BY <1>3, RowsAssumption DEF QueueTypeOK, WorkerState, Row
  <2>3. QED BY <2>1, <2>2 DEF g
<1>12. FencesBehind'
  <2> SUFFICES ASSUME NEW v \in Workers, Fenced(v)'
               PROVE  /\ worker'[v].cmd \in Commands
                      /\ row'[worker'[v].cmd].status # "none"
                      /\ row'[worker'[v].cmd].status # "pruned" =>
                            worker'[v].gen <= row'[worker'[v].cmd].attempt
    BY DEF FencesBehind
  <2>1. CASE v = w
    BY <1>2, <1>4, <1>5, <1>6, <2>1, RowsAssumption
  <2>2. CASE v # w
    <3>1. Fenced(v) /\ worker'[v] = worker[v]
      BY <1>6, <2>2 DEF Fenced
    <3>2. CASE worker[v].cmd = c
      <4>1. worker[v].gen < g /\ worker[v].gen \in Nat /\ g \in Nat
        BY <1>4, <1>11, <3>1, <3>2, RowsAssumption DEF QueueTypeOK, WorkerState
      <4>2. QED BY <1>2, <1>5, <3>1, <3>2, <4>1
    <3>3. CASE worker[v].cmd # c
      BY <1>5, <3>1, <3>3 DEF FencesBehind
    <3>4. QED BY <3>2, <3>3
  <2>3. QED BY <2>1, <2>2
<1>13. SpentFences'
  <2> SUFFICES ASSUME NEW v \in Workers, worker'[v].pc \in {"told", "classify"},
                      FenceHolds(worker[v].cmd, worker[v].gen)'
               PROVE  FALSE
    BY <1>6 DEF SpentFences
  <2>1. v # w /\ worker'[v] = worker[v] /\ Fenced(v)
    BY <1>6 DEF Fenced
  <2>2. CASE worker[v].cmd = c
    <3>1. worker[v].gen < g /\ worker[v].gen \in Nat /\ g \in Nat
      BY <1>4, <1>11, <2>1, <2>2, RowsAssumption DEF QueueTypeOK, WorkerState
    <3>2. QED BY <1>5, <2>1, <2>2, <3>1 DEF FenceHolds
  <2>3. CASE worker[v].cmd # c
    <3>1. worker[v].cmd \in Commands
      BY <2>1 DEF FencesBehind
    <3>2. FenceHolds(worker[v].cmd, worker[v].gen)
      BY <1>5, <2>1, <2>3, <3>1 DEF FenceHolds
    <3>3. QED BY <2>1, <3>2 DEF SpentFences
  <2>4. QED BY <2>2, <2>3
<1>14. OneApplyingPerOwner'
  <2>1. \A d \in Commands : row[d].status = "applying" /\ row[d].owner = row[c].owner => d = c
    BY <1>1 DEF IndexAdmits, RowsOf, c
  <2>2. QED BY <1>5, <2>1 DEF OneApplyingPerOwner
<1>15. FencesDistinct'
  <2>1. \A v \in Workers \ {w} : Fenced(v)' => Fenced(v) /\ worker'[v] = worker[v]
    BY <1>6 DEF Fenced
  <2>2. \A v \in Workers \ {w} : Fenced(v) /\ worker[v].cmd = c => worker[v].gen # g
    BY <1>4, <1>11, RowsAssumption DEF QueueTypeOK, WorkerState
  <2>3. QED BY <1>6, <2>1, <2>2 DEF FencesDistinct
<1>16. RepliesTruthful'
  <2> SUFFICES ASSUME NEW v \in Workers, worker'[v].pc = "told",
                      worker'[v].reply \in {"acknowledged", "duplicate"}
               PROVE  worker'[v] = worker[v] /\ row'[worker[v].cmd] = row[worker[v].cmd]
    BY DEF RepliesTruthful
  <2>1. v # w /\ worker'[v] = worker[v]
    BY <1>6
  <2>2. worker[v].cmd \in Commands /\ row[worker[v].cmd].status \notin {"queued", "applying"}
    BY <2>1 DEF RepliesTruthful, FencesBehind, Fenced
  <2>3. worker[v].cmd # c
    BY <1>2, <2>2 DEF Expired
  <2>4. QED BY <1>5, <2>1, <2>2, <2>3
<1>17. QED
  BY <1>7, <1>8, <1>10, <1>12, <1>13, <1>14, <1>15, <1>16

-----------------------------------------------------------------------------
(* Updating the state of one worker.                                        *)
LEMMA WorkerUpdate ==
  ASSUME QueueTypeOK, NEW w \in Workers, NEW x \in WorkerState,
         worker' = [worker EXCEPT ![w] = x]
  PROVE  /\ worker' \in [Workers -> WorkerState]
         /\ worker'[w] = x
         /\ \A v \in Workers \ {w} : worker'[v] = worker[v]
  BY DEF QueueTypeOK

(* What an acknowledgement or its classification makes of a worker's state. *)
Answering(u, p, r, y) == [u EXCEPT !.pc = p, !.receipt = r, !.reply = y]

(* An acknowledgement decides its row, or learns that its fence is gone.    *)
LEMMA AcknowledgeClaimStep ==
  ASSUME QueueIInv, NEW w \in Workers, NEW r \in Receipts \cup {None}, AcknowledgeClaim(w, r)
  PROVE  QueueIInv'
<1> USE DEF QueueIInv
<1>0. /\ Fenced(w) /\ worker[w].cmd \in Commands /\ RowsTypeOK
      /\ worker[w] \in WorkerState
  BY DEF AcknowledgeClaim, Fenced, FencesBehind, QueueTypeOK
<1>a. PICK c \in Commands : c = worker[w].cmd
  BY <1>0
<1>b. PICK g \in 0 .. MaxAttempts : g = worker[w].gen
  BY <1>0 DEF WorkerState
<1>1. Fenced(w) /\ row[c].status # "none" /\ RowsTypeOK
  BY <1>0, <1>a DEF FencesBehind
<1>2. CASE /\ ~FenceHolds(c, g)
           /\ worker' = [worker EXCEPT ![w].pc = "classify", ![w].receipt = r,
                                       ![w].reply = None]
           /\ UNCHANGED <<row, arrivals, endings>>
  <2>0. worker' = [worker EXCEPT ![w] = Answering(worker[w], "classify", r, None)]
    BY <1>2 DEF Answering
  <2>1. /\ worker' \in [Workers -> WorkerState]
        /\ \A v \in Workers \ {w} : worker'[v] = worker[v]
        /\ worker'[w].pc = "classify" /\ worker'[w].cmd = c /\ worker'[w].gen = g
    <3> DEFINE x == Answering(worker[w], "classify", r, None)
    <3>2. /\ x \in WorkerState /\ x.pc = "classify" /\ x.receipt = r /\ x.reply = None
           /\ x.cmd = worker[w].cmd /\ x.gen = worker[w].gen
      BY <1>0 DEF Answering, WorkerState
    <3>3. worker' = [worker EXCEPT ![w] = x]
      BY <2>0
    <3> HIDE DEF x
    <3>4. /\ worker' \in [Workers -> WorkerState]
           /\ worker'[w] = x
           /\ \A v \in Workers \ {w} : worker'[v] = worker[v]
      BY <3>2, <3>3, WorkerUpdate
    <3>5. QED BY <3>2, <3>4, <1>a, <1>b
  <2>2. QueueTypeOK' /\ LeasedApplies' /\ AppliedNamed' /\ OneApplyingPerOwner'
    BY <1>1, <1>2, <2>1 DEF QueueTypeOK, RowsTypeOK, LeasedApplies, AppliedNamed, OneApplyingPerOwner
  <2>3. ClaimsStand' /\ ClaimsApart'
    BY <1>2, <2>1 DEF ClaimsStand, ClaimsApart, Claiming, Expired
  <2>4. FencesBehind' /\ FencesDistinct'
    BY <1>1, <1>2, <1>a, <1>b, <2>1 DEF FencesBehind, FencesDistinct, Fenced
  <2>5. SpentFences' /\ RepliesTruthful'
    BY <1>2, <2>1 DEF SpentFences, RepliesTruthful, FenceHolds
  <2>6. QED BY <2>2, <2>3, <2>4, <2>5
<1>3. CASE /\ Decide(c, g, r)
           /\ worker' = [worker EXCEPT ![w].pc = "told", ![w].receipt = r,
                                       ![w].reply = "acknowledged"]
  <2>0. worker' = [worker EXCEPT ![w] = Answering(worker[w], "told", r, "acknowledged")]
    BY <1>3 DEF Answering
  <2>1. /\ RowsTypeOK'
        /\ \A d \in Commands \ {c} : row'[d] = row[d]
        /\ FenceHolds(c, g)
        /\ ~row'[c].leased /\ row'[c].attempt = row[c].attempt
        /\ row'[c].owner = row[c].owner
        /\ IF r = None THEN row'[c].status = "rejected" /\ row'[c].code = "executor"
                       ELSE row'[c].status = "applied" /\ row'[c].receipt = r
    BY <1>1, <1>3, DecideOnly
  <2>2. /\ worker' \in [Workers -> WorkerState]
        /\ \A v \in Workers \ {w} : worker'[v] = worker[v]
        /\ worker'[w].pc = "told" /\ worker'[w].cmd = c /\ worker'[w].gen = g
        /\ worker'[w].receipt = r
    <3>1. "acknowledged" \in Replies
      BY DEF Replies
    <3> DEFINE x == Answering(worker[w], "told", r, "acknowledged")
    <3>2. /\ x \in WorkerState /\ x.pc = "told" /\ x.receipt = r /\ x.reply = "acknowledged"
           /\ x.cmd = worker[w].cmd /\ x.gen = worker[w].gen
      BY <1>0, <3>1 DEF Answering, WorkerState
    <3>3. worker' = [worker EXCEPT ![w] = x]
      BY <2>0
    <3> HIDE DEF x
    <3>4. /\ worker' \in [Workers -> WorkerState]
           /\ worker'[w] = x
           /\ \A v \in Workers \ {w} : worker'[v] = worker[v]
      BY <3>2, <3>3, WorkerUpdate
    <3>5. QED BY <3>2, <3>4, <1>a, <1>b
  <2>3. row'[c].status \in Terminal
    BY <2>1 DEF Terminal
  <2>4. row[c].status = "applying" /\ row[c].leased
    BY <2>1 DEF FenceHolds
  <2>5. QueueTypeOK' /\ LeasedApplies' /\ AppliedNamed'
    BY <2>1, <2>2 DEF QueueTypeOK, LeasedApplies, AppliedNamed
  <2>6. OneApplyingPerOwner'
    BY <2>1, <2>3 DEF OneApplyingPerOwner, Terminal
  <2>7. ClaimsStand' /\ ClaimsApart'
    <3>1. \A v \in Workers : Claiming(v)' => Claiming(v) /\ worker'[v] = worker[v]
      BY <2>2 DEF Claiming
    <3>2. \A v \in Workers : Claiming(v) => worker[v].cmd \in Commands \ {c}
      BY <2>4 DEF ClaimsStand, Expired
    <3>3. QED BY <2>1, <3>1, <3>2 DEF ClaimsStand, ClaimsApart, Expired
  <2>8. FencesBehind' /\ FencesDistinct'
    <3>1. \A v \in Workers : /\ Fenced(v)' => Fenced(v)
                             /\ worker'[v].cmd = worker[v].cmd /\ worker'[v].gen = worker[v].gen
      BY <1>1, <1>a, <1>b, <2>2 DEF Fenced
    <3>2. \A d \in Commands : row'[d].attempt = row[d].attempt
      BY <2>1
    <3>3. \A d \in Commands : row[d].status # "none" => row'[d].status # "none"
      BY <2>1, <2>3 DEF Terminal
    <3>4. \A d \in Commands : row'[d].status # "pruned" => row[d].status # "pruned"
      BY <2>1, <2>4
    <3>5. QED BY <3>1, <3>2, <3>3, <3>4 DEF FencesBehind, FencesDistinct
  <2>9. SpentFences'
    <3>1. \A d \in Commands : \A n : FenceHolds(d, n)' => FenceHolds(d, n)
      BY <2>1 DEF FenceHolds
    <3>2. ~FenceHolds(c, g)'
      BY <2>1 DEF FenceHolds
    <3>3. \A v \in Workers \ {w} : worker'[v].pc \in {"told", "classify"} =>
             worker[v].cmd \in Commands /\ ~FenceHolds(worker[v].cmd, worker[v].gen)
      BY <2>2 DEF SpentFences, FencesBehind, Fenced
    <3>4. QED BY <2>2, <3>1, <3>2, <3>3 DEF SpentFences, FenceHolds
  <2>10. RepliesTruthful'
    <3> SUFFICES ASSUME NEW v \in Workers, worker'[v].pc = "told",
                        worker'[v].reply \in {"acknowledged", "duplicate"}
                 PROVE  LET d == row'[worker'[v].cmd]
                        IN  \/ d.status = "pruned"
                            \/ /\ d.status = "applied" /\ d.receipt = worker'[v].receipt
                               /\ d.receipt # None
                            \/ /\ d.status = "rejected" /\ d.code = "executor"
                               /\ worker'[v].receipt = None
      BY DEF RepliesTruthful
    <3>1. CASE v = w
      BY <2>1, <2>2, <3>1
    <3>2. CASE v # w
      <4>1. worker'[v] = worker[v] /\ worker[v].cmd \in Commands
        BY <2>2, <3>2 DEF FencesBehind, Fenced
      <4>2. worker[v].cmd # c
        BY <2>4, <4>1 DEF RepliesTruthful
      <4>3. row'[worker[v].cmd] = row[worker[v].cmd]
        BY <2>1, <4>1, <4>2
      <4>4. QED BY <4>1, <4>3 DEF RepliesTruthful
    <3>3. QED BY <3>1, <3>2
  <2>11. QED BY <2>5, <2>6, <2>7, <2>8, <2>9, <2>10
<1>4. QED BY <1>2, <1>3, <1>a, <1>b DEF AcknowledgeClaim

(* A classification tells a worker what the table says now.                 *)
LEMMA ClassifyStep ==
  ASSUME QueueIInv, NEW w \in Workers, Classify(w)
  PROVE  QueueIInv'
<1> USE DEF QueueIInv
<1>0. worker[w].cmd \in Commands /\ worker[w] \in WorkerState
  BY DEF Classify, FencesBehind, Fenced, QueueTypeOK
<1>a. PICK c \in Commands : c = worker[w].cmd
  BY <1>0
<1>b. PICK r \in Receipts \cup {None} : r = worker[w].receipt
  BY <1>0 DEF WorkerState
<1> DEFINE y == Classification(c, r)
<1>1. /\ worker[w].pc = "classify" /\ UNCHANGED <<row, arrivals, endings>>
      /\ worker' = [worker EXCEPT ![w].pc = "told", ![w].reply = y]
  BY <1>a, <1>b DEF Classify
<1>2. RowsTypeOK /\ row[c].status # "none"
  BY <1>1, <1>a DEF FencesBehind, Fenced, QueueTypeOK
<1>3. y \in Replies
  BY <1>2 DEF Classification, Replies, RowsTypeOK, Row, Stored
<1>4. /\ y # "acknowledged"
      /\ y = "duplicate" => \/ row[c].status = "applied" /\ row[c].receipt = r
                            \/ row[c].status = "rejected" /\ row[c].code = "executor" /\ r = None
  BY <1>2 DEF Classification, Stored, Active, Terminal
<1> HIDE DEF y
<1>5. /\ worker' \in [Workers -> WorkerState]
      /\ \A v \in Workers \ {w} : worker'[v] = worker[v]
      /\ worker'[w].pc = "told" /\ worker'[w].receipt = r /\ worker'[w].reply = y
      /\ worker'[w].cmd = c /\ worker'[w].gen = worker[w].gen
  <2>1. worker' = [worker EXCEPT ![w] = Answering(worker[w], "told", r, y)]
    BY <1>0, <1>1, <1>b DEF Answering, WorkerState
  <2> DEFINE x == Answering(worker[w], "told", r, y)
  <2>2. /\ x \in WorkerState /\ x.pc = "told" /\ x.receipt = r /\ x.reply = y
         /\ x.cmd = worker[w].cmd /\ x.gen = worker[w].gen
    BY <1>0, <1>3, <1>b DEF Answering, WorkerState
  <2>3. worker' = [worker EXCEPT ![w] = x]
    BY <2>1
  <2> HIDE DEF x
  <2>4. /\ worker' \in [Workers -> WorkerState]
         /\ worker'[w] = x
         /\ \A v \in Workers \ {w} : worker'[v] = worker[v]
    BY <2>2, <2>3, WorkerUpdate
  <2>5. QED BY <2>2, <2>4, <1>a, <1>b
<1>6. QueueTypeOK' /\ LeasedApplies' /\ AppliedNamed' /\ OneApplyingPerOwner'
  BY <1>1, <1>2, <1>5 DEF QueueTypeOK, RowsTypeOK, LeasedApplies, AppliedNamed, OneApplyingPerOwner
<1>7. ClaimsStand' /\ ClaimsApart'
  BY <1>1, <1>5 DEF ClaimsStand, ClaimsApart, Claiming, Expired
<1>8. FencesBehind' /\ FencesDistinct'
  BY <1>1, <1>5, <1>a DEF FencesBehind, FencesDistinct, Fenced
<1>9. SpentFences'
  BY <1>1, <1>5, <1>a DEF SpentFences, FenceHolds
<1>10. RepliesTruthful'
  <2>1. row[c].status = "applied" => row[c].receipt # None
    BY DEF AppliedNamed
  <2>2. QED BY <1>1, <1>4, <1>5, <2>1 DEF RepliesTruthful
<1>11. QED BY <1>6, <1>7, <1>8, <1>9, <1>10

-----------------------------------------------------------------------------
(* The invariant holds of the empty table.                                  *)
LEMMA QueueInitInvariant == QueueInit => QueueIInv
<1> SUFFICES ASSUME QueueInit PROVE QueueIInv
  OBVIOUS
<1>1. /\ row = [c \in Commands |-> NoRow] /\ arrivals = 0 /\ endings = 0
      /\ worker = [w \in Workers |-> Idle]
  BY DEF QueueInit, RowsInit
<1>2. QueueTypeOK
  BY <1>1, NoRowType, IdleType DEF QueueTypeOK, RowsTypeOK
<1>3. \A c \in Commands : row[c].status = "none" /\ ~row[c].leased
  BY <1>1 DEF NoRow
<1>4. \A w \in Workers : worker[w].pc = "idle"
  BY <1>1, IdleType
<1>5. LeasedApplies /\ AppliedNamed /\ OneApplyingPerOwner
  BY <1>3 DEF LeasedApplies, AppliedNamed, OneApplyingPerOwner
<1>6. ClaimsStand /\ ClaimsApart /\ FencesBehind /\ FencesDistinct
  BY <1>4 DEF ClaimsStand, ClaimsApart, FencesBehind, FencesDistinct, Claiming, Fenced
<1>7. SpentFences /\ RepliesTruthful
  BY <1>4 DEF SpentFences, RepliesTruthful
<1>8. QED BY <1>2, <1>5, <1>6, <1>7 DEF QueueIInv

(* Every statement of clients, of time and of recovery is calm.             *)
LEMMA MaintenanceCalm ==
  ASSUME RowsTypeOK, Maintenance
  PROVE  RowsTypeOK' /\ (\A d \in Commands : Calm(d)) /\ UNCHANGED worker
<1>1. UNCHANGED worker
  BY DEF Maintenance
<1>2. CASE \E o \in Owners, k \in Keys, h \in Hashes, t \in 0 .. endings : Enqueue(o, k, h, NoAuth, t)
  BY <1>1, <1>2, NoRowType, EnqueueQuiet DEF Calm
<1>3. CASE \E o \in Owners, t \in 0 .. endings : Prune(o, t)
  BY <1>1, <1>3, PruneQuiet DEF Calm
<1>4. CASE \E c \in Commands : ExpireLease(c)
  BY <1>1, <1>4, ExpireQuiet DEF Calm
<1>5. CASE RecoverExpiredLeases
  BY <1>1, <1>5, RecoverCalm
<1>6. QED BY <1>2, <1>3, <1>4, <1>5 DEF Maintenance

(* Every step of the queue preserves the invariant.                         *)
LEMMA QueueStepInvariant == QueueIInv /\ [QueueNext]_queueVars => QueueIInv'
<1> SUFFICES ASSUME QueueIInv, [QueueNext]_queueVars PROVE QueueIInv'
  OBVIOUS
<1>0. RowsTypeOK
  BY DEF QueueIInv, QueueTypeOK
<1>1. CASE Maintenance
  BY <1>0, <1>1, MaintenanceCalm, QueueCalmStep
<1>2. ASSUME NEW w \in Workers, WorkerStep(w) PROVE QueueIInv'
  <2>1. CASE ClaimSnapshot(w)
    BY <2>1, ClaimSnapshotStep
  <2>2. CASE ClaimUpdate(w)
    BY <2>2, ClaimUpdateStep
  <2>3. CASE ClaimNothing(w) \/ Forget(w)
    BY <2>3, ResetStep DEF ClaimNothing, Forget
  <2>4. CASE \E r \in Receipts \cup {None} : AcknowledgeClaim(w, r)
    BY <2>4, AcknowledgeClaimStep
  <2>5. CASE Classify(w)
    BY <2>5, ClassifyStep
  <2>6. QED BY <1>2, <2>1, <2>2, <2>3, <2>4, <2>5 DEF WorkerStep
<1>3. CASE UNCHANGED queueVars
  <2>1. RowsTypeOK' /\ (\A d \in Commands : Calm(d)) /\ UNCHANGED worker
    BY <1>0, <1>3 DEF queueVars, RowsTypeOK, Calm, Quiet
  <2>2. QED BY <2>1, QueueCalmStep
<1>4. QED BY <1>1, <1>2, <1>3 DEF QueueNext

(* The invariant holds for ever.                                            *)
LEMMA QueueInductiveInvariant == QueueSpec => []QueueIInv
  BY QueueInitInvariant, QueueStepInvariant, PTL DEF QueueSpec

(* Every row is a row of the table and every worker one of the states of    *)
(* the repository's callers.                                                *)
THEOREM QueueTypeCorrect == QueueSpec => []QueueTypeOK
<1>1. QueueIInv => QueueTypeOK
  BY DEF QueueIInv
<1>2. QED BY <1>1, QueueInductiveInvariant, PTL

(* The owner index keeps one command applying per owner, however many       *)
(* workers claim from the same snapshot.                                    *)
THEOREM NeverTwoApplying == QueueSpec => []OneApplyingPerOwner
<1>1. QueueIInv => OneApplyingPerOwner
  BY DEF QueueIInv
<1>2. QED BY <1>1, QueueInductiveInvariant, PTL

(* No generation is handed out twice for one command.                       *)
THEOREM FencesNeverShared == QueueSpec => []FencesDistinct
<1>1. QueueIInv => FencesDistinct
  BY DEF QueueIInv
<1>2. QED BY <1>1, QueueInductiveInvariant, PTL

(* What a worker is told of its acknowledgement is what the table holds.    *)
THEOREM RepliesNeverLie == QueueSpec => []RepliesTruthful
<1>1. QueueIInv => RepliesTruthful
  BY DEF QueueIInv
<1>2. QED BY <1>1, QueueInductiveInvariant, PTL

-----------------------------------------------------------------------------
(* How a step may touch the row of a command.                               *)
LEMMA RowStep ==
  ASSUME QueueIInv, [QueueNext]_queueVars, NEW c \in Commands
  PROVE  \/ Calm(c)
         \/ /\ row[c].status = "queued" \/ Expired(c)
            /\ row'[c].status = "applying"
         \/ \E w \in Workers : /\ worker[w].pc = "holding"
                                /\ worker[w].cmd = c /\ worker[w].gen = row[c].attempt
                                /\ row[c].status = "applying" /\ row[c].leased
<1>0. RowsTypeOK
  BY DEF QueueIInv, QueueTypeOK
<1>1. CASE Maintenance
  BY <1>0, <1>1, MaintenanceCalm
<1>2. ASSUME NEW w \in Workers, ClaimUpdate(w)
      PROVE  \/ Calm(c)
             \/ /\ row[c].status = "queued" \/ Expired(c)
                /\ row'[c].status = "applying"
  <2>1. /\ worker[w].cmd \in Commands
        /\ row[worker[w].cmd].attempt < MaxAttempts
        /\ row[worker[w].cmd].status = "queued" \/ Expired(worker[w].cmd)
    BY <1>2 DEF ClaimUpdate, QueueIInv, ClaimsStand, Claiming
  <2>2. row' = Granted(worker[w].cmd)
    BY <1>2 DEF ClaimUpdate
  <2>3. /\ \A d \in Commands \ {worker[w].cmd} : row'[d] = row[d]
        /\ row'[worker[w].cmd].status = "applying"
    BY <1>0, <2>1, <2>2, GrantedRow
  <2>4. PICK d \in Commands : d = worker[w].cmd
    BY <2>1
  <2>5. CASE c = d
    BY <2>1, <2>3, <2>4, <2>5 DEF Expired
  <2>6. CASE c # d
    BY <2>3, <2>4, <2>6 DEF Calm, Quiet
  <2>7. QED BY <2>5, <2>6
<1>3. ASSUME NEW w \in Workers, NEW r \in Receipts \cup {None}, AcknowledgeClaim(w, r), ~Calm(c)
      PROVE  /\ worker[w].pc = "holding"
             /\ worker[w].cmd = c /\ worker[w].gen = row[c].attempt
             /\ row[c].status = "applying" /\ row[c].leased
  <2>1. Decide(worker[w].cmd, worker[w].gen, r)
    BY <1>3 DEF AcknowledgeClaim, Calm, Quiet
  <2>2. worker[w].cmd \in Commands
    BY <1>3 DEF AcknowledgeClaim, QueueIInv, FencesBehind, Fenced
  <2>3. FenceHolds(worker[w].cmd, worker[w].gen)
    BY <1>0, <2>1, <2>2, DecideOnly
  <2>4. worker[w].cmd = c
    BY <1>0, <1>3, <2>1, <2>2, DecideOnly DEF Calm, Quiet
  <2>5. worker[w].pc = "holding"
    BY <1>3, <2>3 DEF AcknowledgeClaim, QueueIInv, SpentFences
  <2>6. QED BY <2>3, <2>4, <2>5 DEF FenceHolds
<1>4. CASE UNCHANGED row
  BY <1>4 DEF Calm, Quiet
<1>5. CASE \E w \in Workers : ClaimSnapshot(w) \/ ClaimNothing(w) \/ Classify(w) \/ Forget(w)
  BY <1>4, <1>5 DEF ClaimSnapshot, ClaimNothing, Classify, Forget
<1>6. CASE UNCHANGED queueVars
  BY <1>4, <1>6 DEF queueVars
<1>7. CASE \E w \in Workers : WorkerStep(w)
  <2>1. PICK w \in Workers : WorkerStep(w)
    BY <1>7
  <2>2. CASE ClaimUpdate(w)
    BY <1>2, <2>2
  <2>3. CASE \E r \in Receipts \cup {None} : AcknowledgeClaim(w, r)
    BY <1>3, <2>3
  <2>4. QED BY <1>5, <2>1, <2>2, <2>3 DEF WorkerStep
<1>8. QED BY <1>1, <1>6, <1>7 DEF QueueNext

(* A command is decided only under its latest claim, or by exhaustion.      *)
THEOREM LatestClaimDecides == QueueSpec => OnlyLatestClaimDecides
<1>1. QueueIInv /\ [QueueNext]_queueVars => [DecidedByLatestClaim]_queueVars
  <2> SUFFICES ASSUME QueueIInv, [QueueNext]_queueVars, NEW c \in Commands,
                      row[c].status = "applying", row'[c].status \in Terminal
               PROVE  \/ /\ row'[c].code = "exhausted" /\ row[c].attempt = MaxAttempts
                         /\ ~row[c].leased
                      \/ /\ row[c].leased
                         /\ \E w \in Workers : /\ worker[w].pc = "holding"
                                               /\ worker[w].cmd = c
                                               /\ worker[w].gen = row[c].attempt
    BY DEF DecidedByLatestClaim
  <2>1. RowsTypeOK /\ LeasedApplies
    BY DEF QueueIInv, QueueTypeOK
  <2>2. CASE Calm(c)
    BY <2>1, <2>2, CalmFacts
  <2>3. CASE ~Calm(c)
    BY <2>3, RowStep DEF Terminal
  <2>4. QED BY <2>2, <2>3
<1>2. QED BY <1>1, QueueInductiveInvariant, PTL DEF QueueSpec, OnlyLatestClaimDecides

(* No step rewrites a decided row; only retention removes it.               *)
THEOREM DecisionsAreFinal == QueueSpec => TerminalIsFinal
<1>1. QueueIInv /\ [QueueNext]_queueVars => [Settled]_queueVars
  <2> SUFFICES ASSUME QueueIInv, [QueueNext]_queueVars, NEW c \in Commands, row[c].status \in Terminal
               PROVE  row'[c] = row[c] \/ row'[c] = Remembered(row[c])
    BY DEF Settled
  <2>1. RowsTypeOK /\ LeasedApplies
    BY DEF QueueIInv, QueueTypeOK
  <2>2. Calm(c)
    BY RowStep DEF Terminal, Expired
  <2>3. QED BY <2>1, <2>2, CalmFacts
<1>2. QED BY <1>1, QueueInductiveInvariant, PTL DEF QueueSpec, TerminalIsFinal

-----------------------------------------------------------------------------
(* Besides inserting a command, no step gives a row another identity, puts  *)
(* it back into the table, or makes a decided command active again.         *)
Stays(d) ==
    /\ row'[d].status \in Stored => row[d].status \in Stored
    /\ row'[d].status \in Active => row[d].status \in Active
    /\ row[d].status \in Stored => row'[d].owner = row[d].owner /\ row'[d].key = row[d].key

(* A change of a row that is no insertion leaves it where it was.           *)
LEMMA CalmStays ==
  ASSUME RowsTypeOK, LeasedApplies, NEW d \in Commands, Calm(d), ~Born(d)
  PROVE  Stays(d)
<1>0. row[d] \in Row
  BY DEF RowsTypeOK
<1>1. CASE row'[d] = row[d]
  BY <1>1 DEF Stays
<1>2. CASE Dropped(d)
  BY <1>0, <1>2, RememberedType DEF Dropped, Stays, Stored, Active, Terminal
<1>3. CASE Lapsed(d)
  BY <1>0, <1>3 DEF Lapsed, Stays, Row
<1>4. CASE GaveUp(d)
  <2>1. /\ row'[d].status = "rejected" /\ row'[d].owner = row[d].owner
        /\ row'[d].key = row[d].key /\ row[d].status = "applying"
    BY <1>0, <1>4 DEF GaveUp, Exhausted, Expired, Row
  <2>2. QED BY <2>1 DEF Stays, Stored, Active, Terminal
<1>5. QED BY <1>1, <1>2, <1>3, <1>4 DEF Calm, Quiet

(* An insertion is the only step that adds a row, under a key not stored    *)
(* and for an owner with room; what else it does is retention.              *)
LEMMA InsertAdds ==
  ASSUME RowsTypeOK, LeasedApplies, NEW o \in Owners, NEW k \in Keys, NEW h \in Hashes, NEW t,
         Insert(o, k, h, NoAuth, t)
  PROVE  \E c \in Commands :
            /\ \A d \in Commands \ {c} : Stays(d)
            /\ \A d \in Commands \ {c} :
                  ~(row'[d].status \in Stored /\ row'[d].owner = o /\ row'[d].key = k)
            /\ row'[c].status = "queued" /\ row'[c].owner = o /\ row'[c].key = k
            /\ Cardinality(RowsOf(o, Active)) < MaxActive
<1> DEFINE kept == AfterPrune(o, t)
<1>1. kept \in [Commands -> Row]
  BY AfterPruneType
<1>2. \A d \in Commands : \/ kept[d] = row[d]
                          \/ row[d].status \in Terminal /\ kept[d] = Remembered(row[d])
  BY AfterPruneType
<1>3. StoredUnder(o, k, kept) = {} /\ Cardinality(RowsOf(o, Active)) < MaxActive
  BY DEF Insert
<1>4. PICK c \in Commands : row' = [kept EXCEPT ![c] = QueuedRow(o, k, h, NoAuth, arrivals + 1)]
  BY DEF Insert
<1> HIDE DEF kept
<1>5. row'[c].status = "queued" /\ row'[c].owner = o /\ row'[c].key = k
  BY <1>1, <1>4, NoRowType, QueuedRowType DEF RowsTypeOK
<1>6. ASSUME NEW d \in Commands \ {c} PROVE Stays(d)
  <2>1. row'[d] = kept[d]
    BY <1>1, <1>4
  <2>2. CASE row'[d] = row[d]
    BY <2>2 DEF Stays
  <2>3. CASE Dropped(d)
    BY <2>3, RememberedType DEF Dropped, Stays, Stored, Active, Terminal, RowsTypeOK
  <2>4. QED BY <1>2, <2>1, <2>2, <2>3 DEF Dropped
<1>7. \A d \in Commands \ {c} :
         ~(row'[d].status \in Stored /\ row'[d].owner = o /\ row'[d].key = k)
  BY <1>1, <1>3, <1>4 DEF StoredUnder
<1>8. QED BY <1>3, <1>5, <1>6, <1>7

(* Every other step leaves each row where it was.                           *)
LEMMA OthersStay ==
  ASSUME QueueIInv, [QueueNext]_queueVars, NEW c \in Commands,
         ~(\E o \in Owners, k \in Keys, h \in Hashes, t \in 0 .. endings :
              Insert(o, k, h, NoAuth, t))
  PROVE  Stays(c)
<1>0. RowsTypeOK /\ LeasedApplies
  BY DEF QueueIInv, QueueTypeOK
<1>1. ASSUME NEW o \in Owners, NEW k \in Keys, NEW h \in Hashes, NEW t, Replay(o, k, h, t)
      PROVE  Stays(c)
  <2>1. row'[c] = row[c] \/ Dropped(c)
    BY <1>0, <1>1, AfterPruneType DEF Replay, Dropped
  <2>2. CASE row'[c] = row[c]
    BY <2>2 DEF Stays
  <2>3. CASE Dropped(c)
    BY <1>0, <2>3, RememberedType DEF Dropped, Stays, Stored, Active, Terminal, RowsTypeOK
  <2>4. QED BY <2>1, <2>2, <2>3
<1>2. ASSUME NEW o \in Owners, NEW t, Prune(o, t) PROVE Stays(c)
  <2>1. row'[c] = row[c] \/ Dropped(c)
    BY <1>0, <1>2, AfterPruneType DEF Prune, Dropped
  <2>2. CASE row'[c] = row[c]
    BY <2>2 DEF Stays
  <2>3. CASE Dropped(c)
    BY <1>0, <2>3, RememberedType DEF Dropped, Stays, Stored, Active, Terminal, RowsTypeOK
  <2>4. QED BY <2>1, <2>2, <2>3
<1>3. ASSUME NEW d \in Commands, ExpireLease(d) PROVE Stays(c)
  <2>1. row'[c] = row[c] \/ Lapsed(c)
    BY <1>0, <1>3 DEF ExpireLease, Lapsed, RowsTypeOK
  <2>2. row[c] \in Row
    BY <1>0 DEF RowsTypeOK
  <2>3. QED BY <2>1, <2>2 DEF Lapsed, Stays, Row
<1>4. CASE RecoverExpiredLeases
  <2>1. Calm(c)
    BY <1>0, <1>4, RecoverCalm
  <2>2. row'[c] = row[c] \/ GaveUp(c)
    BY <1>4 DEF RecoverExpiredLeases, RecoverExhausted, GaveUp
  <2>3. row'[c] = row[c] \/ ~Born(c)
    BY <2>2 DEF GaveUp, Exhausted, Expired, Born
  <2>4. CASE row'[c] = row[c]
    BY <2>4 DEF Stays
  <2>5. QED BY <1>0, <2>1, <2>3, <2>4, CalmStays
<1>5. ASSUME NEW w \in Workers, ClaimUpdate(w) PROVE Stays(c)
  <2>1. /\ worker[w].cmd \in Commands
        /\ row[worker[w].cmd].attempt < MaxAttempts
        /\ row[worker[w].cmd].status = "queued" \/ Expired(worker[w].cmd)
    BY <1>5 DEF ClaimUpdate, QueueIInv, ClaimsStand, Claiming
  <2>2. row' = Granted(worker[w].cmd)
    BY <1>5 DEF ClaimUpdate
  <2>3. /\ \A d \in Commands \ {worker[w].cmd} : row'[d] = row[d]
        /\ row'[worker[w].cmd].status = "applying"
        /\ row'[worker[w].cmd].owner = row[worker[w].cmd].owner
        /\ row'[worker[w].cmd].key = row[worker[w].cmd].key
    BY <1>0, <2>1, <2>2, GrantedRow
  <2>4. PICK d \in Commands : d = worker[w].cmd
    BY <2>1
  <2>5. CASE c = d
    BY <2>1, <2>3, <2>4, <2>5 DEF Stays, Expired, Stored, Active
  <2>6. CASE c # d
    BY <2>3, <2>4, <2>6 DEF Stays
  <2>7. QED BY <2>5, <2>6
<1>6. ASSUME NEW w \in Workers, NEW r \in Receipts \cup {None}, AcknowledgeClaim(w, r)
      PROVE  Stays(c)
  <2>1. PICK d \in Commands : d = worker[w].cmd
    BY <1>6 DEF AcknowledgeClaim, QueueIInv, FencesBehind, Fenced
  <2>2. CASE Decide(d, worker[w].gen, r)
    <3>1. /\ \A e \in Commands \ {d} : row'[e] = row[e]
          /\ FenceHolds(d, worker[w].gen)
          /\ row'[d].owner = row[d].owner /\ row'[d].key = row[d].key
          /\ row'[d].status \in Terminal
      BY <1>0, <2>2, DecideOnly DEF Terminal
    <3>2. CASE c = d
      BY <3>1, <3>2 DEF Stays, FenceHolds, Stored, Active, Terminal
    <3>3. CASE c # d
      BY <3>1, <3>3 DEF Stays
    <3>4. QED BY <3>2, <3>3
  <2>3. CASE UNCHANGED row
    BY <2>3 DEF Stays
  <2>4. QED BY <1>6, <2>1, <2>2, <2>3 DEF AcknowledgeClaim
<1>7. CASE UNCHANGED row
  BY <1>7 DEF Stays
<1>8. CASE Maintenance
  BY <1>1, <1>2, <1>3, <1>4, <1>8 DEF Maintenance, Enqueue
<1>9. CASE \E w \in Workers : WorkerStep(w)
  <2>1. PICK w \in Workers : WorkerStep(w)
    BY <1>9
  <2>2. CASE ClaimSnapshot(w) \/ ClaimNothing(w) \/ Classify(w) \/ Forget(w)
    BY <1>7, <2>2 DEF ClaimSnapshot, ClaimNothing, Classify, Forget
  <2>3. CASE ClaimUpdate(w)
    BY <1>5, <2>3
  <2>4. CASE \E r \in Receipts \cup {None} : AcknowledgeClaim(w, r)
    BY <1>6, <2>4
  <2>5. QED BY <2>1, <2>2, <2>3, <2>4 DEF WorkerStep
<1>10. QED BY <1>7, <1>8, <1>9 DEF QueueNext, queueVars

(* One row per key, and owners within their capacity, after every step.     *)
LEMMA AdmissionStep ==
  ASSUME QueueIInv, OneRowPerKey, OwnersWithinCapacity, [QueueNext]_queueVars
  PROVE  OneRowPerKey' /\ OwnersWithinCapacity'
<1>0. RowsTypeOK /\ LeasedApplies
  BY DEF QueueIInv, QueueTypeOK
<1>1. \A o : /\ RowsOf(o, Active) \in SUBSET Commands
             /\ IsFiniteSet(RowsOf(o, Active)) /\ Cardinality(RowsOf(o, Active)) \in Nat
  <2>1. \A o : RowsOf(o, Active) \subseteq Commands
    BY DEF RowsOf
  <2>2. QED BY <2>1, RowsAssumption, FS_Subset, FS_CardinalityType
<1>2. CASE \A c \in Commands : Stays(c)
  <2>1. OneRowPerKey'
    BY <1>2 DEF OneRowPerKey, Stays
  <2>2. ASSUME NEW o \in Owners PROVE Cardinality(RowsOf(o, Active)') <= MaxActive
    <3>1. RowsOf(o, Active)' \subseteq RowsOf(o, Active)
      BY <1>2 DEF RowsOf, Stays, Stored
    <3>2. Cardinality(RowsOf(o, Active)') <= Cardinality(RowsOf(o, Active))
      BY <1>1, <3>1, FS_Subset
    <3>3. Cardinality(RowsOf(o, Active)') \in Nat
      BY <1>1, <3>1, FS_Subset, FS_CardinalityType
    <3>4. QED BY <1>1, <3>2, <3>3, RowsAssumption DEF OwnersWithinCapacity
  <2>3. QED BY <2>1, <2>2 DEF OwnersWithinCapacity
<1>3. ASSUME NEW o \in Owners, NEW k \in Keys, NEW h \in Hashes, NEW t, Insert(o, k, h, NoAuth, t)
      PROVE  OneRowPerKey' /\ OwnersWithinCapacity'
  <2>1. PICK c \in Commands :
            /\ \A d \in Commands \ {c} : Stays(d)
            /\ \A d \in Commands \ {c} :
                  ~(row'[d].status \in Stored /\ row'[d].owner = o /\ row'[d].key = k)
            /\ row'[c].status = "queued" /\ row'[c].owner = o /\ row'[c].key = k
            /\ Cardinality(RowsOf(o, Active)) < MaxActive
    BY <1>0, <1>3, InsertAdds
  <2>2. OneRowPerKey'
    <3> SUFFICES ASSUME NEW d \in Commands, NEW e \in Commands,
                        row'[d].status \in Stored, row'[e].status \in Stored,
                        row'[d].owner = row'[e].owner, row'[d].key = row'[e].key
                 PROVE  d = e
      BY DEF OneRowPerKey
    <3>1. CASE d = c \/ e = c
      BY <2>1, <3>1
    <3>2. CASE d # c /\ e # c
      BY <2>1, <3>2 DEF OneRowPerKey, Stays
    <3>3. QED BY <3>1, <3>2
  <2>3. ASSUME NEW p \in Owners PROVE Cardinality(RowsOf(p, Active)') <= MaxActive
    <3> DEFINE before == RowsOf(p, Active)
               after == RowsOf(p, Active)'
    <3>1. IsFiniteSet(before) /\ Cardinality(before) \in Nat /\ Cardinality(before) <= MaxActive
      BY <1>1 DEF OwnersWithinCapacity
    <3>2. after \subseteq IF p = o THEN before \cup {c} ELSE before
      BY <2>1 DEF RowsOf, Stays, Stored
    <3>3. p = o => Cardinality(before) < MaxActive
      BY <2>1
    <3> HIDE DEF before, after
    <3>4. CASE p = o
      <4>1. /\ IsFiniteSet(before \cup {c})
            /\ Cardinality(before \cup {c}) <= Cardinality(before) + 1
            /\ Cardinality(before \cup {c}) \in Nat
        <5>1. /\ IsFiniteSet(before \cup {c})
              /\ Cardinality(before \cup {c}) = IF c \in before THEN Cardinality(before)
                                                 ELSE Cardinality(before) + 1
          BY <3>1, FS_AddElement
        <5>2. QED BY <3>1, <5>1
      <4>2. IsFiniteSet(after) /\ Cardinality(after) <= Cardinality(before \cup {c})
        BY <3>2, <3>4, <4>1, FS_Subset
      <4>3. Cardinality(after) \in Nat
        BY <4>2, FS_CardinalityType
      <4>4. QED BY <3>1, <3>3, <3>4, <4>1, <4>2, <4>3, RowsAssumption DEF after
    <3>5. CASE p # o
      <4>1. IsFiniteSet(after) /\ Cardinality(after) <= Cardinality(before)
        BY <3>1, <3>2, <3>5, FS_Subset
      <4>2. Cardinality(after) \in Nat
        BY <4>1, FS_CardinalityType
      <4>3. QED BY <3>1, <4>1, <4>2, RowsAssumption DEF after
    <3>6. QED BY <3>4, <3>5
  <2>4. QED BY <2>2, <2>3 DEF OwnersWithinCapacity
<1>4. QED BY <1>2, <1>3, OthersStay

(* The empty table meets both.                                              *)
LEMMA AdmissionInit == QueueInit => OneRowPerKey /\ OwnersWithinCapacity
<1> SUFFICES ASSUME QueueInit PROVE OneRowPerKey /\ OwnersWithinCapacity
  OBVIOUS
<1>1. \A c \in Commands : row[c].status = "none"
  BY DEF QueueInit, RowsInit, NoRow
<1>2. OneRowPerKey
  BY <1>1 DEF OneRowPerKey, Stored, Active, Terminal
<1>3. \A o \in Owners : RowsOf(o, Active) = {}
  BY <1>1 DEF RowsOf, Active
<1>4. OwnersWithinCapacity
  BY <1>3, FS_EmptySet, RowsAssumption DEF OwnersWithinCapacity
<1>5. QED BY <1>2, <1>4

(* The two invariants of admission hold together.                           *)
LEMMA Admission == QueueSpec => [](OneRowPerKey /\ OwnersWithinCapacity)
<1>1. /\ QueueIInv /\ (OneRowPerKey /\ OwnersWithinCapacity) /\ [QueueNext]_queueVars
      => (OneRowPerKey /\ OwnersWithinCapacity)'
  BY AdmissionStep
<1>2. QED BY <1>1, AdmissionInit, QueueInductiveInvariant, PTL DEF QueueSpec

(* A retried submission never becomes a second command: an owner has one    *)
(* stored row per idempotency key, whatever claims, decisions and retention *)
(* come between the calls.                                                  *)
THEOREM OneCommandPerKey == QueueSpec => []OneRowPerKey
  BY Admission, PTL

(* The queue of an owner is bounded by maxActivePerOwner at all times.      *)
THEOREM QueueIsBounded == QueueSpec => []OwnersWithinCapacity
  BY Admission, PTL
=============================================================================
