---------------------------- MODULE TelegramIngress ----------------------------
(***************************************************************************)
(* The leased consumer of one bot's getUpdates stream: the lease row of    *)
(* consumerLease.ts and the sweep of ingressLane.ts, run by the loops of   *)
(* several notification worker processes that may pause, die or miss the   *)
(* answer to a commit.  What an update does is left to TelegramCommands;   *)
(* here it is enough how often it did it.                                  *)
(***************************************************************************)
EXTENDS FiniteSets, TelegramUpdates

CONSTANTS
    Workers,        \* notification worker processes
    MaxFaults,      \* bound: deaths, shutdowns and leases lost while in use
    Nobody, Gone    \* no holder; the random id of a process that no longer runs

ASSUME IngressAssumption ==
    /\ MaxUpdates \in Nat /\ MaxFaults \in Nat
    /\ Nobody \notin Workers /\ Gone \notin Workers /\ Nobody # Gone

VARIABLES
    written,    \* updates sent to the bot; an update's id is its number
    forgotten,  \* Telegram keeps only the updates after this one
    consumer,   \* the lease row: holder, generation, unexpired, durable cursor
    poller,     \* each ingress loop: its step, its lease and cursor, its batch
    journal,    \* telegram_updates: the ids recorded
    times,      \* history: how often an update's effects were committed
    faults      \* history: faults so far

ingressVars == <<written, forgotten, consumer, poller, journal, times, faults>>

\* A loop without a lease; generation 0 is no lease.
NoLease == [at |-> "idle", gen |-> 0, cursor |-> 0, from |-> 0, upto |-> 0]

IngressInit ==
    /\ written = 0 /\ forgotten = 0 /\ faults = 0
    /\ consumer = [holder |-> Nobody, gen |-> 0, live |-> FALSE, cursor |-> 0]
    /\ poller = [w \in Workers |-> NoLease]
    /\ journal = {} /\ times = [u \in Updates |-> 0]

Write ==
    /\ written < MaxUpdates /\ written' = written + 1
    /\ UNCHANGED <<forgotten, consumer, poller, journal, times, faults>>

\* Sixty seconds without a renewal; a fault unless the holder is dead already.
LeaseExpires ==
    /\ consumer.live
    /\ consumer' = [consumer EXCEPT !.live = FALSE]
    /\ \/ consumer.holder = Gone /\ UNCHANGED faults
       \/ consumer.holder # Gone /\ faults < MaxFaults /\ faults' = faults + 1
    /\ UNCHANGED <<written, forgotten, poller, journal, times>>

\* The fence of every mutation: owner, token and generation, and unexpired.
Holds(w) ==
    /\ poller[w].gen > 0 /\ consumer.holder = w /\ consumer.gen = poller[w].gen
    /\ consumer.live

(* A free or an expired lease, or one that is already ours.  Mutant: an      *)
(* expired lease is not free.                                               *)
MayAcquireReleased(w) == consumer.holder \in {Nobody, w}

MayAcquire(w) == consumer.holder \in {Nobody, w} \/ ~consumer.live

\* ensureLease: renew ours, else take a new generation with the durable cursor,
\* else go without until the next sweep.
EnsureLease(w) ==
    /\ poller[w].at = "idle"
    /\ \/ /\ Holds(w)
          /\ poller' = [poller EXCEPT ![w].at = "fetch"]
          /\ UNCHANGED consumer
       \/ /\ ~Holds(w) /\ MayAcquire(w)
          /\ consumer' = [consumer EXCEPT !.holder = w, !.gen = consumer.gen + 1, !.live = TRUE]
          /\ poller' = [poller EXCEPT ![w] = [at |-> "fetch", gen |-> consumer.gen + 1,
                                             cursor |-> consumer.cursor, from |-> 0, upto |-> 0]]
       \/ /\ ~Holds(w) /\ ~MayAcquire(w)
          /\ poller' = [poller EXCEPT ![w] = NoLease]
          /\ UNCHANGED consumer
    /\ UNCHANGED <<written, forgotten, journal, times, faults>>

(* Where an answer to getUpdates(cursor + 1) starts; what came before is     *)
(* dropped.  Mutant: the offset is one too far.                             *)
FromOneLater(w) == poller[w].cursor + 1

From(w) == IF poller[w].cursor > forgotten THEN poller[w].cursor ELSE forgotten

\* Telegram answers with some of what it holds, perhaps to a former holder.
Fetch(w) ==
    /\ poller[w].at = "fetch"
    /\ forgotten' = From(w)
    /\ \E upto \in Updates :
        /\ From(w) < upto /\ upto <= written
        /\ poller' = [poller EXCEPT ![w].at = "batch", ![w].from = From(w), ![w].upto = upto]
    /\ UNCHANGED <<written, consumer, journal, times, faults>>

\* Nothing to answer, or no answer: the call may have reached Telegram.
FetchNothing(w) ==
    /\ poller[w].at = "fetch"
    /\ forgotten' \in {forgotten, From(w)}
    /\ poller' = [poller EXCEPT ![w].at = "idle"]
    /\ UNCHANGED <<written, consumer, journal, times, faults>>

\* advanceConsumerCursor: our exact unexpired lease, and forward only.
MayAdvance(w) == Holds(w) /\ consumer.cursor < poller[w].upto

Batch(w) == (poller[w].from + 1) .. poller[w].upto

(* recordUpdate: an update already in the journal has no effect.  Mutant:    *)
(* the insert's answer is not looked at.                                    *)
FreshOrNot(w) == Batch(w)

Fresh(w) == Batch(w) \ journal

\* processBatch commits records, effects and cursor in one transaction.  When
\* the commit's answer is lost the loop goes on with its old cursor.
SettleBatch(w) ==
    /\ poller[w].at = "batch" /\ MayAdvance(w)
    /\ journal' = journal \union Batch(w)
    /\ times' = [u \in Updates |-> IF u \in Fresh(w) THEN times[u] + 1 ELSE times[u]]
    /\ consumer' = [consumer EXCEPT !.cursor = poller[w].upto]
    /\ \E cursor \in {poller[w].upto, poller[w].cursor} :
         poller' = [poller EXCEPT ![w].at = "idle", ![w].cursor = cursor]
    /\ UNCHANGED <<written, forgotten, faults>>

\* The advance finds the fence lost: rolled back, and the lease forgotten.
FenceLost(w) ==
    /\ poller[w].at = "batch" /\ ~MayAdvance(w)
    /\ poller' = [poller EXCEPT ![w] = NoLease]
    /\ UNCHANGED <<written, forgotten, consumer, journal, times, faults>>

(* A statement fails: rolled back, and the loop tries again with its lease.  *)
(* Mutant: the loop keeps the cursor it was about to make durable.          *)
RollBackLater(w) ==
    /\ poller[w].at = "batch"
    /\ poller' = [poller EXCEPT ![w].at = "idle", ![w].cursor = poller[w].upto]
    /\ UNCHANGED <<written, forgotten, consumer, journal, times, faults>>

RollBack(w) ==
    /\ poller[w].at = "batch"
    /\ poller' = [poller EXCEPT ![w].at = "idle"]
    /\ UNCHANGED <<written, forgotten, consumer, journal, times, faults>>

\* deactivateLanes: the loop has ended; the release needs no unexpired lease.
Release(w) ==
    /\ poller[w].at = "idle" /\ poller[w].gen > 0
    /\ faults < MaxFaults /\ faults' = faults + 1
    /\ poller' = [poller EXCEPT ![w] = NoLease]
    /\ consumer' = IF consumer.holder = w /\ consumer.gen = poller[w].gen
                   THEN [consumer EXCEPT !.holder = Nobody, !.live = FALSE] ELSE consumer
    /\ UNCHANGED <<written, forgotten, journal, times>>

\* A process dies, and another with a new random id takes its place.
Crash(w) ==
    /\ faults < MaxFaults /\ faults' = faults + 1
    /\ poller' = [poller EXCEPT ![w] = NoLease]
    /\ consumer' = IF consumer.holder = w THEN [consumer EXCEPT !.holder = Gone] ELSE consumer
    /\ UNCHANGED <<written, forgotten, journal, times>>

IngressNext ==
    \/ Write \/ LeaseExpires
    \/ \E w \in Workers :
        \/ EnsureLease(w) \/ Fetch(w) \/ FetchNothing(w)
        \/ SettleBatch(w) \/ FenceLost(w) \/ RollBack(w) \/ Release(w) \/ Crash(w)

IngressSpec == IngressInit /\ [][IngressNext]_ingressVars

(* The loop never stops sweeping, a dead holder's lease runs out, and      *)
(* neither Telegram nor the database fails for ever.                       *)
Fairness ==
    /\ WF_ingressVars(consumer.holder = Gone /\ LeaseExpires)
    /\ \A w \in Workers :
        /\ WF_ingressVars(EnsureLease(w)) /\ WF_ingressVars(Fetch(w) \/ FetchNothing(w))
        /\ SF_ingressVars(Fetch(w)) /\ SF_ingressVars(SettleBatch(w) \/ FenceLost(w))

FairSpec == IngressSpec /\ Fairness
-----------------------------------------------------------------------------
(* Every variable keeps its type.                                          *)
IngressTypeOK ==
    /\ written \in 0 .. MaxUpdates /\ forgotten \in 0 .. MaxUpdates /\ faults \in 0 .. MaxFaults
    /\ consumer \in [holder : Workers \union {Nobody, Gone}, gen : Nat,
                     live : BOOLEAN, cursor : 0 .. MaxUpdates]
    /\ poller \in [Workers -> [at : {"idle", "fetch", "batch"}, gen : Nat, cursor : 0 .. MaxUpdates,
                               from : 0 .. MaxUpdates, upto : 0 .. MaxUpdates]]
    /\ journal \subseteq Updates
    /\ times \in [Updates -> Nat]

(* Nothing Telegram has forgotten is missing from the journal, and the     *)
(* journal is exactly what the durable cursor covers, whichever process    *)
(* polled and whichever lost its lease, died or missed its commit's answer.*)
CursorIsTheJournal ==
    /\ journal = 1 .. consumer.cursor
    /\ forgotten <= consumer.cursor

(* The leased consumer is a feed: the updates take effect in order, each   *)
(* of them once.                                                           *)
Feed == INSTANCE UpdateFeed
IsFeed == Feed!FeedSpec

(* Every update a chat sends takes effect, once the processes stop dying.  *)
UpdatesSettle == \A u \in Updates : written >= u ~> times[u] = 1
=============================================================================
