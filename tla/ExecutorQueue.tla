---------------------------- MODULE ExecutorQueue ---------------------------
(***************************************************************************)
(* The durable executor-command queue as concurrent clients see it: API and *)
(* notification processes enqueue, any number of workers claim and          *)
(* acknowledge, leases run out, and a worker may present a fence long after *)
(* it was superseded (backend/src/database/executorCommands.ts).            *)
(*                                                                          *)
(* A claim is one SQL statement, yet not atomic: under READ COMMITTED it    *)
(* reads one snapshot, locks its candidate, and only its UPDATE meets the   *)
(* unique index executor_commands_one_applying_per_owner.  An               *)
(* acknowledgement is two statements: the fenced UPDATE and, when it        *)
(* matches nothing, a read that classifies what the row has become.         *)
(***************************************************************************)
EXTENDS ExecutorRows

CONSTANT Workers  \* the processes that hold, or once held, a claim

VARIABLE worker   \* worker[w]: what process w is doing, and its fence

queueVars == <<row, arrivals, endings, worker>>

Replies == {"acknowledged", "duplicate", "conflict", "stale-fence", "missing"}

WorkerState ==
    [pc      : {"idle", "claiming", "holding", "classify", "told"},
     cmd     : Commands \cup {None},
     gen     : 0 .. MaxAttempts,
     receipt : Receipts \cup {None},      \* None: the decision is a rejection
     reply   : Replies \cup {None}]

Idle == [pc |-> "idle", cmd |-> None, gen |-> 0, receipt |-> None, reply |-> None]

QueueTypeOK == RowsTypeOK /\ worker \in [Workers -> WorkerState]

QueueInit == RowsInit /\ worker = [w \in Workers |-> Idle]

-----------------------------------------------------------------------------
(* The candidate CTE: rows another claim statement has locked are skipped.  *)
Unlocked == Commands \ {worker[w].cmd : w \in {v \in Workers : worker[v].pc = "claiming"}}

ClaimSnapshot(w) ==
    /\ worker[w].pc = "idle"
    /\ \E c \in Commands :
          /\ FirstClaimable(c, Unlocked)
          /\ worker' = [worker EXCEPT ![w] = [Idle EXCEPT !.pc = "claiming", !.cmd = c]]
    /\ UNCHANGED <<row, arrivals, endings>>

(* The unique index: at most one applying row per owner, the row itself     *)
(* excepted when it is reclaimed.                                           *)
(* Mutant: the index does not exist.                                        *)
IndexMissing(c) == TRUE

IndexAdmits(c) == RowsOf(row[c].owner, {"applying"}) \subseteq {c}

ClaimUpdate(w) ==
    LET c == worker[w].cmd
    IN  /\ worker[w].pc = "claiming"
        /\ IndexAdmits(c)
        /\ row' = Granted(c)
        /\ worker' = [worker EXCEPT ![w].pc = "holding", ![w].gen = row[c].attempt + 1]
        /\ UNCHANGED <<arrivals, endings>>

(* The try-lock found the owner busy, or the index refused: claim returns   *)
(* undefined and its row lock is released.                                  *)
ClaimNothing(w) ==
    /\ worker[w].pc = "claiming"
    /\ worker' = [worker EXCEPT ![w] = Idle]
    /\ UNCHANGED <<row, arrivals, endings>>

(* The fenced UPDATE of an acknowledgement.  A told worker may repeat its   *)
(* call.                                                                    *)
AcknowledgeClaim(w, r) ==
    LET c == worker[w].cmd
        g == worker[w].gen
    IN  /\ \/ worker[w].pc = "holding"
           \/ worker[w].pc = "told" /\ worker[w].receipt = r
        /\ \/ /\ Decide(c, g, r)
              /\ worker' = [worker EXCEPT ![w].pc = "told", ![w].receipt = r,
                                          ![w].reply = "acknowledged"]
           \/ /\ ~FenceHolds(c, g)
              /\ worker' = [worker EXCEPT ![w].pc = "classify", ![w].receipt = r,
                                          ![w].reply = None]
              /\ UNCHANGED <<row, arrivals, endings>>

(* classifyAppliedAcknowledgement and classifyRejectedAcknowledgement.      *)
(* Mutant: any applied row counts as this worker's.                         *)
ClassificationByStatus(c, r) ==
    CASE row[c].status \notin Stored -> "missing"
      [] row[c].status \in Active    -> "stale-fence"
      [] row[c].status = "applied"   -> "duplicate"
      [] row[c].status = "rejected"  -> "conflict"

Classification(c, r) ==
    CASE row[c].status \notin Stored -> "missing"
      [] row[c].status \in Active    -> "stale-fence"
      [] row[c].status \in Terminal  ->
            IF \/ row[c].status = "applied" /\ row[c].receipt = r
               \/ row[c].status = "rejected" /\ row[c].code = "executor" /\ r = None
            THEN "duplicate" ELSE "conflict"

Classify(w) ==
    /\ worker[w].pc = "classify"
    /\ worker' = [worker EXCEPT ![w].pc = "told",
                                ![w].reply = Classification(worker[w].cmd, worker[w].receipt)]
    /\ UNCHANGED <<row, arrivals, endings>>

(* The process dies or moves on; what it claimed stays in the table.        *)
Forget(w) ==
    /\ worker[w].pc \in {"holding", "classify", "told"}
    /\ worker' = [worker EXCEPT ![w] = Idle]
    /\ UNCHANGED <<row, arrivals, endings>>

(* renewLease only moves the expiry of a lease that has not run out, which  *)
(* a Boolean lease does not see.                                            *)
Maintenance ==
    /\ \/ \E o \in Owners, k \in Keys, h \in Hashes, t \in 0 .. endings : Enqueue(o, k, h, NoAuth, t)
       \/ \E o \in Owners, t \in 0 .. endings : Prune(o, t)
       \/ \E c \in Commands : ExpireLease(c)
       \/ RecoverExpiredLeases
    /\ UNCHANGED worker

WorkerStep(w) ==
    \/ ClaimSnapshot(w)
    \/ ClaimUpdate(w)
    \/ ClaimNothing(w)
    \/ \E r \in Receipts \cup {None} : AcknowledgeClaim(w, r)
    \/ Classify(w)
    \/ Forget(w)

QueueNext == Maintenance \/ \E w \in Workers : WorkerStep(w)

QueueSpec == QueueInit /\ [][QueueNext]_queueVars

-----------------------------------------------------------------------------
(* Two claim statements that read the same snapshot never leave an owner    *)
(* with two commands applying at once.                                      *)
OneApplyingPerOwner ==
    \A c, d \in Commands :
        /\ row[c].status = "applying" /\ row[d].status = "applying"
        /\ row[c].owner = row[d].owner
        => c = d

Fenced(w) == worker[w].pc \in {"holding", "classify", "told"}

(* No two processes ever hold the same fence, however long one of them has  *)
(* been superseded: every claim of a command has a generation of its own.   *)
FencesDistinct ==
    \A v, w \in Workers :
        /\ v # w /\ Fenced(v) /\ Fenced(w)
        /\ worker[v].cmd = worker[w].cmd
        => worker[v].gen # worker[w].gen

(* A command leaves "applying" for a terminal state only by the hand of the *)
(* worker that made the latest claim, under an unexpired lease, or because  *)
(* its last attempt ran out.                                                *)
DecidedByLatestClaim ==
    \A c \in Commands :
        row[c].status = "applying" /\ row'[c].status \in Terminal =>
            \/ row'[c].code = "exhausted" /\ row[c].attempt = MaxAttempts /\ ~row[c].leased
            \/ /\ row[c].leased
               /\ \E w \in Workers : /\ worker[w].pc = "holding"
                                     /\ worker[w].cmd = c
                                     /\ worker[w].gen = row[c].attempt

OnlyLatestClaimDecides == [][DecidedByLatestClaim]_queueVars

(* A decision is final: no late acknowledgement, reclaim or recovery        *)
(* rewrites a terminal row; only retention removes it.                      *)
Settled ==
    \A c \in Commands :
        row[c].status \in Terminal =>
            row'[c] = row[c] \/ row'[c] = Remembered(row[c])

TerminalIsFinal == [][Settled]_queueVars

(* A worker told "acknowledged" or "duplicate" has its own decision in the  *)
(* table, although the classifying read comes after the UPDATE that missed. *)
RepliesTruthful ==
    \A w \in Workers :
        worker[w].pc = "told" /\ worker[w].reply \in {"acknowledged", "duplicate"} =>
            LET r == row[worker[w].cmd]
            IN  \/ r.status = "pruned"
                \/ r.status = "applied" /\ r.receipt = worker[w].receipt /\ r.receipt # None
                \/ r.status = "rejected" /\ r.code = "executor" /\ worker[w].receipt = None
(* An idempotency key stands for one row of its owner: whatever retries,    *)
(* retention and decisions come between, enqueue never stores a second      *)
(* command beside the first.                                                *)
OneRowPerKey ==
    \A c, d \in Commands :
        /\ row[c].status \in Stored /\ row[d].status \in Stored
        /\ row[c].owner = row[d].owner /\ row[c].key = row[d].key
        => c = d

(* An owner never has more than maxActivePerOwner commands queued or        *)
(* applying: only an insertion adds one, and it counts what retention       *)
(* leaves, however many of them are reclaimed meanwhile.                    *)
OwnersWithinCapacity ==
    \A o \in Owners : Cardinality(RowsOf(o, Active)) <= MaxActive
=============================================================================
