---------------------------- MODULE ComputeJobs -----------------------------
(***************************************************************************)
(* The durable queue of research jobs (backend/src/jobs/repository.ts) and  *)
(* the workers that lease its rows (backend/src/workers/researchWorker.ts). *)
(* A worker polls: it recovers expired leases, then claims one job after    *)
(* another while a lane is free.  A lane runs one execution of a job and    *)
(* ends it with one fenced update.  On SIGTERM the worker gives back what   *)
(* it holds and leaves; at any moment it may die, lose the answer of a      *)
(* statement or lose a lease, and an owner may cancel or be disabled.       *)
(*                                                                          *)
(* Every update of a row is atomic, but claim is not: it picks its job from *)
(* the snapshot its statement began with and locks the row later.           *)
(* An element of Workers is one process, started at most once.              *)
(***************************************************************************)
EXTENDS Naturals, FiniteSets

CONSTANTS
    Jobs,         \* the rows that may come to be, each with the request for it:
    OwnerOf,      \*   owner_user_id,
    KeyOf,        \*   client_request_id, or None,
    ContentOf,    \*   job_type and dedupe_key (without one: a content of its own)
    Owners, Keys, Contents, Workers,
    Lanes,        \* RESEARCH_WORKER_CONCURRENCY of them
    None,
    MaxAttempts,  \* max_attempts, 2 in enqueue
    MaxActive,    \* queued or running jobs of one owner, 5 in enqueue
    MaxStops      \* bound on the workers that stop or die

ASSUME JobsAssumption ==
    /\ OwnerOf \in [Jobs -> Owners]
    /\ KeyOf \in [Jobs -> Keys \cup {None}]
    /\ ContentOf \in [Jobs -> Contents]
    /\ None \notin Jobs \cup Keys \cup Workers
    /\ MaxAttempts \in Nat \ {0} /\ MaxActive \in Nat /\ MaxStops \in Nat

VARIABLES
    job,      \* job[j]: the row of table compute_jobs
    earlier,  \* <<i, j>>: of two due jobs, i comes before j in (run_after, created_at)
    active,   \* active[o]: the owner may have jobs run (table users)
    phase,    \* phase[w]: the worker process
    poll,     \* poll[w]: its poll, and the claim the poll is waiting for
    lane,     \* lane[w][l]: the execution in each of its lanes
    unsaved   \* the workers that lost an answer or a write (history)

vars == <<job, earlier, active, phase, poll, lane, unsaved>>

(* "waiting" is queued with run_after in the future, "expired" is running   *)
(* with lease_expires_at in the past, "pruned" is a terminal row without    *)
(* its artifacts.                                                           *)
Queued == {"queued", "waiting"}
Claimed == {"running", "expired"}
Terminal == {"completed", "failed", "cancelled"}

Row == [status  : {"none", "deleted", "pruned"} \cup Queued \cup Claimed \cup Terminal,
        attempt : 0 .. MaxAttempts,
        cancel  : BOOLEAN,               \* cancel_requested_at is set
        token   : Nat,                   \* lease_token: the how-manieth claim
        holder  : Workers \cup {None}]   \* lease_owner

NoRow == [status |-> "none", attempt |-> 0, cancel |-> FALSE, token |-> 0, holder |-> None]

Endings == {"complete", "fail", "retry", "requeue"}

Poll == [at    : {"idle", "asking", "claiming", "claimed"},
         job   : Jobs \cup {None},
         seen  : SUBSET Jobs,       \* the owner's other queued jobs in the claim's snapshot
         token : Nat]

NoPoll == [at |-> "idle", job |-> None, seen |-> {}, token |-> 0]

(* An execution runs until finish() chooses its ending; it leaves the lane  *)
(* when the update of that ending has been tried.                           *)
Lane == [does  : {"nothing", "run"} \cup Endings,
         job   : Jobs \cup {None},
         token : Nat]

FreeLane == [does |-> "nothing", job |-> None, token |-> 0]

Typed ==
    /\ job \in [Jobs -> Row]
    /\ active \in [Owners -> BOOLEAN]
    /\ phase \in [Workers -> {"down", "up", "stopping", "draining", "drained", "dead"}]
    /\ poll \in [Workers -> Poll]
    /\ lane \in [Workers -> [Lanes -> Lane]]
    /\ unsaved \subseteq Workers

JobsTypeOK == Typed /\ earlier \subseteq Jobs \X Jobs

Init ==
    /\ job = [j \in Jobs |-> NoRow] /\ earlier = {}
    /\ active = [o \in Owners |-> TRUE]
    /\ phase = [w \in Workers |-> "down"]
    /\ poll = [w \in Workers |-> NoPoll]
    /\ lane = [w \in Workers |-> [l \in Lanes |-> FreeLane]]
    /\ unsaved = {}

-----------------------------------------------------------------------------
(* What the updates do to a row.                                            *)
Off(row, status) == [row EXCEPT !.status = status, !.holder = None]

(* Mutant: the attempts are not looked at.                                  *)
AgainAlways(row) == Off(row, "waiting")

Again(row) == Off(row, IF row.attempt < MaxAttempts THEN "waiting" ELSE "failed")

(* complete, fail, retryOrFail and requeueForShutdown.                      *)
Ended(row, ending) ==
    IF row.cancel THEN Off(row, "cancelled")
    ELSE CASE ending = "complete" -> Off(row, "completed")
           [] ending = "fail"     -> Off(row, "failed")
           [] ending = "retry"    -> Again(row)
           [] ending = "requeue"  -> [Off(row, "queued") EXCEPT
                  !.attempt = IF row.attempt = 0 THEN 0 ELSE row.attempt - 1]

(* recoverExpiredLeases, one row.  Mutants: cancellation is not looked at;  *)
(* only jobs with an attempt left are selected.                             *)
RecoveredRegardless(row) == IF row.status # "expired" THEN row ELSE Again(row)

RecoveredIfRetryable(row) ==
    IF row.status # "expired" \/ row.attempt = MaxAttempts THEN row
    ELSE IF row.cancel THEN Off(row, "cancelled") ELSE Again(row)

Recovered(row) ==
    IF row.status # "expired" THEN row
    ELSE IF row.cancel THEN Off(row, "cancelled") ELSE Again(row)

(* The fence of every update of an execution: id, token, status and lease.  *)
(* Mutant: the token is not compared.                                       *)
FencedByStatus(j, token) == job[j].status = "running"

Fenced(j, token) == job[j].status = "running" /\ job[j].token = token

(* The row after the fenced update of an execution of j.                    *)
AfterEnding(j, token, ending) ==
    IF Fenced(j, token) THEN [job EXCEPT ![j] = Ended(@, ending)] ELSE job

-----------------------------------------------------------------------------
(* The order in which the due jobs wait.  priority keeps its default: no    *)
(* statement writes it.  A job takes its place at the end: run_after and    *)
(* created_at are the time of the insert, which the owner's lock orders;    *)
(* requeueForShutdown sets run_after to now, and a back-off that is over    *)
(* has just reached it.  rotated does the same to the jobs in late, one     *)
(* after another.  (That a statement reads the clock a moment before it     *)
(* commits is left out.)                                                    *)
LinearOrders(S) ==
    {R \in SUBSET {p \in S \X S : p[1] # p[2]} :
        /\ \A i, j \in S : i # j => (<<i, j>> \in R <=> <<j, i>> \notin R)
        /\ \A i, j, k \in S : <<i, j>> \in R /\ <<j, k>> \in R => <<i, k>> \in R}

Reorder(late) ==
    LET due == {j \in Jobs : job'[j].status = "queued"}
        behind == {j \in due : job[j].status # "queued"} \cup late
        kept == due \ behind IN
    \E R \in LinearOrders(behind) :
        earlier' = {p \in earlier : p[1] \in kept /\ p[2] \in kept} \cup (kept \X behind) \cup R

-----------------------------------------------------------------------------
(* The API and the administrator.                                           *)
Of(o) == {j \in Jobs : OwnerOf[j] = o}

IsActive(j) == job[j].status \in Queued \cup Claimed

Exists(j) == job[j].status \notin {"none", "deleted"}

(* enqueue: a new row, unless a row answers the request already or the      *)
(* owner has too many.                                                      *)
Enqueue(j) ==
    LET rows == {i \in Of(OwnerOf[j]) : Exists(i)} IN
    /\ job[j].status = "none"
    /\ IF KeyOf[j] # None
       THEN \A i \in rows : KeyOf[i] # KeyOf[j]
       ELSE \A i \in rows : ContentOf[i] = ContentOf[j]
                              => job[i].status \in {"failed", "cancelled", "pruned"}
    /\ Cardinality({i \in rows : IsActive(i)}) < MaxActive
    /\ job' = [job EXCEPT ![j].status = "queued"]
    /\ Reorder({})
    /\ UNCHANGED <<active, phase, poll, lane, unsaved>>

Cancelled(row) ==
    [row EXCEPT !.cancel = TRUE,
                !.status = IF row.status \in Queued THEN "cancelled" ELSE @]

Cancel(j) ==
    /\ IsActive(j)
    /\ job' = [job EXCEPT ![j] = Cancelled(@)]
    /\ Reorder({})
    /\ UNCHANGED <<active, phase, poll, lane, unsaved>>

(* An administrator disables an owner.  One statement cancels the queued    *)
(* jobs and a second one the running jobs: a job that another transaction   *)
(* puts back into the queue between the two is missed.                      *)
Disable(o, missed) ==
    /\ active[o]
    /\ missed \subseteq {j \in Of(o) : job[j].status \in Claimed}
    /\ active' = [active EXCEPT ![o] = FALSE]
    /\ job' = [j \in Jobs |-> IF j \in Of(o) \ missed /\ IsActive(j)
                              THEN Cancelled(job[j]) ELSE job[j]]
    /\ Reorder({})
    /\ UNCHANGED <<phase, poll, lane, unsaved>>

Reactivate(o) ==
    /\ ~active[o]
    /\ active' = [active EXCEPT ![o] = TRUE]
    /\ UNCHANGED <<job, earlier, phase, poll, lane, unsaved>>

(* Retention of one owner: terminal rows lose their artifacts, and rows     *)
(* that lost them earlier are deleted.  Which ones depends on age, number   *)
(* and bytes.                                                               *)
Retain(o, compacted, deleted) ==
    /\ compacted \subseteq {j \in Of(o) : job[j].status \in Terminal}
    /\ deleted \subseteq {j \in Of(o) : job[j].status = "pruned"}
    /\ compacted \cup deleted # {}
    /\ job' = [j \in Jobs |-> CASE j \in compacted -> [job[j] EXCEPT !.status = "pruned"]
                                [] j \in deleted   -> [job[j] EXCEPT !.status = "deleted"]
                                [] OTHER -> job[j]]
    /\ UNCHANGED <<earlier, active, phase, poll, lane, unsaved>>

-----------------------------------------------------------------------------
(* Time.                                                                    *)
BackoffEnds(j) ==
    /\ job[j].status = "waiting"
    /\ job' = [job EXCEPT ![j].status = "queued"]
    /\ Reorder({})
    /\ UNCHANGED <<active, phase, poll, lane, unsaved>>

(* A lease runs out when its worker is gone, and also when its heartbeats   *)
(* fail for as long as the lease lasts.                                     *)
LeaseExpires(j) ==
    /\ job[j].status = "running"
    /\ job' = [job EXCEPT ![j].status = "expired"]
    /\ UNCHANGED <<earlier, active, phase, poll, lane, unsaved>>

-----------------------------------------------------------------------------
(* The worker.                                                              *)
Alive(w) == phase[w] \in {"up", "stopping", "draining"}

FreeLanes(w) == {l \in Lanes : lane[w][l].does = "nothing"}

Recovery == [j \in Jobs |-> Recovered(job[j])]

(* The next turn of the poll's loop, with these lanes free.                 *)
Turn(w, free) == [poll EXCEPT ![w] = IF free = {} THEN NoPoll ELSE [NoPoll EXCEPT !.at = "asking"]]

Boot(w) ==
    /\ phase[w] = "down"
    /\ phase' = [phase EXCEPT ![w] = "up"]
    /\ job' = Recovery
    /\ UNCHANGED <<earlier, active, poll, lane, unsaved>>

(* triggerPoll: one poll at a time, none once stopping; it recovers first.  *)
PollBegins(w) ==
    /\ phase[w] = "up" /\ poll[w].at = "idle"
    /\ job' = Recovery
    /\ poll' = Turn(w, FreeLanes(w))
    /\ UNCHANGED <<earlier, active, phase, lane, unsaved>>

(* claim, owner_heads: a due job of an active owner with nothing running.   *)
Claimable(j) ==
    /\ job[j].status = "queued" /\ ~job[j].cancel
    /\ job[j].attempt < MaxAttempts
    /\ active[OwnerOf[j]]
    /\ \A i \in Of(OwnerOf[j]) : job[i].status \notin Claimed

(* DISTINCT ON (owner_user_id): the first of them, one for each owner.      *)
OwnerHead(j) ==
    /\ Claimable(j)
    /\ \A i \in Of(OwnerOf[j]) \ {j} : Claimable(i) => <<j, i>> \in earlier

(* The statement of claim begins: its snapshot fixes the owners' heads, of  *)
(* which it will take one.  Which owner's depends on their order and on the *)
(* rows other transactions hold locked, so here it is any.                  *)
ClaimBegins(w, j) ==
    /\ Alive(w) /\ poll[w].at = "asking"
    /\ OwnerHead(j)
    /\ poll' = [poll EXCEPT ![w] = [@ EXCEPT !.at = "claiming", !.job = j,
                    !.seen = {i \in Of(OwnerOf[j]) \ {j} : job[i].status \in Queued}]]
    /\ UNCHANGED <<job, earlier, active, phase, lane, unsaved>>

(* The CHECK constraints of the table that a claim can run into.  Mutant:   *)
(* attempt <= max_attempts is not one of them.                              *)
AdmitsMore(row) == row.status # "pruned"

Admits(row) == row.attempt < MaxAttempts /\ row.status # "pruned"

ClaimedBy(row, w) == [row EXCEPT !.status = "running", !.holder = w,
                                 !.attempt = row.attempt + 1, !.token = row.token + 1]

(* It locks and updates the row.  Under READ COMMITTED a row that changed   *)
(* since the snapshot is locked and updated in its latest version: of the   *)
(* conditions only id is evaluated again on it, for owner_heads is          *)
(* MATERIALIZED and the second look at running jobs, in eligible, reads the *)
(* same snapshot.  The owner's jobs that were queued in the snapshot, and   *)
(* are so still, go behind those that came after it (rotated).              *)
ClaimEnds(w) ==
    LET j == poll[w].job IN
    /\ Alive(w) /\ poll[w].at = "claiming"
    /\ Exists(j) /\ Admits(job[j])
    /\ job' = [job EXCEPT ![j] = ClaimedBy(@, w)]
    /\ poll' = [poll EXCEPT ![w] = [at |-> "claimed", job |-> j, seen |-> {},
                                         token |-> job[j].token + 1]]
    /\ Reorder({i \in poll[w].seen : job[i].status = "queued"})
    /\ UNCHANGED <<active, phase, lane, unsaved>>

(* No job, a row or an owner locked by another transaction, or an error.    *)
ClaimsNothing(w) ==
    /\ Alive(w) /\ poll[w].at \in {"asking", "claiming"}
    /\ poll' = [poll EXCEPT ![w] = NoPoll]
    /\ UNCHANGED <<job, earlier, active, phase, lane, unsaved>>

(* The claim was committed and its answer never came, or giving it back     *)
(* failed.                                                                  *)
ClaimIsLost(w) ==
    /\ Alive(w) /\ poll[w].at = "claimed"
    /\ poll' = [poll EXCEPT ![w] = NoPoll]
    /\ unsaved' = unsaved \cup {w}
    /\ UNCHANGED <<job, earlier, active, phase, lane>>

(* claimJobForExecution looks at stopping again after the claim.  Mutant:   *)
(* it does not.                                                             *)
LaunchesAnyway(w) == TRUE

Launches(w) == phase[w] = "up"

(* launch: the execution begins, or is over at once because its type is     *)
(* unknown or its thread cannot start.  The poll goes on.                   *)
Launch(w, l, does) ==
    /\ poll[w].at = "claimed" /\ Alive(w) /\ Launches(w)
    /\ l \in FreeLanes(w)
    /\ lane' = [lane EXCEPT ![w][l] = [does |-> does, job |-> poll[w].job, token |-> poll[w].token]]
    /\ poll' = Turn(w, FreeLanes(w) \ {l})
    /\ UNCHANGED <<job, earlier, active, phase, unsaved>>

GiveBack(w) ==
    /\ poll[w].at = "claimed" /\ Alive(w) /\ ~Launches(w)
    /\ job' = AfterEnding(poll[w].job, poll[w].token, "requeue")
    /\ poll' = [poll EXCEPT ![w] = NoPoll]
    /\ Reorder({})
    /\ UNCHANGED <<active, phase, lane, unsaved>>

(* finish(): a result, an error, the wall-time limit, a cancellation or a   *)
(* lost lease seen by the heartbeat.  The first of them counts.             *)
Finish(w, l, ending) ==
    /\ Alive(w) /\ lane[w][l].does = "run"
    /\ lane' = [lane EXCEPT ![w][l].does = ending]
    /\ UNCHANGED <<job, earlier, active, phase, poll, unsaved>>

Write(w, l) ==
    /\ Alive(w) /\ lane[w][l].does \in Endings
    /\ job' = AfterEnding(lane[w][l].job, lane[w][l].token, lane[w][l].does)
    /\ lane' = [lane EXCEPT ![w][l] = FreeLane]
    /\ Reorder({})
    /\ UNCHANGED <<active, phase, poll, unsaved>>

(* The database rejects the update: it is logged and not tried again.       *)
WriteFails(w, l) ==
    /\ Alive(w) /\ lane[w][l].does \in Endings
    /\ lane' = [lane EXCEPT ![w][l] = FreeLane]
    /\ unsaved' = unsaved \cup {w}
    /\ UNCHANGED <<job, earlier, active, phase, poll>>

-----------------------------------------------------------------------------
(* The end of a worker.                                                     *)
Leaving == {w \in Workers : phase[w] \notin {"down", "up"}}

Signal(w) ==
    /\ phase[w] = "up" /\ Cardinality(Leaving) < MaxStops
    /\ phase' = [phase EXCEPT ![w] = "stopping"]
    /\ UNCHANGED <<job, earlier, active, poll, lane, unsaved>>

(* stopActive: every execution that has not finished is to be requeued.     *)
StopActive(w) ==
    /\ phase[w] = "stopping"
    /\ phase' = [phase EXCEPT ![w] = "draining"]
    /\ lane' = [lane EXCEPT ![w] = [l \in Lanes |->
                    IF lane[w][l].does = "run" THEN [lane[w][l] EXCEPT !.does = "requeue"]
                    ELSE lane[w][l]]]
    /\ UNCHANGED <<job, earlier, active, poll, unsaved>>

(* The promises the shutdown waits for: every finish() under way, and the   *)
(* poll.  An execution begun after stopActive would be in none of them.     *)
Settled(w) == poll[w].at = "idle" /\ \A l \in Lanes : lane[w][l].does \notin Endings

Drained(w) ==
    /\ phase[w] = "draining" /\ Settled(w)
    /\ phase' = [phase EXCEPT ![w] = "drained"]
    /\ lane' = [lane EXCEPT ![w] = [l \in Lanes |-> FreeLane]]
    /\ UNCHANGED <<job, earlier, active, poll, unsaved>>

(* A crash, or the forced exit of a shutdown that takes too long.           *)
Dies(w) ==
    /\ Alive(w)
    /\ phase[w] = "up" => Cardinality(Leaving) < MaxStops
    /\ phase' = [phase EXCEPT ![w] = "dead"]
    /\ poll' = [poll EXCEPT ![w] = NoPoll]
    /\ lane' = [lane EXCEPT ![w] = [l \in Lanes |-> FreeLane]]
    /\ UNCHANGED <<job, earlier, active, unsaved>>

-----------------------------------------------------------------------------
Outside ==
    \/ \E j \in Jobs : Enqueue(j) \/ Cancel(j) \/ BackoffEnds(j) \/ LeaseExpires(j)
    \/ \E o \in Owners : Reactivate(o) \/ \E missed \in SUBSET Of(o) : Disable(o, missed)
    \/ \E o \in Owners : \E compacted, deleted \in SUBSET Of(o) : Retain(o, compacted, deleted)

Polls(w) ==
    \/ Boot(w) \/ PollBegins(w) \/ ClaimEnds(w) \/ ClaimsNothing(w) \/ ClaimIsLost(w) \/ GiveBack(w)
    \/ \E j \in Jobs : ClaimBegins(w, j)

Executes(w) ==
    \E l \in Lanes : \/ \E does \in {"run", "fail", "retry"} : Launch(w, l, does)
                     \/ \E ending \in {"complete", "fail", "retry"} : Finish(w, l, ending)
                     \/ Write(w, l) \/ WriteFails(w, l)

Leaves(w) == Signal(w) \/ StopActive(w) \/ Drained(w) \/ Dies(w)

Next == Outside \/ \E w \in Workers : Polls(w) \/ Executes(w) \/ Leaves(w)

Spec == Init /\ [][Next]_vars

(* Fairness.  A worker that is up polls every 750 ms, every execution has a *)
(* wall-time limit, and every statement returns or fails: weak fairness.    *)
(* A claim may find its row or its owner locked, or fail, but not each      *)
(* time: strong fairness.  A lease that no execution renews runs out.       *)
Holds(w, j) ==
    \E l \in Lanes : /\ lane[w][l].does # "nothing"
                     /\ lane[w][l].job = j /\ lane[w][l].token = job[j].token

Neglected(j) == \A w \in Workers : ~Holds(w, j)

WorkerFairness(w) ==
    /\ WF_vars(Boot(w)) /\ WF_vars(PollBegins(w)) /\ WF_vars(ClaimsNothing(w)) /\ WF_vars(GiveBack(w))
    /\ SF_vars(\E j \in Jobs : ClaimBegins(w, j)) /\ SF_vars(ClaimEnds(w))
    /\ WF_vars(\E l \in Lanes : \E does \in {"run", "fail", "retry"} : Launch(w, l, does))
    /\ \A l \in Lanes : /\ WF_vars(\E ending \in {"complete", "fail", "retry"} : Finish(w, l, ending))
                        /\ WF_vars(Write(w, l) \/ WriteFails(w, l))

Fairness ==
    /\ \A w \in Workers : WorkerFairness(w)
    /\ \A j \in Jobs : WF_vars(BackoffEnds(j)) /\ WF_vars(LeaseExpires(j) /\ Neglected(j))

LiveSpec == Spec /\ Fairness

-----------------------------------------------------------------------------
(* A cancellation is never forgotten: whatever claims, results, retries,    *)
(* expiries and shutdowns race with it, a job whose cancellation was        *)
(* requested neither completes nor fails nor waits to run again.            *)
CancellationWins ==
    \A j \in Jobs : job[j].cancel =>
        job[j].status \in Claimed \cup {"cancelled", "pruned", "deleted"}

(* No queued job is stranded: whichever way it came back into the queue, it *)
(* has an attempt left and no cancellation, which are what owner_heads      *)
(* selects by.                                                              *)
NoneStranded ==
    \A j \in Jobs : job[j].status \in Queued => job[j].attempt < MaxAttempts /\ ~job[j].cancel

(* A worker that left in order, all of whose statements were answered,      *)
(* leaves no live lease behind: its jobs run elsewhere at once, not when    *)
(* their leases run out.                                                    *)
DrainedLeavesNothing ==
    \A w \in Workers : phase[w] = "drained" /\ w \notin unsaved =>
        \A j \in Jobs : ~(job[j].status = "running" /\ job[j].holder = w)

(* While the lease of a job lives, only the worker that holds it decides    *)
(* how the job ends, and it does so for the execution of the latest claim:  *)
(* a late result of an earlier execution decides nothing.                   *)
LatestOf(w, j) ==
    \/ \E l \in Lanes : /\ lane[w][l].does \in Endings /\ lane'[w][l].does = "nothing"
                        /\ lane[w][l].job = j /\ lane[w][l].token = job[j].token
    \/ /\ poll[w].at = "claimed" /\ poll'[w].at = "idle"
       /\ poll[w].job = j /\ poll[w].token = job[j].token

OnlyHolderDecides ==
    [][\A j \in Jobs : job[j].status = "running" /\ job'[j].status \notin Claimed
           => \E w \in Workers : job[j].holder = w /\ LatestOf(w, j)]_vars

(* Every job of an owner who stays active comes to an end, while workers    *)
(* come and go and as long as one of them stays.                            *)
JobsSettle ==
    \A j \in Jobs : IsActive(j) ~> ~IsActive(j) \/ ~active[OwnerOf[j]]

(* docs/API.md and docs/CAPACITY_100_USERS.md: one running job per owner.   *)
(* The test "never claims two running jobs for one owner under concurrent   *)
(* workers" says the same.  The claim of a stale snapshot breaks it.        *)
OneRunningPerOwner ==
    \A o \in Owners : Cardinality({j \in Of(o) : job[j].status = "running"}) <= 1
=============================================================================
