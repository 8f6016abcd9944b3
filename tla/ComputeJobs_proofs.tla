------------------------- MODULE ComputeJobs_proofs --------------------------
(***************************************************************************)
(* Theorems about ComputeJobs for every number of jobs, owners, workers and *)
(* lanes.  The rows alone carry the first half of the invariant: every      *)
(* update keeps RowOK, whatever race led to it.  The second half ties the   *)
(* rows to the workers: a live lease is tracked by the worker that holds    *)
(* it, under the token of the latest claim.                                 *)
(***************************************************************************)
EXTENDS ComputeJobs, TLAPS

(* What every update keeps of a row.                                        *)
RowOK(row) ==
    /\ row.cancel => row.status \in Claimed \cup {"cancelled", "pruned", "deleted"}
    /\ row.status \in Queued => row.attempt < MaxAttempts
    /\ row.status = "none" => row = NoRow

RowsOK == \A j \in Jobs : RowOK(job[j])

(* The claim w's poll has just been given, and the executions of w.         *)
Given(w, j) == poll[w].at = "claimed" /\ poll[w].job = j /\ poll[w].token = job[j].token

Tracks(w, j) == Given(w, j) \/ Holds(w, j)

(* A live lease is tracked by its holder, unless the holder died or lost an *)
(* answer; nobody else tracks its token; no token lies ahead of the row's.  *)
TracksLeases(w) ==
    \A j \in Jobs :
        job[j].status = "running" /\ job[j].holder = w /\ phase[w] # "dead" /\ w \notin unsaved
            => Alive(w) /\ Tracks(w, j)

LeaseTracked == \A w \in Workers : TracksLeases(w)

TrackerHolds ==
    \A w \in Workers, j \in Jobs :
        job[j].status = "running" /\ Tracks(w, j) => job[j].holder = w

TokensPast ==
    \A w \in Workers, j \in Jobs :
        /\ poll[w].at = "claimed" /\ poll[w].job = j => poll[w].token <= job[j].token
        /\ \A l \in Lanes : lane[w][l].does # "nothing" /\ lane[w][l].job = j
                               => lane[w][l].token <= job[j].token

(* An execution neither begins nor goes on after stopActive.                *)
NoLateRun ==
    \A w \in Workers : phase[w] = "draining" => \A l \in Lanes : lane[w][l].does # "run"

LeaseInv == LeaseTracked /\ TrackerHolds /\ TokensPast /\ NoLateRun

(* A claim in flight and an execution name a job.                           *)
ClaimNamed ==
    \A w \in Workers : /\ poll[w].at \in {"claiming", "claimed"} => poll[w].job \in Jobs
                       /\ \A l \in Lanes : lane[w][l].does # "nothing" => lane[w][l].job \in Jobs

IInv == Typed /\ ClaimNamed /\ RowsOK /\ LeaseInv

-----------------------------------------------------------------------------
(* Rows.                                                                    *)

(* Taking a row off its worker leaves a row of the table.                   *)
LEMMA OffIsRow ==
    ASSUME NEW row \in Row, NEW status \in Queued \cup Terminal
    PROVE  /\ Off(row, status) \in Row
           /\ Off(row, status).status = status
           /\ Off(row, status).attempt = row.attempt
           /\ Off(row, status).cancel = row.cancel
           /\ Off(row, status).token = row.token
  BY DEF Off, Row, Queued, Claimed, Terminal

(* retryOrFail and recovery queue a job only if it has an attempt left.     *)
LEMMA AgainIsOK ==
    ASSUME NEW row \in Row, ~row.cancel
    PROVE  /\ Again(row) \in Row /\ RowOK(Again(row))
           /\ Again(row).token = row.token
           /\ Again(row).status \in {"waiting", "failed"}
  <1>1. CASE row.attempt < MaxAttempts
    <2>1. Again(row) = Off(row, "waiting")  BY <1>1 DEF Again
    <2> QED  BY <1>1, <2>1, OffIsRow DEF RowOK, Queued, Claimed, Terminal
  <1>2. CASE ~(row.attempt < MaxAttempts)
    <2>1. Again(row) = Off(row, "failed")  BY <1>2 DEF Again
    <2> QED  BY <2>1, OffIsRow DEF RowOK, Queued, Claimed, Terminal
  <1> QED  BY <1>1, <1>2

(* An execution's ending takes the row off its worker and keeps RowOK.      *)
LEMMA EndedIsOK ==
    ASSUME NEW row \in Row, NEW ending \in Endings
    PROVE  /\ Ended(row, ending) \in Row /\ RowOK(Ended(row, ending))
           /\ Ended(row, ending).token = row.token
           /\ Ended(row, ending).status \notin Claimed
  <1>1. CASE row.cancel
    <2>1. Ended(row, ending) = Off(row, "cancelled")  BY <1>1 DEF Ended
    <2> QED  BY <2>1, OffIsRow DEF RowOK, Queued, Claimed, Terminal
  <1>2. CASE ~row.cancel /\ ending = "complete"
    <2>1. Ended(row, ending) = Off(row, "completed")  BY <1>2 DEF Ended
    <2> QED  BY <1>2, <2>1, OffIsRow DEF RowOK, Queued, Claimed, Terminal
  <1>3. CASE ~row.cancel /\ ending = "fail"
    <2>1. Ended(row, ending) = Off(row, "failed")  BY <1>3 DEF Ended
    <2> QED  BY <1>3, <2>1, OffIsRow DEF RowOK, Queued, Claimed, Terminal
  <1>4. CASE ~row.cancel /\ ending = "retry"
    <2>1. Ended(row, ending) = Again(row)  BY <1>4 DEF Ended
    <2> QED  BY <1>4, <2>1, AgainIsOK DEF Claimed
  <1>5. CASE ~row.cancel /\ ending = "requeue"
    <2> DEFINE left == IF row.attempt = 0 THEN 0 ELSE row.attempt - 1
               back == Off(row, "queued")
    <2>1. Ended(row, ending) = [back EXCEPT !.attempt = left]  BY <1>5 DEF Ended
    <2>2. row.attempt \in 0 .. MaxAttempts /\ MaxAttempts \in Nat \ {0}
      BY JobsAssumption DEF Row
    <2>3. left \in 0 .. MaxAttempts /\ left < MaxAttempts  BY <2>2
    <2>4. back \in Row /\ back.status = "queued" /\ ~back.cancel /\ back.token = row.token
      BY <1>5, OffIsRow DEF Queued
    <2> HIDE DEF left, back
    <2> QED  BY <2>1, <2>3, <2>4 DEF RowOK, Row, Queued, Claimed, Terminal
  <1> QED  BY <1>1, <1>2, <1>3, <1>4, <1>5 DEF Endings

(* Recovery keeps RowOK and makes nothing run.                              *)
LEMMA RecoveredIsOK ==
    ASSUME NEW row \in Row, RowOK(row)
    PROVE  /\ Recovered(row) \in Row /\ RowOK(Recovered(row))
           /\ Recovered(row).token = row.token
           /\ Recovered(row) = row \/ Recovered(row).status \notin Claimed
           /\ row.status # "expired" => Recovered(row) = row
  <1>1. CASE row.status # "expired"
    BY <1>1 DEF Recovered
  <1>2. CASE row.status = "expired" /\ row.cancel
    <2>1. Recovered(row) = Off(row, "cancelled")  BY <1>2 DEF Recovered
    <2> QED  BY <1>2, <2>1, OffIsRow DEF RowOK, Queued, Claimed, Terminal
  <1>3. CASE row.status = "expired" /\ ~row.cancel
    <2>1. Recovered(row) = Again(row)  BY <1>3 DEF Recovered
    <2> QED  BY <1>3, <2>1, AgainIsOK DEF Claimed
  <1> QED  BY <1>1, <1>2, <1>3

(* A cancellation keeps RowOK of a queued or running row.                   *)
LEMMA CancelledIsOK ==
    ASSUME NEW row \in Row, row.status \in Queued \cup Claimed
    PROVE  /\ Cancelled(row) \in Row /\ RowOK(Cancelled(row))
           /\ Cancelled(row).token = row.token /\ Cancelled(row).holder = row.holder
           /\ Cancelled(row).status = IF row.status \in Queued THEN "cancelled" ELSE row.status
  BY DEF Cancelled, RowOK, Row, Queued, Claimed, Terminal

-----------------------------------------------------------------------------
(* Steps, as far as the rows are concerned.                                 *)
Rows == job \in [Jobs -> Row] /\ RowsOK

(* A step is quiet if no row's token moves and none begins to run, or runs  *)
(* for another worker.                                                      *)
Quiet == \A j \in Jobs : /\ job'[j].token = job[j].token
                         /\ job'[j].status = "running" =>
                              job[j].status = "running" /\ job'[j].holder = job[j].holder

LEMMA EndingIsQuiet ==
    ASSUME Rows, NEW j \in Jobs, NEW token, NEW ending \in Endings,
           job' = AfterEnding(j, token, ending)
    PROVE  /\ Rows' /\ Quiet
           /\ Fenced(j, token) => job'[j].status \notin Claimed
           /\ \A i \in Jobs : i # j \/ ~Fenced(j, token) => job'[i] = job[i]
  <1>1. CASE Fenced(j, token)
    <2>1. job' = [job EXCEPT ![j] = Ended(job[j], ending)]  BY <1>1 DEF AfterEnding
    <2>2. job[j] \in Row  BY DEF Rows
    <2>3. /\ Ended(job[j], ending) \in Row /\ RowOK(Ended(job[j], ending))
          /\ Ended(job[j], ending).token = job[j].token
          /\ Ended(job[j], ending).status \notin Claimed
      BY <2>2, EndedIsOK
    <2> QED  BY <1>1, <2>1, <2>3 DEF Rows, RowsOK, Quiet, Claimed
  <1>2. CASE ~Fenced(j, token)
    BY <1>2 DEF AfterEnding, Rows, RowsOK, Quiet
  <1> QED  BY <1>1, <1>2

LEMMA RecoveryIsQuiet ==
    ASSUME Rows, job' = Recovery
    PROVE  /\ Rows' /\ Quiet
           /\ \A j \in Jobs : job[j].status # "expired" => job'[j] = job[j]
  <1>1. job' = [j \in Jobs |-> Recovered(job[j])]  BY DEF Recovery
  <1>2. ASSUME NEW j \in Jobs
        PROVE  /\ job'[j] \in Row /\ RowOK(job'[j])
               /\ job'[j].token = job[j].token
               /\ job'[j] = job[j] \/ job'[j].status \notin Claimed
               /\ job[j].status # "expired" => job'[j] = job[j]
    <2>1. job[j] \in Row /\ RowOK(job[j])  BY DEF Rows, RowsOK
    <2>2. job'[j] = Recovered(job[j])  BY <1>1
    <2> QED  BY <2>1, <2>2, RecoveredIsOK
  <1> QED  BY <1>1, <1>2 DEF Rows, RowsOK, Quiet, Claimed

(* The API, the administrator, retention and time are quiet, and none of    *)
(* them ends a running job.                                                 *)
LEMMA OutsideIsQuiet ==
    ASSUME Rows, active \in [Owners -> BOOLEAN], Outside
    PROVE  /\ Rows' /\ Quiet /\ active' \in [Owners -> BOOLEAN]
           /\ UNCHANGED <<phase, poll, lane, unsaved>>
           /\ \A j \in Jobs : job[j].status = "running" => job'[j].status \in Claimed
  <1> USE DEF Rows, RowsOK
  <1>1. ASSUME NEW j \in Jobs, Enqueue(j)
        PROVE  /\ Rows' /\ Quiet
               /\ \A i \in Jobs : job[i].status = "running" => job'[i].status \in Claimed
    <2>1. job[j] \in Row /\ job[j] = NoRow  BY <1>1 DEF Enqueue, RowOK
    <2>2. job[j].status = "none" /\ job[j].attempt = 0 /\ ~job[j].cancel  BY <2>1 DEF NoRow
    <2>3. job' = [job EXCEPT ![j] = [job[j] EXCEPT !.status = "queued"]]  BY <1>1 DEF Enqueue
    <2>4. [job[j] EXCEPT !.status = "queued"] \in Row /\ RowOK([job[j] EXCEPT !.status = "queued"])
      BY <2>1, <2>2, JobsAssumption DEF Row, RowOK, Queued, Claimed, Terminal
    <2> QED  BY <2>1, <2>2, <2>3, <2>4 DEF Quiet, Claimed, Row
  <1>2. ASSUME NEW j \in Jobs, Cancel(j)
        PROVE  /\ Rows' /\ Quiet
               /\ \A i \in Jobs : job[i].status = "running" => job'[i].status \in Claimed
    <2>1. job' = [job EXCEPT ![j] = Cancelled(job[j])]  BY <1>2 DEF Cancel
    <2>2. job[j] \in Row /\ job[j].status \in Queued \cup Claimed  BY <1>2 DEF Cancel, IsActive
    <2> QED  BY <2>1, <2>2, CancelledIsOK DEF Quiet, Queued, Claimed
  <1>3. ASSUME NEW j \in Jobs, BackoffEnds(j)
        PROVE  /\ Rows' /\ Quiet
               /\ \A i \in Jobs : job[i].status = "running" => job'[i].status \in Claimed
    <2>1. job' = [job EXCEPT ![j] = [job[j] EXCEPT !.status = "queued"]]  BY <1>3 DEF BackoffEnds
    <2>2. job[j] \in Row /\ RowOK(job[j]) /\ job[j].status = "waiting"  BY <1>3 DEF BackoffEnds
    <2>3. [job[j] EXCEPT !.status = "queued"] \in Row /\ RowOK([job[j] EXCEPT !.status = "queued"])
      BY <2>2 DEF Row, RowOK, Queued, Claimed, Terminal
    <2> QED  BY <2>1, <2>2, <2>3 DEF Quiet, Claimed, Row
  <1>4. ASSUME NEW j \in Jobs, LeaseExpires(j)
        PROVE  /\ Rows' /\ Quiet
               /\ \A i \in Jobs : job[i].status = "running" => job'[i].status \in Claimed
    <2>1. job' = [job EXCEPT ![j] = [job[j] EXCEPT !.status = "expired"]]  BY <1>4 DEF LeaseExpires
    <2>2. job[j] \in Row /\ RowOK(job[j]) /\ job[j].status = "running"  BY <1>4 DEF LeaseExpires
    <2>3. [job[j] EXCEPT !.status = "expired"] \in Row /\ RowOK([job[j] EXCEPT !.status = "expired"])
      BY <2>2 DEF Row, RowOK, Queued, Claimed, Terminal
    <2> QED  BY <2>1, <2>2, <2>3 DEF Quiet, Claimed, Row
  <1>5. ASSUME NEW o \in Owners, NEW missed \in SUBSET Of(o), Disable(o, missed)
        PROVE  /\ Rows' /\ Quiet
               /\ \A i \in Jobs : job[i].status = "running" => job'[i].status \in Claimed
    <2>1. job' = [j \in Jobs |-> IF j \in Of(o) \ missed /\ IsActive(j)
                                 THEN Cancelled(job[j]) ELSE job[j]]
      BY <1>5 DEF Disable
    <2>2. ASSUME NEW j \in Jobs
          PROVE  /\ job'[j] \in Row /\ RowOK(job'[j]) /\ job'[j].token = job[j].token
                 /\ job'[j].status = "running" =>
                        job[j].status = "running" /\ job'[j].holder = job[j].holder
                 /\ job[j].status = "running" => job'[j].status \in Claimed
      <3>1. CASE job'[j] = job[j]
        BY <3>1 DEF Claimed
      <3>2. CASE job'[j] = Cancelled(job[j]) /\ IsActive(j)
        <4>1. job[j] \in Row /\ job[j].status \in Queued \cup Claimed  BY <3>2 DEF IsActive
        <4> QED  BY <3>2, <4>1, CancelledIsOK DEF Queued, Claimed
      <3> QED  BY <2>1, <3>1, <3>2
    <2> QED  BY <2>1, <2>2 DEF Quiet
  <1>6. ASSUME NEW o \in Owners, NEW compacted \in SUBSET Of(o), NEW deleted \in SUBSET Of(o),
               Retain(o, compacted, deleted)
        PROVE  /\ Rows' /\ Quiet
               /\ \A i \in Jobs : job[i].status = "running" => job'[i].status \in Claimed
    <2>1. /\ job' = [j \in Jobs |-> CASE j \in compacted -> [job[j] EXCEPT !.status = "pruned"]
                                      [] j \in deleted   -> [job[j] EXCEPT !.status = "deleted"]
                                      [] OTHER -> job[j]]
          /\ \A j \in compacted : job[j].status \in Terminal
          /\ \A j \in deleted : job[j].status = "pruned"
      BY <1>6 DEF Retain
    <2>2. ASSUME NEW j \in Jobs
          PROVE  /\ job'[j] \in Row /\ RowOK(job'[j]) /\ job'[j].token = job[j].token
                 /\ job'[j].status = "running" =>
                        job[j].status = "running" /\ job'[j].holder = job[j].holder
                 /\ job[j].status = "running" => job'[j].status \in Claimed
      <3>0. job[j] \in Row /\ RowOK(job[j])  OBVIOUS
      <3>1. CASE j \in compacted
        <4>1. job'[j] = [job[j] EXCEPT !.status = "pruned"] /\ job[j].status \in Terminal
          BY <2>1, <3>1 DEF Terminal
        <4> QED  BY <3>0, <4>1 DEF Row, RowOK, Queued, Claimed, Terminal
      <3>2. CASE j \in deleted
        <4>1. job'[j] = [job[j] EXCEPT !.status = "deleted"] /\ job[j].status = "pruned"
          BY <2>1, <3>2 DEF Terminal
        <4> QED  BY <3>0, <4>1 DEF Row, RowOK, Queued, Claimed, Terminal
      <3>3. CASE j \notin compacted \cup deleted
        <4>1. job'[j] = job[j]  BY <2>1, <3>3
        <4> QED  BY <3>0, <4>1 DEF Claimed
      <3> QED  BY <3>1, <3>2, <3>3
    <2> QED  BY <2>1, <2>2 DEF Quiet
  <1>7. ASSUME NEW o \in Owners, Reactivate(o)
        PROVE  /\ Rows' /\ Quiet
               /\ \A i \in Jobs : job[i].status = "running" => job'[i].status \in Claimed
    BY <1>7 DEF Reactivate, Quiet, Claimed
  <1>8. UNCHANGED <<phase, poll, lane, unsaved>> /\ active' \in [Owners -> BOOLEAN]
    BY DEF Outside, Enqueue, Cancel, BackoffEnds, LeaseExpires, Disable, Reactivate, Retain
  <1> QED  BY <1>1, <1>2, <1>3, <1>4, <1>5, <1>6, <1>7, <1>8 DEF Outside

-----------------------------------------------------------------------------
(* Leases.                                                                  *)

(* After the step, all that w tracks it tracked before, in the same lane or *)
(* in its poll.                                                             *)
NoNewTracks(w) ==
    /\ poll'[w].at = "claimed" => poll'[w] = poll[w]
    /\ \A l \in Lanes : lane'[w][l].does # "nothing" =>
          \/ /\ lane[w][l].does # "nothing"
             /\ lane'[w][l].job = lane[w][l].job /\ lane'[w][l].token = lane[w][l].token
          \/ /\ poll[w].at = "claimed"
             /\ lane'[w][l].job = poll[w].job /\ lane'[w][l].token = poll[w].token

OthersRest(w) ==
    \A v \in Workers \ {w} : /\ phase'[v] = phase[v] /\ poll'[v] = poll[v] /\ lane'[v] = lane[v]
                             /\ v \in unsaved' <=> v \in unsaved

(* A quiet step of one worker that tracks nothing new keeps the invariant   *)
(* if what the worker still holds it still tracks.                          *)
LEMMA QuietStepKeepsLeases ==
    ASSUME IInv, Quiet, NEW w \in Workers, OthersRest(w), NoNewTracks(w),
           phase'[w] = "draining" => \A l \in Lanes : lane'[w][l].does # "run",
           TracksLeases(w)'
    PROVE  LeaseInv'
  <1> USE DEF IInv, LeaseInv, TracksLeases
  <1>1. LeaseTracked'
    <2> SUFFICES ASSUME NEW v \in Workers, NEW j \in Jobs, v # w,
                        job'[j].status = "running", job'[j].holder = v,
                        phase'[v] # "dead", v \notin unsaved'
                 PROVE  Alive(v)' /\ Tracks(v, j)'
      BY DEF LeaseTracked
    <2>1. /\ phase'[v] = phase[v] /\ poll'[v] = poll[v] /\ lane'[v] = lane[v]
          /\ v \notin unsaved
      BY DEF OthersRest
    <2>2. /\ job[j].status = "running" /\ job[j].holder = v /\ job'[j].token = job[j].token
      BY DEF Quiet
    <2>3. Alive(v) /\ Tracks(v, j)  BY <2>1, <2>2 DEF LeaseTracked
    <2> QED  BY <2>1, <2>2, <2>3 DEF Alive, Tracks, Given, Holds
  <1>2. TrackerHolds'
    <2> SUFFICES ASSUME NEW v \in Workers, NEW j \in Jobs,
                        job'[j].status = "running", Tracks(v, j)'
                 PROVE  job'[j].holder = v
      BY DEF TrackerHolds
    <2>1. /\ job[j].status = "running" /\ job'[j].holder = job[j].holder
          /\ job'[j].token = job[j].token
      BY DEF Quiet
    <2>2. CASE v = w
      <3>1. Tracks(w, j)  BY <2>1, <2>2 DEF NoNewTracks, Tracks, Given, Holds
      <3> QED  BY <2>1, <2>2, <3>1 DEF TrackerHolds
    <2>3. CASE v # w
      <3>1. Tracks(v, j)  BY <2>1, <2>3 DEF OthersRest, Tracks, Given, Holds
      <3> QED  BY <2>1, <3>1 DEF TrackerHolds
    <2> QED  BY <2>2, <2>3
  <1>3. TokensPast'
    <2> SUFFICES ASSUME NEW v \in Workers, NEW j \in Jobs
                 PROVE  /\ poll'[v].at = "claimed" /\ poll'[v].job = j => poll'[v].token <= job'[j].token
                        /\ \A l \in Lanes : lane'[v][l].does # "nothing" /\ lane'[v][l].job = j
                                               => lane'[v][l].token <= job'[j].token
      BY DEF TokensPast
    <2>1. job'[j].token = job[j].token  BY DEF Quiet
    <2>2. CASE v = w
      BY <2>1, <2>2 DEF NoNewTracks, TokensPast
    <2>3. CASE v # w
      BY <2>1, <2>3 DEF OthersRest, TokensPast
    <2> QED  BY <2>2, <2>3
  <1>4. NoLateRun'
    BY DEF NoLateRun, OthersRest
  <1> QED  BY <1>1, <1>2, <1>3, <1>4

(* The steps outside the workers.                                           *)
LEMMA OutsideKeepsIInv ==
    ASSUME IInv, Outside
    PROVE  IInv'
  <1>1. Rows /\ active \in [Owners -> BOOLEAN]  BY DEF IInv, Rows, Typed
  <1>2. /\ Rows' /\ Quiet /\ active' \in [Owners -> BOOLEAN]
        /\ UNCHANGED <<phase, poll, lane, unsaved>>
    BY <1>1, OutsideIsQuiet
  <1>3. Typed' /\ ClaimNamed' /\ RowsOK'
    BY <1>2 DEF IInv, Typed, ClaimNamed, Rows
  <1>4. LeaseInv'
    <2>1. CASE Workers = {}
      BY <2>1 DEF LeaseInv, LeaseTracked, TrackerHolds, TokensPast, NoLateRun
    <2>2. ASSUME NEW w \in Workers PROVE LeaseInv'
      <3>1. OthersRest(w)  BY <1>2 DEF OthersRest
      <3>2. NoNewTracks(w)  BY <1>2 DEF NoNewTracks
      <3>3. phase'[w] = "draining" => \A l \in Lanes : lane'[w][l].does # "run"
        BY <1>2 DEF IInv, LeaseInv, NoLateRun
      <3>4. TracksLeases(w)'
        <4> SUFFICES ASSUME NEW j \in Jobs, job'[j].status = "running", job'[j].holder = w,
                            phase'[w] # "dead", w \notin unsaved'
                     PROVE  Alive(w)' /\ Tracks(w, j)'
          BY DEF TracksLeases
        <4>1. /\ job[j].status = "running" /\ job[j].holder = w /\ job'[j].token = job[j].token
          BY <1>2 DEF Quiet
        <4>2. phase[w] # "dead" /\ w \notin unsaved  BY <1>2
        <4>3. Alive(w) /\ Tracks(w, j)  BY <4>1, <4>2 DEF IInv, LeaseInv, LeaseTracked, TracksLeases
        <4> QED  BY <1>2, <4>1, <4>3 DEF Alive, Tracks, Given, Holds
      <3> QED  BY <1>2, <3>1, <3>2, <3>3, <3>4, QuietStepKeepsLeases
    <2> QED  BY <2>1, <2>2
  <1> QED  BY <1>3, <1>4 DEF IInv

(* A step that leaves the rows alone is quiet.                              *)
LEMMA SameRowsAreQuiet ==
    ASSUME Rows, job' = job
    PROVE  Rows' /\ Quiet
  BY DEF Rows, RowsOK, Quiet

(* A worker's quiet step keeps the whole invariant.                         *)
LEMMA QuietStepKeepsIInv ==
    ASSUME IInv, Rows', Quiet, UNCHANGED active, NEW w \in Workers,
           phase' \in [Workers -> {"down", "up", "stopping", "draining", "drained", "dead"}],
           poll' \in [Workers -> Poll], lane' \in [Workers -> [Lanes -> Lane]],
           unsaved' \subseteq Workers,
           poll'[w].at \in {"claiming", "claimed"} => poll'[w].job \in Jobs,
           OthersRest(w), NoNewTracks(w),
           phase'[w] = "draining" => \A l \in Lanes : lane'[w][l].does # "run",
           TracksLeases(w)'
    PROVE  IInv'
  <1>1. LeaseInv'  BY QuietStepKeepsLeases
  <1>2. ClaimNamed'
    <2> SUFFICES ASSUME NEW v \in Workers
                 PROVE  /\ poll'[v].at \in {"claiming", "claimed"} => poll'[v].job \in Jobs
                        /\ \A l \in Lanes : lane'[v][l].does # "nothing" => lane'[v][l].job \in Jobs
      BY DEF ClaimNamed
    <2>1. CASE v = w  BY <2>1 DEF IInv, ClaimNamed, NoNewTracks
    <2>2. CASE v # w  BY <2>2 DEF IInv, ClaimNamed, OthersRest
    <2> QED  BY <2>1, <2>2
  <1>3. Typed' /\ RowsOK'  BY DEF IInv, Typed, Rows
  <1> QED  BY <1>1, <1>2, <1>3 DEF IInv

(* The invariant in the parts the steps of one worker use.                  *)
LEMMA PartsOfIInv ==
    ASSUME IInv, NEW w \in Workers
    PROVE  /\ Rows /\ poll[w] \in Poll /\ lane[w] \in [Lanes -> Lane]
           /\ phase \in [Workers -> {"down", "up", "stopping", "draining", "drained", "dead"}]
           /\ poll \in [Workers -> Poll] /\ lane \in [Workers -> [Lanes -> Lane]]
           /\ unsaved \subseteq Workers
           /\ poll[w].at \in {"claiming", "claimed"} => poll[w].job \in Jobs
           /\ \A l \in Lanes : lane[w][l].does # "nothing" => lane[w][l].job \in Jobs
           /\ TracksLeases(w)
           /\ phase[w] = "draining" => \A l \in Lanes : lane[w][l].does # "run"
           /\ \A free : Turn(w, free) \in [Workers -> Poll]
  BY DEF IInv, Typed, Rows, ClaimNamed, LeaseInv, LeaseTracked, NoLateRun, Turn, Poll, NoPoll

(* A started worker or a new turn of the poll recovers expired leases.      *)
LEMMA RecoveryKeepsIInv ==
    ASSUME IInv, NEW w \in Workers, Boot(w) \/ PollBegins(w)
    PROVE  IInv'
  <1>1. job' = Recovery /\ UNCHANGED <<active, lane, unsaved>>  BY DEF Boot, PollBegins
  <1>2. Rows' /\ Quiet  BY <1>1, PartsOfIInv, RecoveryIsQuiet
  <1>3. /\ phase' \in [Workers -> {"down", "up", "stopping", "draining", "drained", "dead"}]
        /\ poll' \in [Workers -> Poll]
        /\ phase'[w] = "up"
        /\ poll'[w] = poll[w] \/ (poll[w].at = "idle" /\ poll'[w].at \in {"idle", "asking"})
        /\ poll'[w].at \in {"claiming", "claimed"} => poll'[w].job \in Jobs
    <2>0. /\ phase \in [Workers -> {"down", "up", "stopping", "draining", "drained", "dead"}]
          /\ poll \in [Workers -> Poll] /\ Turn(w, FreeLanes(w)) \in [Workers -> Poll]
          /\ poll[w].at \in {"claiming", "claimed"} => poll[w].job \in Jobs
      BY PartsOfIInv
    <2>1. CASE Boot(w)
      BY <2>0, <2>1 DEF Boot
    <2>2. CASE PollBegins(w)
      <3>1. poll'[w].at \in {"idle", "asking"}
        BY <2>0, <2>2 DEF PollBegins, Turn, NoPoll
      <3> QED  BY <2>0, <2>2, <3>1 DEF PollBegins
    <2> QED  BY <2>1, <2>2
  <1>4. OthersRest(w)  BY <1>1, PartsOfIInv DEF Boot, PollBegins, Turn, OthersRest
  <1>5. NoNewTracks(w)  BY <1>1, <1>3 DEF NoNewTracks
  <1>6. TracksLeases(w)'
    <2> SUFFICES ASSUME NEW j \in Jobs, job'[j].status = "running", job'[j].holder = w,
                        phase'[w] # "dead", w \notin unsaved'
                 PROVE  Alive(w)' /\ Tracks(w, j)'
      BY DEF TracksLeases
    <2>1. /\ job[j].status = "running" /\ job[j].holder = w /\ job'[j].token = job[j].token
      BY <1>2 DEF Quiet
    <2>2. phase[w] # "dead" /\ w \notin unsaved  BY <1>1 DEF Boot, PollBegins
    <2>3. Tracks(w, j)  BY <2>1, <2>2, PartsOfIInv DEF TracksLeases
    <2> QED  BY <1>1, <1>3, <2>1, <2>3 DEF Alive, Tracks, Given, Holds
  <1> QED  BY <1>1, <1>2, <1>3, <1>4, <1>5, <1>6, PartsOfIInv, QuietStepKeepsIInv

(* A poll that loses its claim, or never gets one, tracks nothing; a claim  *)
(* it lost is on the books of unsaved.                                      *)
LEMMA PollMovesKeepIInv ==
    ASSUME IInv, NEW w \in Workers,
           (\E j \in Jobs : ClaimBegins(w, j)) \/ ClaimsNothing(w) \/ ClaimIsLost(w)
    PROVE  IInv'
  <1>0. /\ Rows /\ poll[w] \in Poll /\ poll \in [Workers -> Poll] /\ TracksLeases(w)
        /\ phase[w] = "draining" => \A l \in Lanes : lane[w][l].does # "run"
    BY PartsOfIInv
  <1>1. /\ UNCHANGED <<job, active, phase, lane>> /\ unsaved' \subseteq unsaved \cup {w}
        /\ unsaved \subseteq unsaved' /\ (poll[w].at = "claimed" => w \in unsaved')
    BY DEF ClaimBegins, ClaimsNothing, ClaimIsLost
  <1>2. Rows' /\ Quiet  BY <1>0, <1>1, SameRowsAreQuiet
  <1>3. /\ poll' \in [Workers -> Poll]
        /\ \A v \in Workers \ {w} : poll'[v] = poll[v]
        /\ poll'[w].at \in {"idle", "claiming"} /\ (poll'[w].at = "claiming" => poll'[w].job \in Jobs)
    <2>1. ASSUME NEW j \in Jobs, ClaimBegins(w, j)
          PROVE  /\ poll' \in [Workers -> Poll]
                 /\ \A v \in Workers \ {w} : poll'[v] = poll[v]
                 /\ poll'[w].at = "claiming" /\ poll'[w].job \in Jobs
      <3> DEFINE others == {i \in Of(OwnerOf[j]) \ {j} : job[i].status \in Queued}
      <3>1. poll' = [poll EXCEPT ![w] = [poll[w] EXCEPT !.at = "claiming", !.job = j, !.seen = others]]
        BY <2>1 DEF ClaimBegins
      <3>2. others \in SUBSET Jobs  BY DEF Of
      <3> HIDE DEF others
      <3>3. [poll[w] EXCEPT !.at = "claiming", !.job = j, !.seen = others] \in Poll
        BY <1>0, <3>2 DEF Poll
      <3> QED  BY <1>0, <3>1, <3>3 DEF Poll
    <2>2. CASE ClaimsNothing(w) \/ ClaimIsLost(w)
      <3>1. poll' = [poll EXCEPT ![w] = NoPoll]  BY <2>2 DEF ClaimsNothing, ClaimIsLost
      <3>2. NoPoll \in Poll /\ NoPoll.at = "idle"  BY DEF NoPoll, Poll
      <3> QED  BY <1>0, <3>1, <3>2
    <2> QED  BY <2>1, <2>2
  <1>4. OthersRest(w)  BY <1>1, <1>3 DEF OthersRest
  <1>5. NoNewTracks(w)  BY <1>1, <1>3 DEF NoNewTracks
  <1>6. TracksLeases(w)'
    BY <1>0, <1>1 DEF TracksLeases, Alive, Tracks, Given, Holds
  <1> QED  BY <1>0, <1>1, <1>2, <1>3, <1>4, <1>5, <1>6, PartsOfIInv, QuietStepKeepsIInv

(* A launched execution takes over the claim the poll was given.            *)
LEMMA LaunchKeepsIInv ==
    ASSUME IInv, NEW w \in Workers, NEW l \in Lanes, NEW does \in {"run", "fail", "retry"},
           Launch(w, l, does)
    PROVE  IInv'
  <1> DEFINE started == [does |-> does, job |-> poll[w].job, token |-> poll[w].token]
  <1>0. /\ Rows /\ poll[w] \in Poll /\ lane[w] \in [Lanes -> Lane] /\ TracksLeases(w)
        /\ poll \in [Workers -> Poll] /\ lane \in [Workers -> [Lanes -> Lane]]
        /\ Turn(w, FreeLanes(w) \ {l}) \in [Workers -> Poll]
    BY PartsOfIInv
  <1>1. /\ UNCHANGED <<job, active, phase, unsaved>> /\ phase[w] = "up"
        /\ poll[w].at = "claimed" /\ lane[w][l].does = "nothing"
        /\ lane' = [lane EXCEPT ![w][l] = started]
        /\ poll' = Turn(w, FreeLanes(w) \ {l})
    BY DEF Launch, Launches, FreeLanes
  <1>2. Rows' /\ Quiet  BY <1>0, <1>1, SameRowsAreQuiet
  <1>3. /\ poll' \in [Workers -> Poll] /\ poll'[w].at \in {"idle", "asking"}
        /\ \A v \in Workers \ {w} : poll'[v] = poll[v]
    BY <1>0, <1>1 DEF Turn, NoPoll
  <1>4. /\ lane' \in [Workers -> [Lanes -> Lane]]
        /\ \A v \in Workers \ {w} : lane'[v] = lane[v]
        /\ lane'[w][l] = started /\ \A m \in Lanes \ {l} : lane'[w][m] = lane[w][m]
    <2>1. started \in Lane  BY <1>0 DEF Lane, Poll, Endings
    <2> HIDE DEF started
    <2> QED  BY <1>0, <1>1, <2>1
  <1>5. OthersRest(w)  BY <1>1, <1>3, <1>4 DEF OthersRest
  <1>6. NoNewTracks(w)  BY <1>1, <1>3, <1>4 DEF NoNewTracks
  <1>7. TracksLeases(w)'
    <2> SUFFICES ASSUME NEW j \in Jobs, job'[j].status = "running", job'[j].holder = w,
                        phase'[w] # "dead", w \notin unsaved'
                 PROVE  Alive(w)' /\ Tracks(w, j)'
      BY DEF TracksLeases
    <2>1. Alive(w) /\ Tracks(w, j)  BY <1>0, <1>1 DEF TracksLeases
    <2>2. CASE Given(w, j)
      <3>1. /\ lane'[w][l].does # "nothing" /\ lane'[w][l].job = j
            /\ lane'[w][l].token = job'[j].token
        BY <1>1, <1>4, <2>2 DEF Given
      <3> QED  BY <1>1, <2>1, <3>1 DEF Alive, Tracks, Holds
    <2>3. CASE Holds(w, j)
      <3>1. PICK m \in Lanes : /\ lane[w][m].does # "nothing"
                               /\ lane[w][m].job = j /\ lane[w][m].token = job[j].token
        BY <2>3 DEF Holds
      <3>2. lane'[w][m] = lane[w][m]  BY <1>1, <1>4, <3>1
      <3> QED  BY <1>1, <2>1, <3>1, <3>2 DEF Alive, Tracks, Holds
    <2> QED  BY <2>1, <2>2, <2>3 DEF Tracks
  <1> QED  BY <1>0, <1>1, <1>2, <1>3, <1>4, <1>5, <1>6, <1>7, PartsOfIInv, QuietStepKeepsIInv

(* What is fenced off its worker runs no more, so that the worker need not  *)
(* track it.                                                                *)
LEMMA EndedNeedsNoTrack ==
    ASSUME Rows, NEW j \in Jobs, NEW token, NEW ending \in Endings,
           job' = AfterEnding(j, token, ending), job'[j].status = "running"
    PROVE  ~(job[j].status = "running" /\ job[j].token = token) /\ job'[j] = job[j]
  <1>1. ~Fenced(j, token)  BY EndingIsQuiet DEF Claimed
  <1> QED  BY <1>1, EndingIsQuiet DEF Fenced

(* Giving a claim back: the poll tracks it no more, and it runs no more.    *)
LEMMA GiveBackKeepsIInv ==
    ASSUME IInv, NEW w \in Workers, GiveBack(w)
    PROVE  IInv'
  <1>0. /\ Rows /\ poll[w] \in Poll /\ TracksLeases(w) /\ poll[w].job \in Jobs
        /\ phase[w] = "draining" => \A l \in Lanes : lane[w][l].does # "run"
        /\ poll \in [Workers -> Poll]
    BY PartsOfIInv DEF GiveBack
  <1>1. /\ UNCHANGED <<active, phase, lane, unsaved>>
        /\ job' = AfterEnding(poll[w].job, poll[w].token, "requeue")
        /\ poll' = [poll EXCEPT ![w] = NoPoll]
    BY DEF GiveBack
  <1>2. Rows' /\ Quiet  BY <1>0, <1>1, EndingIsQuiet DEF Endings
  <1>3. /\ poll' \in [Workers -> Poll] /\ poll'[w].at = "idle"
        /\ \A v \in Workers \ {w} : poll'[v] = poll[v]
    BY <1>0, <1>1 DEF NoPoll, Poll
  <1>4. OthersRest(w)  BY <1>1, <1>3 DEF OthersRest
  <1>5. NoNewTracks(w)  BY <1>1, <1>3 DEF NoNewTracks
  <1>6. TracksLeases(w)'
    <2> SUFFICES ASSUME NEW j \in Jobs, job'[j].status = "running", job'[j].holder = w,
                        phase'[w] # "dead", w \notin unsaved'
                 PROVE  Alive(w)' /\ Tracks(w, j)'
      BY DEF TracksLeases
    <2>1. /\ job[j].status = "running" /\ job[j].holder = w /\ job'[j].token = job[j].token
      BY <1>2 DEF Quiet
    <2>2. Alive(w) /\ Tracks(w, j)  BY <1>0, <1>1, <2>1 DEF TracksLeases
    <2>3. ~Given(w, j)
      BY <1>0, <1>1, <2>1, EndedNeedsNoTrack DEF Given, Endings
    <2> QED  BY <1>1, <2>1, <2>2, <2>3 DEF Alive, Tracks, Holds
  <1> QED  BY <1>0, <1>1, <1>2, <1>3, <1>4, <1>5, <1>6, PartsOfIInv, QuietStepKeepsIInv

(* An execution ends in its lane: it still holds its lease until the lane   *)
(* is free.                                                                 *)
LEMMA FinishKeepsIInv ==
    ASSUME IInv, NEW w \in Workers, NEW l \in Lanes, NEW ending \in {"complete", "fail", "retry"},
           Finish(w, l, ending)
    PROVE  IInv'
  <1> DEFINE ended == [lane[w][l] EXCEPT !.does = ending]
  <1>0. /\ Rows /\ poll[w] \in Poll /\ lane[w] \in [Lanes -> Lane] /\ TracksLeases(w)
        /\ lane \in [Workers -> [Lanes -> Lane]]
        /\ phase[w] = "draining" => \A m \in Lanes : lane[w][m].does # "run"
    BY PartsOfIInv
  <1>1. /\ UNCHANGED <<job, active, phase, poll, unsaved>> /\ lane[w][l].does = "run"
        /\ lane' = [lane EXCEPT ![w][l] = ended]
    BY <1>0 DEF Finish
  <1>2. Rows' /\ Quiet  BY <1>0, <1>1, SameRowsAreQuiet
  <1>3. ended \in Lane /\ ended.does = ending /\ ended.job = lane[w][l].job /\ ended.token = lane[w][l].token
    BY <1>0 DEF Lane, Endings
  <1> HIDE DEF ended
  <1>4. /\ lane' \in [Workers -> [Lanes -> Lane]]
        /\ \A v \in Workers \ {w} : lane'[v] = lane[v]
        /\ lane'[w][l] = ended /\ \A m \in Lanes \ {l} : lane'[w][m] = lane[w][m]
    BY <1>0, <1>1, <1>3
  <1>5. OthersRest(w)  BY <1>1, <1>4 DEF OthersRest
  <1>6. NoNewTracks(w)  BY <1>1, <1>3, <1>4 DEF NoNewTracks
  <1>7. \A m \in Lanes : /\ lane'[w][m].job = lane[w][m].job
                         /\ lane'[w][m].token = lane[w][m].token
                         /\ lane[w][m].does # "nothing" => lane'[w][m].does # "nothing"
                         /\ lane'[w][m].does = "run" => lane[w][m].does = "run"
    BY <1>1, <1>3, <1>4
  <1>8. TracksLeases(w)'
    BY <1>0, <1>1, <1>7 DEF TracksLeases, Alive, Tracks, Given, Holds
  <1> QED  BY <1>0, <1>1, <1>2, <1>4, <1>5, <1>6, <1>7, <1>8, PartsOfIInv, QuietStepKeepsIInv

(* The update of an ending frees its lane: the job runs no more, or it was  *)
(* no longer this execution's, or the failure is on the books of unsaved.   *)
LEMMA WriteKeepsIInv ==
    ASSUME IInv, NEW w \in Workers, NEW l \in Lanes, Write(w, l) \/ WriteFails(w, l)
    PROVE  IInv'
  <1> DEFINE mine == lane[w][l]
  <1>0. /\ Rows /\ poll[w] \in Poll /\ lane[w] \in [Lanes -> Lane] /\ TracksLeases(w)
        /\ lane \in [Workers -> [Lanes -> Lane]]
        /\ phase[w] = "draining" => \A m \in Lanes : lane[w][m].does # "run"
    BY PartsOfIInv
  <1>1. /\ UNCHANGED <<active, phase, poll>> /\ mine.does \in Endings /\ mine \in Lane /\ mine.job \in Jobs
        /\ lane' = [lane EXCEPT ![w][l] = FreeLane]
        /\ unsaved \subseteq unsaved' /\ unsaved' \subseteq unsaved \cup {w}
    BY <1>0, PartsOfIInv DEF Write, WriteFails, Endings
  <1>2. \/ w \in unsaved' /\ job' = job
        \/ job' = AfterEnding(mine.job, mine.token, mine.does)
    BY DEF Write, WriteFails
  <1>3. Rows' /\ Quiet
    <2>1. CASE job' = job
      BY <1>0, <2>1, SameRowsAreQuiet
    <2>2. CASE mine.job \in Jobs /\ job' = AfterEnding(mine.job, mine.token, mine.does)
      BY <1>0, <1>1, <2>2, EndingIsQuiet
    <2> QED  BY <1>1, <1>2, <2>1, <2>2
  <1>4. /\ lane' \in [Workers -> [Lanes -> Lane]]
        /\ \A v \in Workers \ {w} : lane'[v] = lane[v]
        /\ lane'[w][l].does = "nothing" /\ \A m \in Lanes \ {l} : lane'[w][m] = lane[w][m]
    <2>1. FreeLane \in Lane /\ FreeLane.does = "nothing"  BY DEF FreeLane, Lane
    <2> QED  BY <1>0, <1>1, <2>1
  <1>5. OthersRest(w)  BY <1>1, <1>4 DEF OthersRest
  <1>6. NoNewTracks(w)  BY <1>1, <1>4 DEF NoNewTracks
  <1>7. TracksLeases(w)'
    <2> SUFFICES ASSUME NEW j \in Jobs, job'[j].status = "running", job'[j].holder = w,
                        phase'[w] # "dead", w \notin unsaved'
                 PROVE  Alive(w)' /\ Tracks(w, j)'
      BY DEF TracksLeases
    <2>1. /\ job[j].status = "running" /\ job[j].holder = w /\ job'[j].token = job[j].token
      BY <1>3 DEF Quiet
    <2>2. Alive(w) /\ Tracks(w, j)  BY <1>0, <1>1, <2>1 DEF TracksLeases
    <2>3. ~(mine.job = j /\ mine.token = job[j].token)
      <3>1. job' = AfterEnding(mine.job, mine.token, mine.does)  BY <1>2
      <3> QED  BY <1>0, <1>1, <2>1, <3>1, EndedNeedsNoTrack
    <2>4. CASE Given(w, j)
      BY <1>1, <2>1, <2>2, <2>4 DEF Alive, Tracks, Given
    <2>5. CASE Holds(w, j)
      <3>1. PICK m \in Lanes : /\ lane[w][m].does # "nothing"
                               /\ lane[w][m].job = j /\ lane[w][m].token = job[j].token
        BY <2>5 DEF Holds
      <3>2. m # l /\ lane'[w][m] = lane[w][m]  BY <1>4, <2>3, <3>1
      <3> QED  BY <1>1, <2>1, <2>2, <3>1, <3>2 DEF Alive, Tracks, Holds
    <2> QED  BY <2>2, <2>4, <2>5 DEF Tracks
  <1> QED  BY <1>0, <1>1, <1>3, <1>4, <1>5, <1>6, <1>7, PartsOfIInv, QuietStepKeepsIInv

(* Stopping takes nothing off the lanes, and a worker that leaves in order  *)
(* has nothing left in them; one that dies is excused.                      *)
LEMMA LeavingKeepsIInv ==
    ASSUME IInv, NEW w \in Workers, Leaves(w)
    PROVE  IInv'
  <1>0. /\ Rows /\ poll[w] \in Poll /\ lane[w] \in [Lanes -> Lane] /\ TracksLeases(w)
        /\ phase \in [Workers -> {"down", "up", "stopping", "draining", "drained", "dead"}]
        /\ poll \in [Workers -> Poll] /\ lane \in [Workers -> [Lanes -> Lane]]
        /\ poll[w].at \in {"claiming", "claimed"} => poll[w].job \in Jobs
        /\ phase[w] = "draining" => \A m \in Lanes : lane[w][m].does # "run"
    BY PartsOfIInv
  <1>1. UNCHANGED <<job, active, unsaved>>
    BY DEF Leaves, Signal, StopActive, Drained, Dies
  <1>2. Rows' /\ Quiet  BY <1>0, <1>1, SameRowsAreQuiet
  <1>3. FreeLane \in Lane /\ FreeLane.does = "nothing" /\ NoPoll \in Poll /\ NoPoll.at = "idle"
    BY DEF FreeLane, Lane, NoPoll, Poll
  <1>4. CASE Signal(w)
    <2>1. /\ UNCHANGED <<poll, lane>> /\ phase[w] = "up" /\ phase' = [phase EXCEPT ![w] = "stopping"]
      BY <1>4 DEF Signal
    <2>2. OthersRest(w) /\ NoNewTracks(w)  BY <1>0, <1>1, <2>1 DEF OthersRest, NoNewTracks
    <2>3. TracksLeases(w)'
      BY <1>0, <1>1, <2>1 DEF TracksLeases, Alive, Tracks, Given, Holds
    <2> QED  BY <1>0, <1>1, <1>2, <2>1, <2>2, <2>3, PartsOfIInv, QuietStepKeepsIInv
  <1>5. CASE StopActive(w)
    <2> DEFINE asked(l) == IF lane[w][l].does = "run" THEN [lane[w][l] EXCEPT !.does = "requeue"]
                           ELSE lane[w][l]
    <2>1. /\ UNCHANGED poll /\ phase[w] = "stopping" /\ phase' = [phase EXCEPT ![w] = "draining"]
          /\ lane' = [lane EXCEPT ![w] = [l \in Lanes |-> asked(l)]]
      BY <1>5 DEF StopActive
    <2>2. ASSUME NEW l \in Lanes
          PROVE  /\ asked(l) \in Lane /\ asked(l).does # "run"
                 /\ asked(l).job = lane[w][l].job /\ asked(l).token = lane[w][l].token
                 /\ asked(l).does # "nothing" <=> lane[w][l].does # "nothing"
      BY <1>0 DEF Lane, Endings
    <2> HIDE DEF asked
    <2>3. /\ lane' \in [Workers -> [Lanes -> Lane]]
          /\ \A v \in Workers \ {w} : lane'[v] = lane[v]
          /\ \A l \in Lanes : lane'[w][l] = asked(l)
      BY <1>0, <2>1, <2>2
    <2>4. OthersRest(w) /\ NoNewTracks(w)
      BY <1>0, <1>1, <2>1, <2>2, <2>3 DEF OthersRest, NoNewTracks
    <2>5. TracksLeases(w)'
      BY <1>0, <1>1, <2>1, <2>2, <2>3 DEF TracksLeases, Alive, Tracks, Given, Holds
    <2> QED  BY <1>0, <1>1, <1>2, <2>1, <2>2, <2>3, <2>4, <2>5, PartsOfIInv, QuietStepKeepsIInv
  <1>6. CASE Drained(w)
    <2>1. /\ UNCHANGED poll /\ phase[w] = "draining" /\ phase' = [phase EXCEPT ![w] = "drained"]
          /\ poll[w].at = "idle" /\ \A l \in Lanes : lane[w][l].does \notin Endings
          /\ lane' = [lane EXCEPT ![w] = [l \in Lanes |-> FreeLane]]
      BY <1>6 DEF Drained, Settled
    <2>2. \A l \in Lanes : lane[w][l].does = "nothing"  BY <1>0, <2>1 DEF Lane
    <2>3. /\ lane' \in [Workers -> [Lanes -> Lane]]
          /\ \A v \in Workers \ {w} : lane'[v] = lane[v]
          /\ \A l \in Lanes : lane'[w][l].does = "nothing"
      BY <1>0, <1>3, <2>1
    <2>4. OthersRest(w) /\ NoNewTracks(w)
      BY <1>0, <1>1, <2>1, <2>3 DEF OthersRest, NoNewTracks
    <2>5. \A j \in Jobs : ~Tracks(w, j)  BY <2>1, <2>2 DEF Tracks, Given, Holds
    <2>6. TracksLeases(w)'
      BY <1>0, <1>1, <2>1, <2>5 DEF TracksLeases
    <2> QED  BY <1>0, <1>1, <1>2, <2>1, <2>3, <2>4, <2>6, PartsOfIInv, QuietStepKeepsIInv
  <1>7. CASE Dies(w)
    <2>1. /\ phase' = [phase EXCEPT ![w] = "dead"] /\ poll' = [poll EXCEPT ![w] = NoPoll]
          /\ lane' = [lane EXCEPT ![w] = [l \in Lanes |-> FreeLane]]
      BY <1>7 DEF Dies
    <2>2. /\ lane' \in [Workers -> [Lanes -> Lane]] /\ poll' \in [Workers -> Poll]
          /\ \A v \in Workers \ {w} : lane'[v] = lane[v] /\ poll'[v] = poll[v]
          /\ \A l \in Lanes : lane'[w][l].does = "nothing"
          /\ poll'[w].at = "idle" /\ phase'[w] = "dead"
      BY <1>0, <1>3, <2>1
    <2>3. OthersRest(w) /\ NoNewTracks(w)
      BY <1>0, <1>1, <2>1, <2>2 DEF OthersRest, NoNewTracks
    <2>4. TracksLeases(w)'  BY <2>2 DEF TracksLeases
    <2> QED  BY <1>0, <1>1, <1>2, <2>1, <2>2, <2>3, <2>4, PartsOfIInv, QuietStepKeepsIInv
  <1> QED  BY <1>4, <1>5, <1>6, <1>7 DEF Leaves

(* A claim makes a running row of the worker's, with a new token.           *)
LEMMA ClaimedIsOK ==
    ASSUME NEW row \in Row, NEW w \in Workers, row.attempt < MaxAttempts
    PROVE  LET new == ClaimedBy(row, w) IN
           /\ new \in Row /\ RowOK(new) /\ new.status = "running" /\ new.holder = w
           /\ new.token = row.token + 1 /\ row.token \in Nat
  <1>1. row.attempt + 1 \in 0 .. MaxAttempts /\ row.token \in Nat /\ row.token + 1 \in Nat
    BY JobsAssumption DEF Row
  <1> QED  BY <1>1 DEF ClaimedBy, Row, RowOK, Queued, Claimed

(* A claim raises the token of its row past every token in the workers: who *)
(* tracked the row tracks it no more, and the claiming worker's poll does.  *)
LEMMA ClaimKeepsIInv ==
    ASSUME IInv, NEW w \in Workers, ClaimEnds(w)
    PROVE  IInv'
  <1> DEFINE c == poll[w].job
             row == ClaimedBy(job[c], w)
             given == [at |-> "claimed", job |-> c, seen |-> {}, token |-> job[c].token + 1]
  <1>0. /\ Rows /\ c \in Jobs /\ poll \in [Workers -> Poll]
        /\ job[c] \in Row /\ job[c].attempt \in Nat /\ job[c].attempt < MaxAttempts
        /\ Alive(w) /\ MaxAttempts \in Nat
    <2>1. Rows /\ c \in Jobs /\ poll \in [Workers -> Poll]  BY PartsOfIInv DEF ClaimEnds
    <2> QED  BY <2>1, JobsAssumption DEF ClaimEnds, Admits, Rows, Row
  <1>1. /\ UNCHANGED <<active, phase, lane, unsaved>>
        /\ job' = [job EXCEPT ![c] = row] /\ poll' = [poll EXCEPT ![w] = given]
    BY DEF ClaimEnds
  <1>2. /\ row \in Row /\ RowOK(row) /\ row.status = "running" /\ row.holder = w
        /\ row.token = job[c].token + 1 /\ job[c].token \in Nat
    BY <1>0, ClaimedIsOK
  <1>3. given \in Poll /\ given.at = "claimed" /\ given.job = c /\ given.token = job[c].token + 1
    BY <1>0, <1>2 DEF Poll
  <1> HIDE DEF row, given
  <1>4. /\ Rows' /\ job'[c] = row /\ \A j \in Jobs \ {c} : job'[j] = job[j]
    BY <1>0, <1>1, <1>2 DEF Rows, RowsOK
  <1>5. /\ poll' \in [Workers -> Poll] /\ poll'[w] = given
        /\ \A v \in Workers \ {w} : poll'[v] = poll[v]
    BY <1>0, <1>1, <1>3
  <1>6. Typed' /\ RowsOK' /\ ClaimNamed'
    BY <1>0, <1>1, <1>3, <1>4, <1>5 DEF IInv, Typed, ClaimNamed, Rows
  <1>7. ASSUME NEW v \in Workers
        PROVE  /\ poll[v].at = "claimed" /\ poll[v].job = c => poll[v].token < row.token
               /\ \A l \in Lanes : lane[v][l].does # "nothing" /\ lane[v][l].job = c
                                      => lane[v][l].token < row.token
    <2>1. poll[v] \in Poll /\ lane[v] \in [Lanes -> Lane]  BY PartsOfIInv
    <2>2. /\ poll[v].token \in Nat /\ \A l \in Lanes : lane[v][l].token \in Nat
      BY <2>1 DEF Poll, Lane
    <2>3. /\ poll[v].at = "claimed" /\ poll[v].job = c => poll[v].token <= job[c].token
          /\ \A l \in Lanes : lane[v][l].does # "nothing" /\ lane[v][l].job = c
                                 => lane[v][l].token <= job[c].token
      BY <1>0 DEF IInv, LeaseInv, TokensPast
    <2> QED  BY <1>2, <2>2, <2>3
  <1>8. LeaseTracked'
    <2> SUFFICES ASSUME NEW v \in Workers, NEW j \in Jobs,
                        job'[j].status = "running", job'[j].holder = v,
                        phase'[v] # "dead", v \notin unsaved'
                 PROVE  Alive(v)' /\ Tracks(v, j)'
      BY DEF LeaseTracked, TracksLeases
    <2>1. CASE j = c
      <3>1. v = w  BY <1>2, <1>4, <2>1
      <3> QED  BY <1>0, <1>1, <1>2, <1>3, <1>4, <1>5, <2>1, <3>1 DEF Alive, Tracks, Given
    <2>2. CASE j # c
      <3>1. Alive(v) /\ Tracks(v, j)
        BY <1>1, <1>4, <2>2, PartsOfIInv DEF TracksLeases
      <3>2. ~Given(w, j)  BY <2>2 DEF Given
      <3> QED  BY <1>1, <1>4, <1>5, <2>2, <3>1, <3>2 DEF Alive, Tracks, Given, Holds
    <2> QED  BY <2>1, <2>2
  <1>9. TrackerHolds'
    <2> SUFFICES ASSUME NEW v \in Workers, NEW j \in Jobs,
                        job'[j].status = "running", Tracks(v, j)'
                 PROVE  job'[j].holder = v
      BY DEF TrackerHolds
    <2>1. CASE j = c
      <3>1. ~Holds(v, j)'
        <4>1. \A l \in Lanes : lane[v][l].token \in Nat
          BY PartsOfIInv DEF Lane
        <4>2. row.token \in Nat  BY <1>2
        <4> QED  BY <1>1, <1>4, <1>7, <2>1, <4>1, <4>2 DEF Holds
      <3>2. CASE v # w
        <4>1. poll[v].token \in Nat  BY PartsOfIInv DEF Poll
        <4>2. row.token \in Nat  BY <1>2
        <4> QED  BY <1>4, <1>5, <1>7, <2>1, <3>1, <3>2, <4>1, <4>2 DEF Tracks, Given
      <3> QED  BY <1>2, <1>4, <2>1, <3>2
    <2>2. CASE j # c
      <3>1. ~(v = w /\ Given(v, j)')  BY <1>3, <1>5, <2>2 DEF Given
      <3>2. Tracks(v, j)  BY <1>1, <1>4, <1>5, <2>2, <3>1 DEF Tracks, Given, Holds
      <3> QED  BY <1>4, <2>2, <3>2 DEF IInv, LeaseInv, TrackerHolds
    <2> QED  BY <2>1, <2>2
  <1>10. TokensPast'
    <2> SUFFICES ASSUME NEW v \in Workers, NEW j \in Jobs
                 PROVE  /\ poll'[v].at = "claimed" /\ poll'[v].job = j => poll'[v].token <= job'[j].token
                        /\ \A l \in Lanes : lane'[v][l].does # "nothing" /\ lane'[v][l].job = j
                                               => lane'[v][l].token <= job'[j].token
      BY DEF TokensPast
    <2>0. /\ poll[v].token \in Nat /\ \A l \in Lanes : lane[v][l].token \in Nat
          /\ row.token \in Nat
      BY <1>2, PartsOfIInv DEF Poll, Lane
    <2>1. CASE j = c
      <3>1. CASE v = w
        BY <1>1, <1>2, <1>3, <1>4, <1>5, <1>7, <2>0, <2>1, <3>1
      <3>2. CASE v # w
        BY <1>1, <1>4, <1>5, <1>7, <2>0, <2>1, <3>2
      <3> QED  BY <3>1, <3>2
    <2>2. CASE j # c
      BY <1>1, <1>3, <1>4, <1>5, <2>2 DEF IInv, LeaseInv, TokensPast
    <2> QED  BY <2>1, <2>2
  <1>11. NoLateRun'  BY <1>1 DEF IInv, LeaseInv, NoLateRun
  <1> QED  BY <1>6, <1>8, <1>9, <1>10, <1>11 DEF IInv, LeaseInv

-----------------------------------------------------------------------------
(* Before the first request no row, claim or execution exists.              *)
LEMMA InitIInv == Init => IInv
  <1> SUFFICES ASSUME Init PROVE IInv
    OBVIOUS
  <1>1. NoRow \in Row /\ RowOK(NoRow) /\ NoRow.status = "none" /\ ~NoRow.cancel
    BY JobsAssumption DEF NoRow, Row, RowOK, Queued
  <1>2. NoPoll \in Poll /\ NoPoll.at = "idle" /\ FreeLane \in Lane /\ FreeLane.does = "nothing"
    BY DEF NoPoll, Poll, FreeLane, Lane
  <1>3. /\ \A j \in Jobs : job[j] = NoRow
        /\ \A w \in Workers : /\ phase[w] = "down" /\ poll[w] = NoPoll
                              /\ \A l \in Lanes : lane[w][l] = FreeLane
    BY DEF Init
  <1>4. Typed  BY <1>1, <1>2 DEF Init, Typed
  <1>5. ClaimNamed /\ RowsOK  BY <1>1, <1>2, <1>3 DEF ClaimNamed, RowsOK
  <1>6. LeaseInv
    BY <1>1, <1>2, <1>3
       DEF LeaseInv, LeaseTracked, TracksLeases, TrackerHolds, Tracks, Given, Holds, TokensPast, NoLateRun
  <1> QED  BY <1>4, <1>5, <1>6 DEF IInv

(* Every step, or none, keeps the invariant.                                *)
LEMMA NextIInv == IInv /\ [Next]_vars => IInv'
  <1> SUFFICES ASSUME IInv, [Next]_vars PROVE IInv'
    OBVIOUS
  <1>1. CASE Outside
    BY <1>1, OutsideKeepsIInv
  <1>2. ASSUME NEW w \in Workers, Polls(w) PROVE IInv'
    BY <1>2, RecoveryKeepsIInv, PollMovesKeepIInv, ClaimKeepsIInv, GiveBackKeepsIInv DEF Polls
  <1>3. ASSUME NEW w \in Workers, Executes(w) PROVE IInv'
    BY <1>3, LaunchKeepsIInv, FinishKeepsIInv, WriteKeepsIInv DEF Executes
  <1>4. ASSUME NEW w \in Workers, Leaves(w) PROVE IInv'
    BY <1>4, LeavingKeepsIInv
  <1>5. CASE UNCHANGED vars
    BY <1>5 DEF vars, IInv, Typed, ClaimNamed, RowsOK, LeaseInv, LeaseTracked, TracksLeases,
                TrackerHolds, Tracks, Given, Holds, TokensPast, NoLateRun, Alive
  <1> QED  BY <1>1, <1>2, <1>3, <1>4, <1>5 DEF Next

(* Whatever joins or leaves the queue, its order stays one of jobs.         *)
LEMMA ReorderIsTyped ==
    ASSUME earlier \in SUBSET (Jobs \X Jobs), NEW late \in SUBSET Jobs, Reorder(late)
    PROVE  earlier' \in SUBSET (Jobs \X Jobs)
  <1> DEFINE due == {j \in Jobs : job'[j].status = "queued"}
             behind == {j \in due : job[j].status # "queued"} \cup late
             kept == due \ behind
  <1>1. PICK R \in LinearOrders(behind) :
            earlier' = {p \in earlier : p[1] \in kept /\ p[2] \in kept} \cup (kept \X behind) \cup R
    BY DEF Reorder
  <1>2. behind \in SUBSET Jobs /\ kept \in SUBSET Jobs  OBVIOUS
  <1>3. R \in SUBSET (behind \X behind)  BY DEF LinearOrders
  <1> HIDE DEF due, behind, kept
  <1> QED  BY <1>1, <1>2, <1>3

LEMMA OrderStaysTyped ==
    ASSUME Typed, earlier \in SUBSET (Jobs \X Jobs), [Next]_vars
    PROVE  earlier' \in SUBSET (Jobs \X Jobs)
  <1>1. (\E late \in SUBSET Jobs : Reorder(late)) \/ earlier' = earlier
    <2>1. CASE Outside
      BY <2>1 DEF Outside, Enqueue, Cancel, BackoffEnds, LeaseExpires, Disable, Reactivate, Retain
    <2>2. ASSUME NEW w \in Workers, ClaimEnds(w) PROVE \E late \in SUBSET Jobs : Reorder(late)
      <3> DEFINE late == {i \in poll[w].seen : job[i].status = "queued"}
      <3>1. Reorder(late)  BY <2>2 DEF ClaimEnds
      <3>2. late \in SUBSET Jobs  BY DEF Typed, Poll
      <3> HIDE DEF late
      <3> QED  BY <3>1, <3>2
    <2>3. ASSUME NEW w \in Workers, Polls(w), ~ClaimEnds(w)
          PROVE  (\E late \in SUBSET Jobs : Reorder(late)) \/ earlier' = earlier
      BY <2>3 DEF Polls, Boot, PollBegins, ClaimBegins, ClaimsNothing, ClaimIsLost, GiveBack
    <2>4. ASSUME NEW w \in Workers, Executes(w) \/ Leaves(w)
          PROVE  (\E late \in SUBSET Jobs : Reorder(late)) \/ earlier' = earlier
      BY <2>4 DEF Executes, Launch, Finish, Write, WriteFails, Leaves, Signal, StopActive, Drained, Dies
    <2>5. CASE UNCHANGED vars
      BY <2>5 DEF vars
    <2> QED  BY <2>1, <2>2, <2>3, <2>4, <2>5 DEF Next
  <1> QED  BY <1>1, ReorderIsTyped

(* The inductive invariant: the rows of compute_jobs, the polls and the     *)
(* executions of the workers keep it, whatever happens to any of them.      *)
THEOREM JobsKeepIInv == Spec => []IInv
  <1> QED  BY InitIInv, NextIInv, PTL DEF Spec

(* Types: among others, no claim takes a job beyond max_attempts.           *)
THEOREM JobsTypeCorrect == Spec => []JobsTypeOK
  <1> DEFINE OrderTyped == earlier \in SUBSET (Jobs \X Jobs)
  <1>1. Init => OrderTyped  BY DEF Init
  <1>2. IInv /\ OrderTyped /\ [Next]_vars => OrderTyped'  BY OrderStaysTyped DEF IInv
  <1>3. IInv /\ OrderTyped => JobsTypeOK  BY DEF IInv, JobsTypeOK
  <1> HIDE DEF OrderTyped
  <1> QED  BY <1>1, <1>2, <1>3, JobsKeepIInv, PTL DEF Spec

(* A job whose cancellation was requested (cancel, disable) neither         *)
(* completes nor fails nor is queued again, by complete, fail, retryOrFail, *)
(* requeueForShutdown, recoverExpiredLeases or a stale claim.               *)
THEOREM CancellationAlwaysWins == Spec => []CancellationWins
  <1>1. IInv => CancellationWins  BY DEF IInv, RowsOK, RowOK, CancellationWins
  <1> QED  BY <1>1, JobsKeepIInv, PTL

(* Every queued job can be claimed: it has an attempt left and is not       *)
(* cancelled, whichever update put it into the queue.                       *)
THEOREM NoJobIsStranded == Spec => []NoneStranded
  <1>1. IInv => NoneStranded
    BY DEF IInv, RowsOK, RowOK, NoneStranded, Queued, Claimed
  <1> QED  BY <1>1, JobsKeepIInv, PTL

(* What a worker gave back or finished before it left in order is not       *)
(* leased to it any more: claimJobForExecution's second look at stopping    *)
(* and stopActive leave no execution outside the promises that are awaited. *)
THEOREM ShutdownLeavesNothing == Spec => []DrainedLeavesNothing
  <1>1. IInv => DrainedLeavesNothing
    BY DEF IInv, LeaseInv, LeaseTracked, TracksLeases, Alive, DrainedLeavesNothing
  <1> QED  BY <1>1, JobsKeepIInv, PTL

(* The fence of every update: while a lease lives, only its holder ends the *)
(* job, for the execution of its latest claim.                              *)
THEOREM HolderDecides == Spec => OnlyHolderDecides
  <1> DEFINE Decision == \A j \in Jobs : job[j].status = "running" /\ job'[j].status \notin Claimed
                             => \E w \in Workers : job[j].holder = w /\ LatestOf(w, j)
  <1>1. IInv /\ [Next]_vars => Decision
    <2> SUFFICES ASSUME IInv, [Next]_vars, NEW j \in Jobs,
                        job[j].status = "running", job'[j].status \notin Claimed
                 PROVE  \E w \in Workers : job[j].holder = w /\ LatestOf(w, j)
      OBVIOUS
    <2>0. /\ Rows /\ active \in [Owners -> BOOLEAN]
          /\ \A w \in Workers : Tracks(w, j) => job[j].holder = w
      BY DEF IInv, Rows, Typed, LeaseInv, TrackerHolds
    <2>1. job' # job  BY DEF Claimed
    <2>2. ~Outside  BY <2>0, OutsideIsQuiet
    <2>3. ASSUME NEW w \in Workers, GiveBack(w)
          PROVE  job[j].holder = w /\ LatestOf(w, j)
      <3>1. /\ poll[w].job \in Jobs /\ poll[w].at = "claimed" /\ poll \in [Workers -> Poll]
            /\ job' = AfterEnding(poll[w].job, poll[w].token, "requeue")
            /\ poll' = [poll EXCEPT ![w] = NoPoll]
        BY <2>3, PartsOfIInv DEF GiveBack
      <3>2. j = poll[w].job /\ Fenced(j, poll[w].token)
        BY <2>0, <3>1, EndingIsQuiet DEF Endings, Claimed
      <3>3. Given(w, j) /\ poll'[w].at = "idle"  BY <3>1, <3>2 DEF Given, Fenced, NoPoll
      <3> QED  BY <2>0, <3>3 DEF Tracks, Given, LatestOf
    <2>4. ASSUME NEW w \in Workers, NEW l \in Lanes, Write(w, l)
          PROVE  job[j].holder = w /\ LatestOf(w, j)
      <3>1. /\ lane[w][l].does \in Endings /\ lane[w][l].does # "nothing"
            /\ lane[w][l].job \in Jobs
            /\ lane \in [Workers -> [Lanes -> Lane]]
            /\ job' = AfterEnding(lane[w][l].job, lane[w][l].token, lane[w][l].does)
            /\ lane' = [lane EXCEPT ![w][l] = FreeLane]
        BY <2>4, PartsOfIInv DEF Write, Endings
      <3>2. j = lane[w][l].job /\ Fenced(j, lane[w][l].token)
        BY <2>0, <3>1, EndingIsQuiet DEF Claimed
      <3>3. lane'[w][l].does = "nothing"  BY <3>1 DEF FreeLane
      <3>4. Holds(w, j)  BY <3>1, <3>2 DEF Holds, Fenced
      <3> QED  BY <2>0, <3>1, <3>2, <3>3, <3>4 DEF Tracks, Fenced, LatestOf
    <2>5. ASSUME NEW w \in Workers PROVE ~Boot(w) /\ ~PollBegins(w) /\ ~ClaimEnds(w)
      <3>1. ~Boot(w) /\ ~PollBegins(w)
        BY <2>0, RecoveryIsQuiet DEF Boot, PollBegins, Claimed
      <3>2. ~ClaimEnds(w)
        <4> SUFFICES ASSUME ClaimEnds(w) PROVE FALSE
          OBVIOUS
        <4>1. /\ poll[w].job \in Jobs /\ job \in [Jobs -> Row]
              /\ job' = [job EXCEPT ![poll[w].job] = ClaimedBy(job[poll[w].job], w)]
          BY PartsOfIInv DEF ClaimEnds, Rows
        <4>2. job[poll[w].job] \in Row /\ job[poll[w].job].attempt < MaxAttempts
          BY <4>1 DEF ClaimEnds, Admits
        <4>3. ClaimedBy(job[poll[w].job], w).status = "running"  BY <4>2, ClaimedIsOK
        <4> QED  BY <4>1, <4>3 DEF Claimed
      <3> QED  BY <3>1, <3>2
    <2>6. \E w \in Workers : GiveBack(w) \/ \E l \in Lanes : Write(w, l)
      BY <2>1, <2>2, <2>5
         DEF Next, vars, Polls, Executes, Leaves, ClaimBegins, ClaimsNothing, ClaimIsLost, Launch,
             Finish, WriteFails, Signal, StopActive, Drained, Dies
    <2> QED  BY <2>3, <2>4, <2>6
  <1> QED  BY <1>1, JobsKeepIInv, PTL DEF Spec, OnlyHolderDecides
=============================================================================
