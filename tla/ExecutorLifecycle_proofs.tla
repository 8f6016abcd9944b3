---------------------- MODULE ExecutorLifecycle_proofs ----------------------
(***************************************************************************)
(* Proofs about ExecutorLifecycle, for any number of concurrent requests.   *)
(* The inductive invariant ties the stage of the shutdown to the bridge:    *)
(* while a drain is under way, whatever is still in flight was captured by  *)
(* it, so a drain that has settled leaves nothing behind.                   *)
(***************************************************************************)
EXTENDS ExecutorLifecycle, TLAPS

Drains == {"first drain", "second drain"}

Empty == pump = "none" /\ loop = "none"

(* What each stage of the process knows of the bridge and the store.        *)
StageInv ==
    /\ host = "booting" => Empty /\ sqlite = "open" /\ http = "down"
    /\ host \in {"booting", "serving"} => sqlite = "open"
    /\ host \in Stages => ~accepting /\ lifecycle # "running"
    /\ host \in {"stopping"} \cup Drains => sqlite = "open" /\ lifecycle = "quiescing"
    /\ host \in Drains => InFlight \subseteq awaited
    /\ host \in {"store", "pool"} => Empty /\ lifecycle = "closed"
    /\ host = "pool" => sqlite = "closed"
    /\ host = "exited" => StoreClosesLast /\ CleanExit

Inv == LifecycleTypeOK /\ StageInv

LEMMA InFlightEmpty == InFlight = {} <=> Empty
  BY DEF InFlight, Empty

(* Every process starts in the invariant.                                   *)
LEMMA InitInv == Init => Inv
  BY DEF Init, Inv, LifecycleTypeOK, StageInv, Empty, Stages, Drains, Waiting, Callbacks

(* Pump and loop steps: nothing is in flight that was not before, unless    *)
(* the bridge runs.                                                         *)
LEMMA PumpInv ==
  ASSUME Inv, LoopWakes \/ ClaimReturns \/ ApplyBegins \/ Decided \/ PumpSettles
  PROVE  Inv'
<1> USE DEF Inv, LifecycleTypeOK, StageInv, Empty, Stages, Drains, Waiting, Callbacks,
            Alive, InFlight, StoreClosesLast, CleanExit
<1>1. CASE LoopWakes
  BY <1>1 DEF LoopWakes
<1>2. CASE ClaimReturns
  BY <1>2 DEF ClaimReturns
<1>3. CASE ApplyBegins
  BY <1>3 DEF ApplyBegins
<1>4. CASE Decided
  BY <1>4 DEF Decided
<1>5. CASE PumpSettles
  BY <1>5 DEF PumpSettles, PumpEnds
<1>6. QED
  BY <1>1, <1>2, <1>3, <1>4, <1>5

(* Requests touch nothing but themselves.                                   *)
LEMMA RequestInv ==
  ASSUME Inv, NEW q \in Requests, Submit(q) \/ Enqueued(q) \/ PollEnds(q)
  PROVE  Inv'
<1>1. UNCHANGED <<bridgeVars, host, http, sqlite, failed>>
  BY DEF Submit, Enqueued, PollEnds
<1>2. request' \in [Requests -> {"idle", "told"} \cup Waiting]
  BY DEF Inv, LifecycleTypeOK, Submit, Enqueued, PollEnds, Asked, Waiting
<1>3. QED
  BY <1>1, <1>2 DEF Inv, LifecycleTypeOK, StageInv, Empty, InFlight, StoreClosesLast,
     CleanExit, bridgeVars

(* Start and the stages of the shutdown.                                    *)
LEMMA HostInv ==
  ASSUME Inv,
         StartRunning \/ StartFails \/ Signal \/ StartClosing \/ DrainSettles
           \/ DrainTimesOut \/ CloseStore \/ ClosePool
  PROVE  Inv'
<1> USE DEF Inv, LifecycleTypeOK, StageInv, Empty, Stages, Drains, Waiting, Callbacks,
            InFlight, StoreClosesLast, CleanExit
<1>1. CASE StartRunning
  BY <1>1 DEF StartRunning
<1>2. CASE StartFails
  BY <1>2 DEF StartFails
<1>3. CASE Signal
  BY <1>3 DEF Signal, Quiesce
<1>4. CASE StartClosing
  BY <1>4 DEF StartClosing
<1>5. CASE DrainSettles
  <2>1. InFlight = {}
    BY <1>5 DEF DrainSettles, Drain, Settled
  <2>2. QED
    BY <1>5, <2>1, InFlightEmpty DEF DrainSettles, Drain, Drained
<1>6. CASE DrainTimesOut
  <2>1. UNCHANGED <<accepting, loop, pump, http, sqlite, request>>
    BY <1>6 DEF DrainTimesOut, Drain
  <2>2. CASE /\ host = "first drain" /\ host' = "second drain" /\ awaited' = InFlight
             /\ RequestAbort
             /\ UNCHANGED <<lifecycle, failed>>
    <3>1. aborted' \in BOOLEAN
      BY <2>2 DEF RequestAbort
    <3>2. awaited' \subseteq {"pump", "loop"} /\ InFlight' = InFlight
      BY <2>1, <2>2
    <3>3. LifecycleTypeOK'
      BY <2>1, <2>2, <3>1, <3>2
    <3>4. QED
      BY <2>1, <2>2, <3>2, <3>3
  <2>3. CASE /\ host = "second drain" /\ ExitFailing
             /\ UNCHANGED <<lifecycle, aborted, awaited>>
    BY <2>1, <2>3 DEF ExitFailing
  <2>4. QED
    BY <1>6, <2>2, <2>3 DEF DrainTimesOut, Drain, Drained
<1>7. CASE CloseStore
  BY <1>7 DEF CloseStore, ExitFailing, bridgeVars
<1>8. CASE ClosePool
  BY <1>8 DEF ClosePool, ExitFailing, bridgeVars
<1>9. QED
  BY <1>1, <1>2, <1>3, <1>4, <1>5, <1>6, <1>7, <1>8

LEMMA NextInv == Inv /\ [Next]_vars => Inv'
<1>1. ASSUME Inv, Next PROVE Inv'
  BY <1>1, PumpInv, RequestInv, HostInv DEF Next, HttpCloses, ForceDeadline
<1>2. ASSUME Inv, UNCHANGED vars PROVE Inv'
  BY <1>2 DEF vars, bridgeVars, Inv, LifecycleTypeOK, StageInv, Empty, InFlight,
     StoreClosesLast, CleanExit
<1>3. QED
  BY <1>1, <1>2

(* The invariant holds of every reachable state.                            *)
LEMMA Invariance == Spec => []Inv
  BY InitInv, NextInv, PTL DEF Spec

-----------------------------------------------------------------------------
(* The state of server, bridge and store keeps its type, and only the loop  *)
(* ever pumps.                                                              *)
THEOREM TypeCorrect == Spec => []LifecycleTypeOK
<1>1. Inv => LifecycleTypeOK
  BY DEF Inv
<1>2. QED
  BY <1>1, Invariance, PTL

(* SQLite closes only after pump and loop are gone, however drains, forced  *)
(* deadlines and callbacks interleave.                                      *)
THEOREM StoreIsLast == Spec => []StoreClosesLast
<1>1. Inv => StoreClosesLast
  BY DEF Inv, LifecycleTypeOK, StageInv, StoreClosesLast, Stages, Drains, Empty
<1>2. QED
  BY <1>1, Invariance, PTL

(* A shutdown that was refused or failed is never reported as a clean exit. *)
THEOREM ExitIsHonest == Spec => []CleanExit
<1>1. Inv => CleanExit
  BY DEF Inv, StageInv, CleanExit
<1>2. QED
  BY <1>1, Invariance, PTL

(* No claim is made and no command accepted once the signal has come.       *)
THEOREM SignalIsFinal == Spec => NothingNewAfterSignal
<1>1. ASSUME Inv, Next, host \in Stages PROVE TakesOnNothing
  <2>1. ~accepting /\ lifecycle # "running" /\ host # "booting"
    BY <1>1 DEF Inv, StageInv, Stages
  <2>2. pump = "none" => pump' = "none"
    BY <1>1, <2>1 DEF Next, StartRunning, StartFails, LoopWakes, ClaimReturns, ApplyBegins,
       Decided, PumpSettles, PumpEnds, Submit, Enqueued, PollEnds, Signal, Quiesce, HttpCloses,
       ForceDeadline, StartClosing, DrainSettles, DrainTimesOut, Drain, Drained, CloseStore,
       ClosePool, bridgeVars, Callbacks
  <2>3. ASSUME NEW q \in Requests, request[q] = "idle" PROVE request'[q] # "enqueuing"
    <3>1. CASE UNCHANGED request
      BY <2>3, <3>1
    <3>2. CASE \E p \in Requests : Submit(p) \/ Enqueued(p) \/ PollEnds(p)
      BY <1>1, <2>1, <2>3, <3>2 DEF Submit, Enqueued, PollEnds, Asked, Inv, LifecycleTypeOK
    <3>3. QED
      BY <1>1, <3>1, <3>2 DEF Next, StartRunning, StartFails, LoopWakes, ClaimReturns,
         ApplyBegins, Decided, PumpSettles, Signal, HttpCloses, ForceDeadline, StartClosing,
         DrainSettles, DrainTimesOut, Drain, CloseStore, ClosePool
  <2>4. QED
    BY <2>2, <2>3 DEF TakesOnNothing
<1>2. Inv /\ [Next]_vars => [TakesOnNothing]_vars
  BY <1>1 DEF TakesOnNothing
<1>3. QED
  BY <1>2, Invariance, PTL DEF Spec, NothingNewAfterSignal
=============================================================================
