-------------------------- MODULE ExecutorLifecycle -------------------------
(***************************************************************************)
(* How the executor starts, serves and stops inside the server process:     *)
(* FencedExecutorBridge's lifecycle (backend/src/database/executorBridge.ts)*)
(* driven by server.ts, createGracefulShutdown and TradingApi.close.  What  *)
(* the pump does to a command is ExecutorBridge's business; here it is a    *)
(* claim, a callback and an acknowledgement, each of which may take for     *)
(* ever, while two bounded drains and a forced deadline race with it.       *)
(*                                                                          *)
(* server.ts awaits trading.start() before it listens or handles a signal,  *)
(* so quiesce never meets a bridge that is still starting.                  *)
(***************************************************************************)
EXTENDS Naturals

CONSTANT Requests  \* HTTP requests that call submitAndWait

VARIABLES
    lifecycle, \* FencedExecutorBridge.lifecycle
    accepting, \* acceptingSubmissions
    loop,      \* loopPromise: "none", in pumpOnce, or in the wake signal's wait
    pump,      \* pumpPromise: "none", or what executeNextSafely awaits
    aborted,   \* the apply signal of the command being executed
    awaited,   \* the promises captured by the drain that is under way
    host,      \* the process: booting, serving, then the stages of shutdown
    http,      \* the HTTP server
    sqlite,    \* the executor's SQLite store
    failed,    \* exitCode and finalCode of createGracefulShutdown are 1
    request    \* request[q]: a submitAndWait call

bridgeVars == <<lifecycle, accepting, loop, pump, aborted, awaited>>
vars == <<bridgeVars, host, http, sqlite, failed, request>>

Stages == {"stopping", "first drain", "second drain", "store", "pool"}
Waiting == {"enqueuing", "polling"}
Callbacks == {"authorizing", "applying"}

LifecycleTypeOK ==
    /\ lifecycle \in {"starting", "running", "quiescing", "stopped", "closed"}
    /\ accepting \in BOOLEAN
    /\ loop \in {"none", "pumping", "waiting"}
    /\ pump \in {"none", "claiming", "acknowledging"} \cup Callbacks
    /\ aborted \in BOOLEAN
    /\ awaited \subseteq {"pump", "loop"}
    /\ host \in {"booting", "serving", "exited"} \cup Stages
    /\ http \in {"down", "open", "closed"}
    /\ sqlite \in {"open", "closed"}
    /\ failed \in BOOLEAN
    /\ request \in [Requests -> {"idle", "told"} \cup Waiting]
    /\ loop = "pumping" <=> pump # "none"  \* the loop alone pumps

Init ==
    /\ lifecycle = "starting" /\ accepting = TRUE
    /\ loop = "none" /\ pump = "none" /\ aborted = FALSE /\ awaited = {}
    /\ host = "booting" /\ http = "down" /\ sqlite = "open" /\ failed = FALSE
    /\ request = [q \in Requests |-> "idle"]

-----------------------------------------------------------------------------
(* startInternal, awaited by server.ts: once the exhausted leases are       *)
(* recovered the loop runs up to its first claim, and the server listens.   *)
StartRunning ==
    /\ host = "booting"
    /\ lifecycle' = "running" /\ loop' = "pumping" /\ pump' = "claiming"
    /\ host' = "serving" /\ http' = "open"
    /\ UNCHANGED <<accepting, aborted, awaited, sqlite, failed, request>>

StartFails ==
    /\ host = "booting"
    /\ lifecycle' = "stopped"
    /\ host' = "exited" /\ failed' = TRUE
    /\ UNCHANGED <<accepting, loop, pump, aborted, awaited, http, sqlite, request>>

Alive == host # "exited"

(* Mutant: runLoop does not notice that its pump has settled.               *)
PumpEndsUnseen == pump' = "none" /\ aborted' = FALSE /\ UNCHANGED loop

(* pumpOnce resolves; runLoop goes on to its delay only while it runs.      *)
PumpEnds ==
    /\ pump' = "none" /\ aborted' = FALSE
    /\ loop' = IF lifecycle = "running" THEN "waiting" ELSE "none"

(* The delay elapsed or quiesce woke the loop.                              *)
LoopWakes ==
    /\ Alive /\ loop = "waiting"
    /\ IF lifecycle = "running"
       THEN loop' = "pumping" /\ pump' = "claiming"
       ELSE loop' = "none" /\ UNCHANGED pump
    /\ UNCHANGED <<lifecycle, accepting, aborted, awaited, host, http, sqlite, failed, request>>

(* A command was claimed: executeClaimed makes its abort signal only now.   *)
ClaimReturns ==
    /\ Alive /\ pump = "claiming"
    /\ pump' = "authorizing" /\ aborted' = FALSE
    /\ UNCHANGED <<lifecycle, accepting, loop, awaited, host, http, sqlite, failed, request>>

ApplyBegins ==
    /\ Alive /\ pump = "authorizing" /\ ~aborted
    /\ pump' = "applying"
    /\ UNCHANGED <<lifecycle, accepting, loop, aborted, awaited, host, http, sqlite, failed, request>>

(* A decision is acknowledged, even one reached after an abort: only a lost *)
(* lease or a closed bridge would stop it, and neither comes of closing.    *)
Decided ==
    /\ Alive /\ pump \in Callbacks
    /\ pump' = "acknowledging"
    /\ UNCHANGED <<lifecycle, accepting, loop, aborted, awaited, host, http, sqlite, failed, request>>

(* No command, a failed claim, a callback that threw or lost its lease, or  *)
(* an acknowledgement that came back.                                       *)
PumpSettles ==
    /\ Alive /\ pump # "none"
    /\ PumpEnds
    /\ UNCHANGED <<lifecycle, accepting, awaited, host, http, sqlite, failed, request>>

-----------------------------------------------------------------------------
(* submitAndWait.                                                           *)
Asked(q, s) == request' = [request EXCEPT ![q] = s]

Submit(q) ==
    /\ http = "open" /\ Alive /\ request[q] = "idle"
    /\ Asked(q, IF accepting THEN "enqueuing" ELSE "told")
    /\ UNCHANGED <<bridgeVars, host, http, sqlite, failed>>

(* The repository answered: the command is stored, or the client is told of *)
(* a terminal replay, a conflict or a full queue.                           *)
Enqueued(q) ==
    /\ Alive /\ request[q] = "enqueuing"
    /\ \E s \in {"polling", "told"} : Asked(q, s)
    /\ UNCHANGED <<bridgeVars, host, http, sqlite, failed>>

(* Terminal, missing, closed or past the deadline.                          *)
PollEnds(q) ==
    /\ Alive /\ request[q] = "polling"
    /\ Asked(q, "told")
    /\ UNCHANGED <<bridgeVars, host, http, sqlite, failed>>

-----------------------------------------------------------------------------
(* The shutdown closure: stopping, then quiesce(), of which trading comes   *)
(* first and whatever follows may throw; then server.close and the timer.   *)
(* Mutant: the bridge refuses submissions and goes on pumping.              *)
StopAccepting == accepting' = FALSE /\ UNCHANGED <<lifecycle, loop, pump, aborted, awaited>>

Quiesce ==
    /\ accepting' = FALSE
    /\ lifecycle' = "quiescing"
    /\ UNCHANGED <<loop, pump, aborted, awaited>>

Signal ==
    /\ host = "serving"
    /\ Quiesce
    /\ host' = "stopping"
    /\ failed' \in BOOLEAN
    /\ UNCHANGED <<http, sqlite, request>>

(* TradingApi.close: close() quiesces again and drains what is in flight.   *)
InFlight == (IF pump # "none" THEN {"pump"} ELSE {})
              \cup (IF loop # "none" THEN {"loop"} ELSE {})

StartClosing ==
    /\ host = "stopping"
    /\ host' = "first drain" /\ http' = "closed" /\ awaited' = InFlight
    /\ UNCHANGED <<lifecycle, accepting, loop, pump, aborted, sqlite, failed, request>>

(* server.close calls back once no connection is left ...                   *)
HttpCloses == StartClosing /\ \A q \in Requests : request[q] \notin Waiting

(* ... and after forceAfterMs the connections are closed under the calls    *)
(* that still wait, which run on unheard.                                   *)
ForceDeadline == StartClosing /\ \E q \in Requests : request[q] \in Waiting

(* Every captured promise has settled.  No pump or loop starts while        *)
(* quiescing, so one that is still there is one that was captured.          *)
Settled == awaited \cap InFlight = {}

(* closeResources threw: finish reports it and exits with 1.                *)
ExitFailing == host' = "exited" /\ failed' = TRUE

(* activeApplyAbort?.abort(): a claim that is still out has none yet.       *)
RequestAbort ==
    \/ pump \in {"none", "claiming"} /\ UNCHANGED aborted
    \/ pump \notin {"none", "claiming"} /\ aborted' = TRUE

(* The bridge closes and its owner goes on to close engine and store.       *)
(* Mutant: what became of the drain is not looked at.                       *)
ClosedAnyway(ok) ==
    /\ lifecycle' = "closed" /\ host' = "store"
    /\ UNCHANGED <<aborted, awaited, failed>>

(* Close deadlines: the first asks the callback to abort, if there is one   *)
(* already, and drains again; after the second TradingApi.close throws, and *)
(* the process exits with SQLite open.                                      *)
Drained(ok) ==
    \/ ok /\ lifecycle' = "closed" /\ host' = "store" /\ UNCHANGED <<aborted, awaited, failed>>
    \/ /\ ~ok /\ host = "first drain"
       /\ RequestAbort
       /\ host' = "second drain" /\ awaited' = InFlight
       /\ UNCHANGED <<lifecycle, failed>>
    \/ /\ ~ok /\ host = "second drain"
       /\ ExitFailing
       /\ UNCHANGED <<lifecycle, aborted, awaited>>

Drain(ok) ==
    /\ host \in {"first drain", "second drain"}
    /\ Drained(ok)
    /\ UNCHANGED <<accepting, loop, pump, http, sqlite, request>>

DrainSettles == Settled /\ Drain(TRUE)

(* Mutant: the second drain is not bounded.                                 *)
OnlyFirstBounded == host = "first drain"

Bounded == host \in {"first drain", "second drain"}

DrainTimesOut == ~Settled /\ Bounded /\ Drain(FALSE)

(* engine.shutdown, and closeStore whether or not it throws; if it does,    *)
(* identityRuntime.close is not reached.                                    *)
CloseStore ==
    /\ host = "store"
    /\ sqlite' = "closed"
    /\ \/ host' = "pool" /\ UNCHANGED failed
       \/ ExitFailing
    /\ UNCHANGED <<bridgeVars, http, request>>

(* identityRuntime.close: pool.end waits for queries, which time out.       *)
ClosePool ==
    /\ host = "pool"
    /\ \/ host' = "exited" /\ UNCHANGED failed
       \/ ExitFailing
    /\ UNCHANGED <<bridgeVars, http, sqlite, request>>

-----------------------------------------------------------------------------
Next ==
    \/ StartRunning \/ StartFails
    \/ LoopWakes \/ ClaimReturns \/ ApplyBegins \/ Decided \/ PumpSettles
    \/ \E q \in Requests : Submit(q) \/ Enqueued(q) \/ PollEnds(q)
    \/ Signal \/ HttpCloses \/ ForceDeadline
    \/ DrainSettles \/ DrainTimesOut \/ CloseStore \/ ClosePool

(* Timers fire and the shutdown code runs; nothing is asked of the pump's   *)
(* callbacks, of PostgreSQL's answers to it, or of the clients.             *)
Fairness == WF_vars(HttpCloses \/ ForceDeadline) /\ WF_vars(DrainSettles \/ DrainTimesOut)
              /\ WF_vars(CloseStore) /\ WF_vars(ClosePool)

Spec == Init /\ [][Next]_vars /\ Fairness

-----------------------------------------------------------------------------
(* docs/ARCHITECTURE.md: only after every callback settles may SQLite       *)
(* close; whoever is left, no step of the executor meets a closed store.    *)
StoreClosesLast == sqlite = "closed" => pump = "none" /\ loop = "none"

(* After the signal the executor takes on nothing: no further claim is      *)
(* made, by a loop that was in its delay, in a pump or about to be woken,   *)
(* and no further command is accepted.                                      *)
TakesOnNothing ==
    host \in Stages =>
        /\ pump = "none" => pump' = "none"
        /\ \A q \in Requests : request[q] = "idle" => request'[q] # "enqueuing"

NothingNewAfterSignal == [][TakesOnNothing]_vars

(* A process that reports success has stopped its executor and closed its   *)
(* store: a refused close, a failed engine shutdown or an error in between  *)
(* is never reported as a clean exit.                                       *)
CleanExit ==
    host = "exited" /\ ~failed =>
        lifecycle = "closed" /\ sqlite = "closed" /\ pump = "none"

(* A shutdown ends, whatever the executor's callbacks, PostgreSQL and the   *)
(* clients do.                                                              *)
ShutdownEnds == host = "stopping" ~> host = "exited"
=============================================================================
