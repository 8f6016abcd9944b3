---------------------------- MODULE PaperPortfolio --------------------------
(***************************************************************************)
(* One owner's paper portfolios and robots: the SQLite books kept by        *)
(* paperPortfolioStore.ts, the handlers of PaperPortfolioCommandHandler,    *)
(* and the engine that runs the robots (engine.ts, engineStopCoordinator.ts,*)
(* engineResume.ts), with database authentication, where the fenced         *)
(* executor applies one command at a time and is started last.              *)
(*                                                                          *)
(* A mutation is one SQLite transaction and atomic.  Starting and stopping  *)
(* a robot, and a reset, which stops every robot of its portfolio first,    *)
(* await market data, locks and queues: meanwhile robots trade, an emergency*)
(* stop or a revocation stops them, and the process may end.                *)
(*                                                                          *)
(* Abstractions.  Receipts and retries are ExecutorBridge's.  A client      *)
(* always quotes the revision it has just read, so a command with another   *)
(* revision or epoch, which is rejected and changes nothing, is no step.    *)
(* A ledger is its cash balance and whether a position or order is open; a  *)
(* balance that is negative, not a whole number of micros or beyond the     *)
(* maximum is Unrepresentable.                                              *)
(***************************************************************************)
EXTENDS Integers, FiniteSets, FiniteSetsExt

CONSTANTS
    Portfolios, Robots,
    Amounts,       \* initial capitals and allocations a client asks for
    MaxMoney,      \* PAPER_MONEY_MICROS_MAX
    MaxPortfolios, \* PAPER_PORTFOLIO_LIMIT_PER_OWNER
    MaxBots,       \* payload.maxBots
    MaxEpoch,      \* bound on the ledger epochs of a portfolio
    MaxRevision,   \* bound on the revisions of a portfolio
    MaxQuiet,      \* bound on the revisions of all portfolios but one
    MaxRestarts    \* bound on process ends

ASSUME PaperAssumption ==
    /\ IsFiniteSet(Portfolios) /\ IsFiniteSet(Robots)
    /\ MaxMoney \in Nat /\ Amounts \subseteq 1 .. MaxMoney
    /\ MaxPortfolios \in Nat /\ MaxBots \in Nat
    /\ MaxEpoch \in Nat \ {0} /\ MaxRevision \in Nat \ {0}
    /\ MaxQuiet \in Nat /\ MaxRestarts \in Nat

VARIABLES
    portfolio, \* table paper_portfolios
    book,      \* book[<<p, e>>]: table paper_portfolio_epochs
    robot,     \* tables bots and paper_bot_allocations: one allocation each
    ledger,    \* ledger[b]: what replayPaperLedger returns for b and its epoch
    runtime,   \* the engine: running, and the starts and stops in progress
    late,      \* robots removed by stopNow whose event queue is not empty
    phase,     \* the process: down, resuming persisted robots, or up
    resume,    \* the robots resumePersistedBots has still to look at
    command,   \* the executor's command, if it is one that awaits
    restarts   \* how often the process has ended

books == <<portfolio, book, robot>>
vars == <<books, ledger, runtime, late, phase, resume, command, restarts>>

Epochs == 1 .. MaxEpoch
Money == 0 .. MaxMoney
Unrepresentable == -1

NoPortfolio == [status |-> "none", revision |-> 0, epoch |-> 0, default |-> FALSE, born |-> 0]
NoBook == [status |-> "none", initial |-> 0, cash |-> 0]
NoRobot == [home |-> <<>>, reserved |-> 0, allocation |-> "none", returned |-> 0,
            desired |-> "stopped"]
NoCommand == [kind |-> "none", target |-> {}, capital |-> 0, listed |-> {}, todo |-> {},
              awaited |-> {}]

Portfolio == [status   : {"none", "active", "archived"},
              revision : 0 .. MaxRevision,
              epoch    : 0 .. MaxEpoch,
              default  : BOOLEAN,
              born     : Nat]   \* createdAt, as a rank

Book == [status : {"none", "active", "closed"}, initial : Money, cash : Money]

Robot == [home       : (Portfolios \X Epochs) \cup {<<>>}, \* the epoch it is bound to
          reserved   : Money,
          allocation : {"none", "active", "closed"},
          returned   : Money,
          desired    : {"stopped", "running"}]      \* bots.config.status

Command == [kind    : {"none", "start", "stop", "reset"},
            target  : SUBSET Portfolios,  \* the portfolio to reset
            capital : Money,
            listed  : SUBSET Robots,      \* the allocations read at first
            todo    : SUBSET Robots,      \* those not yet looked at
            awaited : SUBSET Robots]      \* the robot being started or stopped

PortfolioTypeOK ==
    /\ portfolio \in [Portfolios -> Portfolio]
    /\ book \in [Portfolios \X Epochs -> Book]
    /\ robot \in [Robots -> Robot]
    /\ ledger \in [Robots -> [balance : Money \cup {Unrepresentable}, open : BOOLEAN]]
    /\ runtime \in [Robots -> {"off", "starting", "on", "stopping", "draining"}]
    /\ late \subseteq Robots
    /\ phase \in {"down", "resuming", "up"}
    /\ resume \subseteq Robots
    /\ command \in Command
    /\ restarts \in 0 .. MaxRestarts

Init ==
    /\ portfolio = [p \in Portfolios |-> NoPortfolio]
    /\ book = [s \in Portfolios \X Epochs |-> NoBook]
    /\ robot = [b \in Robots |-> NoRobot]
    /\ ledger = [b \in Robots |-> [balance |-> 0, open |-> FALSE]]
    /\ runtime = [b \in Robots |-> "off"]
    /\ late = {}
    /\ phase = "down" /\ resume = {} /\ command = NoCommand /\ restarts = 0

-----------------------------------------------------------------------------
Active(p) == portfolio[p].status = "active"

Current(p) == <<p, portfolio[p].epoch>>

BoundTo(b, p) == \E e \in Epochs : robot[b].home = <<p, e>>

Allocated(p) == {b \in Robots : robot[b].home = Current(p) /\ robot[b].allocation = "active"}

(* assertPaperBotActiveAllocationInto, and the checks of robotAction: the   *)
(* robot owns active capital in the active epoch of an active portfolio.    *)
Funded(b) == \E p \in Portfolios : /\ Active(p)
                                   /\ book[Current(p)].status = "active"
                                   /\ b \in Allocated(p)

(* The bridge is started only after engine.resume has returned, and awaits  *)
(* one command before it claims the next.                                   *)
(* Mutant: commands are claimed while robots are still being resumed.       *)
ReadyWhileResuming == phase # "down" /\ command = NoCommand

ExecutorReady == phase = "up" /\ command = NoCommand

NothingElse == UNCHANGED <<ledger, runtime, late, phase, resume, command, restarts>>

-----------------------------------------------------------------------------
(* Mutations of a portfolio.  Each UPDATE of a row bumps its revision.      *)
Bumped(r) == [r EXCEPT !.revision = @ + 1]

Room(p) ==
    /\ portfolio[p].revision < MaxRevision
    /\ portfolio[p].revision < MaxQuiet \/ \A q \in Portfolios \ {p} : portfolio[q].revision <= MaxQuiet

\* clearDefault.
Cleared == [p \in Portfolios |->
              IF Active(p) /\ portfolio[p].default
              THEN [Bumped(portfolio[p]) EXCEPT !.default = FALSE] ELSE portfolio[p]]

Create(p, capital, asked) ==
    LET known   == {q \in Portfolios : portfolio[q].status # "none"}
        default == asked \/ ~\E q \in Portfolios : Active(q) /\ portfolio[q].default
    IN  /\ ExecutorReady
        /\ portfolio[p].status = "none"
        /\ Cardinality(known) < MaxPortfolios
        /\ \A q \in known : Room(q)
        /\ portfolio' = [(IF default THEN Cleared ELSE portfolio) EXCEPT ![p] =
                           [status |-> "active", revision |-> 1, epoch |-> 1,
                            default |-> default, born |-> Cardinality(known) + 1]]
        /\ book' = [book EXCEPT ![<<p, 1>>] =
                      [status |-> "active", initial |-> capital, cash |-> capital]]
        /\ UNCHANGED robot /\ NothingElse

Rename(p) ==
    /\ ExecutorReady
    /\ portfolio[p].status # "none" /\ Room(p)
    /\ portfolio' = [portfolio EXCEPT ![p] = Bumped(@)]
    /\ UNCHANGED <<book, robot>> /\ NothingElse

SetDefault(p) ==
    /\ ExecutorReady
    /\ Active(p) /\ ~portfolio[p].default
    /\ \A q \in Portfolios : Room(q)
    /\ portfolio' = [Cleared EXCEPT ![p] = [Bumped(@) EXCEPT !.default = TRUE]]
    /\ UNCHANGED <<book, robot>> /\ NothingElse

(* promoteOldestDefault, on rows in which no active portfolio is default.   *)
(* Mutant: the oldest portfolio is promoted, whether or not it is active.   *)
PromotedOf(rows, eligible) ==
    [q \in Portfolios |->
       IF q \in eligible /\ \A r \in eligible : rows[q].born <= rows[r].born
       THEN [Bumped(rows[q]) EXCEPT !.default = TRUE] ELSE rows[q]]

PromotedOfAny(rows) == PromotedOf(rows, {q \in Portfolios : rows[q].status # "none"})

Promoted(rows) == PromotedOf(rows, {q \in Portfolios : rows[q].status = "active"})

Archive(p) ==
    LET rows == [portfolio EXCEPT ![p] = [Bumped(@) EXCEPT !.status = "archived",
                                                           !.default = FALSE]]
    IN  /\ ExecutorReady
        /\ Active(p)
        /\ ~\E b \in Robots : BoundTo(b, p) /\ robot[b].allocation = "active"
        /\ \A q \in Portfolios : Room(q)
        /\ portfolio' = IF portfolio[p].default THEN Promoted(rows) ELSE rows
        /\ book' = [book EXCEPT ![Current(p)].status = "closed"]
        /\ UNCHANGED robot /\ NothingElse

(* Mutant: an allocation is compared with the capital the epoch began with. *)
WithinInitial(p, amount) == amount <= book[Current(p)].initial

Affordable(p, amount) == amount <= book[Current(p)].cash

(* createRobot: the bot, its reservation and its binding in one transaction.*)
CreateRobot(b, p, amount) ==
    /\ ExecutorReady
    /\ Active(p) /\ Room(p)
    /\ robot[b] = NoRobot
    /\ Cardinality({c \in Robots : robot[c] # NoRobot}) < MaxBots
    /\ book[Current(p)].status = "active"
    /\ Affordable(p, amount)
    /\ book' = [book EXCEPT ![Current(p)].cash = @ - amount]
    /\ robot' = [robot EXCEPT ![b] = [NoRobot EXCEPT !.home = Current(p), !.reserved = amount,
                                                     !.allocation = "active"]]
    /\ ledger' = [ledger EXCEPT ![b] = [balance |-> amount, open |-> FALSE]]
    /\ portfolio' = [portfolio EXCEPT ![p] = Bumped(@)]
    /\ UNCHANGED <<runtime, late, phase, resume, command, restarts>>

-----------------------------------------------------------------------------
(* The engine.  Running(b): the engine's map holds b.  A robot that is      *)
(* "draining" was removed from the map while stopSafely waits for it.       *)
Running(b) == runtime[b] \in {"on", "stopping"}

Becomes(b, state) == runtime' = [runtime EXCEPT ![b] = state]

Stores(b, status) == robot' = [robot EXCEPT ![b].desired = status]

(* A market event reaches a robot that runs, or one whose queue drains.     *)
Trade(b, balance, open) ==
    /\ Running(b)
    /\ ledger' = [ledger EXCEPT ![b] = [balance |-> balance, open |-> open]]
    /\ UNCHANGED <<books, runtime, late, phase, resume, command, restarts>>

(* Events queued before stopNow are handled after it.  The paper adapter    *)
(* takes its price from the engine's map, where there is none: an order that*)
(* rests is filled by the event or cancelled, and nothing can be opened.    *)
(* Mutant: the adapter keeps the price of the robot it was built for.       *)
StillPriced(b) == TRUE

OnlyResting(b) == ledger[b].open

LateTrade(b, balance, open) ==
    /\ b \in late /\ OnlyResting(b)
    /\ ledger' = [ledger EXCEPT ![b] = [balance |-> balance, open |-> open]]
    /\ late' \in {late, late \ {b}}
    /\ UNCHANGED <<books, runtime, phase, resume, command, restarts>>

StartBegins(b) ==
    /\ ExecutorReady
    /\ Funded(b) /\ runtime[b] = "off"
    /\ Becomes(b, "starting")
    /\ command' = [NoCommand EXCEPT !.kind = "start", !.awaited = {b}]
    /\ UNCHANGED <<books, ledger, late, phase, resume, restarts>>

(* The subscription is open: status and map change together, for a command  *)
(* or for a resume.  The binding was checked when the start began.          *)
StartEnds(b) ==
    /\ runtime[b] = "starting"
    /\ Becomes(b, "on") /\ Stores(b, "running")
    /\ command' = IF command.kind = "start" THEN NoCommand ELSE command
    /\ UNCHANGED <<portfolio, book, ledger, late, phase, resume, restarts>>

(* No market data, or the owner's starts were suspended meanwhile.  A start *)
(* that fails changes nothing; resumePersistedBots persists a stop.         *)
(* Mutant: it does not.                                                     *)
StillStored(b) == UNCHANGED robot

FailureStored(b) == IF phase = "resuming" THEN Stores(b, "stopped") ELSE UNCHANGED robot

StartFails(b) ==
    /\ runtime[b] = "starting"
    /\ Becomes(b, "off") /\ FailureStored(b)
    /\ command' = IF command.kind = "start" THEN NoCommand ELSE command
    /\ UNCHANGED <<portfolio, book, ledger, late, phase, resume, restarts>>

StopCommand(b) ==
    /\ ExecutorReady
    /\ Funded(b) /\ Running(b)
    /\ Becomes(b, "stopping")
    /\ command' = [NoCommand EXCEPT !.kind = "stop", !.awaited = {b}]
    /\ UNCHANGED <<books, ledger, late, phase, resume, restarts>>

(* stopOwnerSafely, at any time and outside any command.                    *)
OwnerStops(b) ==
    /\ phase = "up" /\ runtime[b] = "on"
    /\ Becomes(b, "stopping")
    /\ UNCHANGED <<books, ledger, late, phase, resume, command, restarts>>

(* stopNow, which waits for nothing: an emergency stop, a daily loss limit, *)
(* or stopOwned after stopSafely threw.                                     *)
StopNow(b) ==
    /\ Running(b)
    /\ Becomes(b, IF runtime[b] = "stopping" THEN "draining" ELSE "off")
    /\ Stores(b, "stopped")
    /\ late' = late \cup {b}
    /\ UNCHANGED <<portfolio, book, ledger, phase, resume, command, restarts>>

(* stopSafely has drained the queues: finalize, unless the robot has been   *)
(* removed, and thereby stored as stopped; and the awaiting call ends.      *)
AwaitOver(b) ==
    command' = IF command.kind = "stop" /\ b \in command.awaited THEN NoCommand
               ELSE [command EXCEPT !.awaited = @ \ {b}]

StopEnds(b) ==
    /\ runtime[b] \in {"stopping", "draining"}
    /\ Becomes(b, "off") /\ Stores(b, "stopped")
    /\ AwaitOver(b)
    /\ UNCHANGED <<portfolio, book, ledger, late, phase, resume, restarts>>

(* finalize threw: the robot stays in the map, and the command is given up. *)
StopFails(b) ==
    /\ runtime[b] = "stopping"
    /\ Becomes(b, "on")
    /\ command' = IF b \in command.awaited THEN NoCommand ELSE command
    /\ UNCHANGED <<books, ledger, late, phase, resume, restarts>>

-----------------------------------------------------------------------------
(* Reset: list the active allocations, stop one after another those that    *)
(* run, then read every ledger and close the epoch in one transaction.      *)
ResetBegins(p, capital) ==
    /\ ExecutorReady
    /\ portfolio[p].status # "none"
    /\ command' = [NoCommand EXCEPT !.kind = "reset", !.target = {p}, !.capital = capital,
                                    !.listed = Allocated(p), !.todo = Allocated(p)]
    /\ UNCHANGED <<books, ledger, runtime, late, phase, resume, restarts>>

ResetLooksAt(b) ==
    /\ command.kind = "reset" /\ command.awaited = {} /\ b \in command.todo
    /\ IF Running(b)
       THEN /\ Becomes(b, "stopping")
            /\ command' = [command EXCEPT !.todo = @ \ {b}, !.awaited = {b}]
       ELSE /\ UNCHANGED runtime
            /\ command' = [command EXCEPT !.todo = @ \ {b}]
    /\ UNCHANGED <<books, ledger, late, phase, resume, restarts>>

Flat(b) == ~ledger[b].open /\ ledger[b].balance # Unrepresentable

ResetReaches(p) ==
    command.kind = "reset" /\ p \in command.target /\ command.todo = {} /\ command.awaited = {}

Returned(p) == SumFunctionOnSet([b \in Robots |-> ledger[b].balance], Allocated(p))

(* Mutant: the epoch is closed on its reservations, not on its ledgers.     *)
ClosedOnReservation(r, balance) == [r EXCEPT !.allocation = "closed", !.returned = r.reserved]

Closed(r, balance) == [r EXCEPT !.allocation = "closed", !.returned = balance]

Settled(k, sum) == [k EXCEPT !.status = "closed", !.cash = @ + sum]

NextEpoch(r) == [r EXCEPT !.epoch = @ + 1]

ResetCommits(p) ==
    LET bots == Allocated(p)
        old  == Current(p)
        next == <<p, portfolio[p].epoch + 1>>
    IN  /\ ResetReaches(p)
        /\ Active(p) /\ bots = command.listed
        /\ \A b \in bots : Flat(b)
        /\ book[old].cash + Returned(p) \in Money
        /\ Room(p) /\ portfolio[p].epoch < MaxEpoch
        /\ robot' = [b \in Robots |-> IF b \in bots THEN Closed(robot[b], ledger[b].balance)
                                                    ELSE robot[b]]
        /\ book' = [book EXCEPT ![old] = Settled(@, Returned(p)),
                                ![next] = [status |-> "active", initial |-> command.capital,
                                           cash |-> command.capital]]
        /\ portfolio' = [portfolio EXCEPT ![p] = Bumped(NextEpoch(@))]
        /\ command' = NoCommand
        /\ UNCHANGED <<ledger, runtime, late, phase, resume, restarts>>

(* PORTFOLIO_ARCHIVED, OPEN_RISK, INVALID_MONEY or an overflow: whatever    *)
(* was stopped stays stopped.                                               *)
Refused(p) ==
    \/ ~Active(p)
    \/ \E b \in command.listed : ~Flat(b)
    \/ book[Current(p)].cash + Returned(p) \notin Money

ResetRejected(p) ==
    /\ ResetReaches(p)
    /\ Refused(p)
    /\ command' = NoCommand
    /\ UNCHANGED <<books, ledger, runtime, late, phase, resume, restarts>>

-----------------------------------------------------------------------------
(* resumePersistedBots, before the executor is started.                     *)
Boot ==
    /\ phase = "down"
    /\ phase' = "resuming"
    /\ resume' = {b \in Robots : robot[b].desired = "running"}
    /\ UNCHANGED <<books, ledger, runtime, late, command, restarts>>

NoneStarting == \A b \in Robots : runtime[b] # "starting"

ResumeBegins(b) ==
    /\ phase = "resuming" /\ b \in resume /\ NoneStarting
    /\ Funded(b)
    /\ resume' = resume \ {b}
    /\ Becomes(b, "starting")
    /\ UNCHANGED <<books, ledger, late, phase, command, restarts>>

(* The owner may no longer trade, or the robot is not Funded.               *)
ResumeRefused(b) ==
    /\ phase = "resuming" /\ b \in resume /\ NoneStarting
    /\ resume' = resume \ {b}
    /\ Stores(b, "stopped")
    /\ UNCHANGED <<portfolio, book, ledger, runtime, late, phase, command, restarts>>

ResumeEnds ==
    /\ phase = "resuming" /\ resume = {} /\ NoneStarting
    /\ phase' = "up"
    /\ UNCHANGED <<books, ledger, runtime, late, resume, command, restarts>>

(* A crash, or engine.shutdown, which keeps the stored status.              *)
ProcessEnds ==
    /\ phase # "down" /\ restarts < MaxRestarts
    /\ restarts' = restarts + 1
    /\ phase' = "down" /\ resume' = {} /\ command' = NoCommand
    /\ runtime' = [b \in Robots |-> "off"] /\ late' = {}
    /\ UNCHANGED <<books, ledger>>

-----------------------------------------------------------------------------
Mutation ==
    \E p \in Portfolios :
       \/ \E m \in Amounts : (\E d \in BOOLEAN : Create(p, m, d)) \/ ResetBegins(p, m)
       \/ \E b \in Robots, m \in Amounts : CreateRobot(b, p, m)
       \/ Rename(p) \/ SetDefault(p) \/ Archive(p)
       \/ ResetCommits(p) \/ ResetRejected(p)

Engine ==
    \E b \in Robots :
       \/ \E m \in Money \cup {Unrepresentable}, open \in BOOLEAN :
             Trade(b, m, open) \/ LateTrade(b, m, open)
       \/ StartBegins(b) \/ StartEnds(b) \/ StartFails(b)
       \/ StopCommand(b) \/ OwnerStops(b) \/ StopNow(b) \/ StopEnds(b) \/ StopFails(b)
       \/ ResetLooksAt(b)
       \/ ResumeBegins(b) \/ ResumeRefused(b)

Next == Mutation \/ Engine \/ Boot \/ ResumeEnds \/ ProcessEnds

Spec == Init /\ [][Next]_vars

-----------------------------------------------------------------------------
(* Among the owner's active portfolios exactly one is the default, and an   *)
(* archived one never is, whatever is created, promoted or archived.        *)
OneDefault ==
    LET actives  == {p \in Portfolios : Active(p)}
        defaults == {p \in Portfolios : portfolio[p].default}
    IN  /\ defaults \subseteq actives
        /\ actives # {} => \E p \in actives : defaults = {p}

(* A robot runs only on capital that is still its own: nothing reset,       *)
(* archived or resumed under it leaves it trading on a closed epoch.        *)
RunningIsFunded == \A b \in Robots : Running(b) => Funded(b)

(* What a reset handed back is what the ledger says now and for ever: no    *)
(* trade is recorded in an epoch after it was settled.                      *)
SettledMatchesLedger ==
    \A b \in Robots :
        robot[b].allocation = "closed" =>
            Flat(b) /\ robot[b].returned = ledger[b].balance

(* No money appears or vanishes in an epoch: cash is the initial capital    *)
(* less what was reserved plus what was handed back.                        *)
CashConserved ==
    \A s \in Portfolios \X Epochs :
        LET bound    == {b \in Robots : robot[b].home = s}
            reserved == [b \in Robots |-> robot[b].reserved]
            returned == [b \in Robots |-> robot[b].returned]
        IN  book[s].cash = book[s].initial - SumFunctionOnSet(reserved, bound)
                                           + SumFunctionOnSet(returned, bound)

(* An active portfolio has one epoch open, its current one; the epochs      *)
(* before it are closed, and those after it have not begun.                 *)
EpochsInOrder ==
    \A p \in Portfolios, e \in Epochs :
        book[<<p, e>>].status = IF e > portfolio[p].epoch THEN "none"
                                ELSE IF Active(p) /\ e = portfolio[p].epoch THEN "active"
                                ELSE "closed"

(* An epoch and an allocation are settled once: whatever is reset, archived *)
(* or resumed later, a closed account stays as it was closed.               *)
Account(b) == [robot[b] EXCEPT !.desired = "stopped"]

ClosedForGood ==
    [][/\ \A s \in Portfolios \X Epochs : book[s].status = "closed" => book'[s] = book[s]
       /\ \A b \in Robots : robot[b].allocation = "closed" => Account(b)' = Account(b)]_vars

(* With nothing in progress the stored status of a robot is the truth, after*)
(* any failed start, stop or resume and any end of the process.             *)
StatusHonest ==
    phase = "up" => \A b \in Robots : robot[b].desired = "running" <=> Running(b)

(* Whatever a client was shown of a portfolio, a later change gives it      *)
(* another revision: its next command cannot pass over what it has not seen.*)
ShownChanges(p) ==
    \/ portfolio'[p] # portfolio[p]
    \/ \E e \in Epochs : book'[<<p, e>>] # book[<<p, e>>]
    \/ \E b \in Robots : BoundTo(b, p)' /\ robot'[b].allocation # robot[b].allocation

RevisionMoves ==
    [][\A p \in Portfolios :
          ShownChanges(p) => portfolio'[p].revision > portfolio[p].revision]_vars
=============================================================================
