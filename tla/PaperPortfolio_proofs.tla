----------------------- MODULE PaperPortfolio_proofs ------------------------
(***************************************************************************)
(* Proofs about PaperPortfolio, for any portfolios, robots and bounds.      *)
(*                                                                          *)
(* RunningIsFunded needs the books to say so of every robot with an active  *)
(* allocation (Bound), a robot that the engine holds to have one (Runs), and*)
(* a reset that is about to commit to have seen all its robots stop, which  *)
(* it may rely on because commands are serial (Serial).  Then no trade      *)
(* reaches a settled ledger (SettledMatchesLedger), and the stored status   *)
(* follows the engine through starts, stops and resumes (Stored).  That the *)
(* books add up (CashConserved) takes lemmas about sums over finite sets.   *)
(***************************************************************************)
EXTENDS PaperPortfolio, TLAPS, FiniteSetTheorems, WellFoundedInduction

Fresh ==
    \A p \in Portfolios : IF portfolio[p].status = "none" THEN portfolio[p] = NoPortfolio
                                                          ELSE portfolio[p].epoch \in Epochs

Bound == \A b \in Robots : robot[b].allocation = "active" => Funded(b)

Held == {"starting", "on", "stopping"}

Runs == \A b \in Robots : runtime[b] \in Held => robot[b].allocation = "active"

Serial ==
    /\ phase # "up" => command = NoCommand
    /\ phase # "resuming" => resume = {}
    /\ phase = "down" => \A b \in Robots : runtime[b] = "off"
    /\ \A b \in Robots : b \in resume => runtime[b] = "off"
    /\ \A b \in Robots : runtime[b] = "starting" /\ phase = "up" =>
                            command.kind = "start" /\ command.awaited = {b}
    /\ command.kind = "reset" =>
         \A b \in Robots : b \in command.listed /\ Running(b) =>
                             b \in command.todo \cup command.awaited

Stored ==
    \A b \in Robots :
       /\ Running(b) => robot[b].desired = "running"
       /\ robot[b].desired = "running" =>
            \/ Running(b)
            \/ phase = "down"
            \/ phase = "resuming" /\ (b \in resume \/ runtime[b] = "starting")

Inv == PortfolioTypeOK /\ Fresh /\ Bound /\ Runs /\ Serial /\ Stored /\ SettledMatchesLedger

-----------------------------------------------------------------------------
(* Create, rename, set-default, archive touch the rows of portfolios only.  *)
Rows(p) == \/ \E m \in Amounts, d \in BOOLEAN : Create(p, m, d)
           \/ Rename(p) \/ SetDefault(p) \/ Archive(p)

(* The steps that leave portfolios, epochs and allocations alone.           *)
Quiet ==
    \/ \E b \in Robots :
          \/ \E m \in Money \cup {Unrepresentable}, open \in BOOLEAN :
                Trade(b, m, open) \/ LateTrade(b, m, open)
          \/ StartBegins(b) \/ StartEnds(b) \/ StartFails(b)
          \/ StopCommand(b) \/ OwnerStops(b) \/ StopNow(b) \/ StopEnds(b)
          \/ StopFails(b)
          \/ ResetLooksAt(b) \/ ResumeBegins(b) \/ ResumeRefused(b)
    \/ \E p \in Portfolios : ResetRejected(p) \/ \E m \in Amounts : ResetBegins(p, m)
    \/ Boot \/ ResumeEnds \/ ProcessEnds

LEMMA Cases ==
  ASSUME Next
  PROVE  \/ \E p \in Portfolios : Rows(p)
         \/ \E p \in Portfolios, b \in Robots, m \in Amounts : CreateRobot(b, p, m)
         \/ \E p \in Portfolios : ResetCommits(p)
         \/ Quiet
  BY Zenon DEF Next, Mutation, Engine, Rows, Quiet

(* What a mutation of a portfolio's row leaves alone.                       *)
LEMMA RowsFrame ==
  ASSUME NEW p \in Portfolios, Rows(p)
  PROVE  UNCHANGED <<robot, ledger, runtime, late, phase, resume, command, restarts>>
  BY DEF Rows, Create, Rename, SetDefault, Archive, NothingElse

QuietSame ==
    /\ UNCHANGED <<portfolio, book>>
    /\ robot' \in [Robots -> Robot]
    /\ \A b \in Robots : /\ robot'[b].home = robot[b].home
                         /\ robot'[b].reserved = robot[b].reserved
                         /\ robot'[b].allocation = robot[b].allocation
                         /\ robot'[b].returned = robot[b].returned

(* What a quiet step leaves alone.                                          *)
LEMMA QuietFrame ==
  ASSUME PortfolioTypeOK, Quiet
  PROVE  QuietSame
<1>1. CASE UNCHANGED books
  BY <1>1 DEF books, PortfolioTypeOK, QuietSame
<1>2. ASSUME NEW b \in Robots,
             StartEnds(b) \/ StartFails(b) \/ StopNow(b) \/ StopEnds(b) \/ ResumeRefused(b)
      PROVE  \/ UNCHANGED books
             \/ /\ UNCHANGED <<portfolio, book>>
                /\ \E s \in {"stopped", "running"} : Stores(b, s)
  BY <1>2 DEF StartEnds, StartFails, StopNow, StopEnds, ResumeRefused, FailureStored, books
<1>3. ASSUME NEW b \in Robots, NEW s \in {"stopped", "running"},
             UNCHANGED <<portfolio, book>>, Stores(b, s)
      PROVE  QuietSame
  BY <1>3 DEF Stores, PortfolioTypeOK, Robot, QuietSame
<1>4. CASE \E b \in Robots :
             StartEnds(b) \/ StartFails(b) \/ StopNow(b) \/ StopEnds(b) \/ ResumeRefused(b)
  BY <1>1, <1>2, <1>3, <1>4 DEF QuietSame
<1>5. CASE ~\E b \in Robots :
             StartEnds(b) \/ StartFails(b) \/ StopNow(b) \/ StopEnds(b) \/ ResumeRefused(b)
  <2>1. UNCHANGED books
    BY <1>5, Zenon DEF Quiet, Trade, LateTrade, StartBegins, StopCommand, OwnerStops, StopFails,
       ResetLooksAt, ResumeBegins, ResetRejected, ResetBegins, Boot, ResumeEnds, ProcessEnds
  <2>2. QED
    BY <1>1, <2>1
<1>6. QED
  BY <1>4, <1>5

-----------------------------------------------------------------------------
(* Types.  Rows stay well-formed under every kind of update.                *)
LEMMA PortfolioRow ==
  ASSUME NEW r \in Portfolio, r.revision < MaxRevision
  PROVE  /\ Bumped(r) \in Portfolio
         /\ \A d \in BOOLEAN : [Bumped(r) EXCEPT !.default = d] \in Portfolio
         /\ LET archived == [Bumped(r) EXCEPT !.status = "archived", !.default = FALSE]
            IN  /\ archived \in Portfolio
                /\ archived.status = "archived" /\ archived.default = FALSE
                /\ archived.revision = r.revision + 1
                /\ archived.epoch = r.epoch /\ archived.born = r.born
         /\ r.epoch < MaxEpoch => Bumped(NextEpoch(r)) \in Portfolio
<1> DEFINE row == Bumped(r)
           archived == [row EXCEPT !.status = "archived", !.default = FALSE]
<1>1. /\ row \in Portfolio
      /\ row.revision = r.revision + 1 /\ row.epoch = r.epoch /\ row.born = r.born
  BY PaperAssumption DEF Bumped, Portfolio
<1> HIDE DEF row
<1>2. \A d \in BOOLEAN : [row EXCEPT !.default = d] \in Portfolio
  BY <1>1 DEF Portfolio
<1>3. /\ archived \in Portfolio
      /\ archived.status = "archived" /\ archived.default = FALSE
      /\ archived.revision = r.revision + 1
      /\ archived.epoch = r.epoch /\ archived.born = r.born
  BY <1>1 DEF Portfolio
<1>4. ASSUME r.epoch < MaxEpoch
      PROVE  Bumped(NextEpoch(r)) \in Portfolio
  <2> DEFINE n == NextEpoch(r)
  <2>1. n \in Portfolio /\ n.revision = r.revision
    BY <1>4, PaperAssumption DEF NextEpoch, Portfolio
  <2>2. Bumped(n) \in Portfolio
    <3> HIDE DEF n
    <3>1. QED
      BY <2>1, PaperAssumption DEF Bumped, Portfolio
  <2>3. QED
    BY <2>2
<1>5. QED
  BY <1>1, <1>2, <1>3, <1>4 DEF row

LEMMA ClearedType ==
  ASSUME PortfolioTypeOK, \A q \in Portfolios : Active(q) => Room(q)
  PROVE  Cleared \in [Portfolios -> Portfolio]
  BY PortfolioRow DEF PortfolioTypeOK, Cleared, Room

LEMMA PromotedType ==
  ASSUME NEW rows \in [Portfolios -> Portfolio],
         \A q \in Portfolios : rows[q].status = "active" => rows[q].revision < MaxRevision
  PROVE  Promoted(rows) \in [Portfolios -> Portfolio]
  BY PortfolioRow DEF Promoted, PromotedOf

LEMMA RankType ==
  ASSUME NEW S \in SUBSET Portfolios
  PROVE  Cardinality(S) \in Nat
  BY PaperAssumption, FS_Subset, FS_CardinalityType

LEMMA RowsType ==
  ASSUME PortfolioTypeOK, NEW p \in Portfolios, Rows(p)
  PROVE  PortfolioTypeOK'
<1>1. CASE \E m \in Amounts, d \in BOOLEAN : Create(p, m, d)
  <2>1. PICK m \in Amounts, d \in BOOLEAN : Create(p, m, d)
    BY <1>1
  <2> DEFINE known == {q \in Portfolios : portfolio[q].status # "none"}
             default == d \/ ~\E q \in Portfolios : Active(q) /\ portfolio[q].default
             row == [status |-> "active", revision |-> 1, epoch |-> 1,
                     default |-> default, born |-> Cardinality(known) + 1]
  <2>2. row \in Portfolio
    BY RankType, PaperAssumption DEF Portfolio
  <2>3. \A q \in Portfolios : Active(q) => Room(q)
    BY <2>1 DEF Create, Active
  <2>4. (IF default THEN Cleared ELSE portfolio) \in [Portfolios -> Portfolio]
    BY <2>3, ClearedType DEF PortfolioTypeOK
  <2>5. portfolio' = [(IF default THEN Cleared ELSE portfolio) EXCEPT ![p] = row]
    BY <2>1 DEF Create
  <2>6. portfolio' \in [Portfolios -> Portfolio]
    <3> HIDE DEF row, default
    <3>1. QED
      BY <2>2, <2>4, <2>5
  <2>7. [status |-> "active", initial |-> m, cash |-> m] \in Book
    BY PaperAssumption DEF Book, Money
  <2>8. book' \in [Portfolios \X Epochs -> Book]
    BY <2>1, <2>7 DEF Create, PortfolioTypeOK
  <2>9. QED
    BY <1>1, <2>6, <2>8, RowsFrame DEF PortfolioTypeOK
<1>2. CASE Rename(p)
  BY <1>2, PortfolioRow, RowsFrame DEF Rename, Room, PortfolioTypeOK
<1>3. CASE SetDefault(p)
  <2>1. Cleared \in [Portfolios -> Portfolio]
    BY <1>3, ClearedType DEF SetDefault
  <2>2. Cleared[p] = portfolio[p]
    BY <1>3 DEF SetDefault, Cleared
  <2>3. [Bumped(portfolio[p]) EXCEPT !.default = TRUE] \in Portfolio
    BY <1>3, PortfolioRow DEF SetDefault, Room, PortfolioTypeOK
  <2>4. portfolio' \in [Portfolios -> Portfolio]
    BY <1>3, <2>1, <2>2, <2>3 DEF SetDefault
  <2>5. QED
    BY <1>3, <2>4, RowsFrame DEF SetDefault, PortfolioTypeOK
<1>4. CASE Archive(p)
  <2> DEFINE row == [Bumped(portfolio[p]) EXCEPT !.status = "archived", !.default = FALSE]
             rows == [portfolio EXCEPT ![p] = row]
  <2>1. row \in Portfolio /\ row.status = "archived"
    BY <1>4, PortfolioRow DEF Archive, Room, PortfolioTypeOK
  <2>2. rows \in [Portfolios -> Portfolio]
    BY <2>1 DEF PortfolioTypeOK
  <2>3. \A q \in Portfolios : rows[q].status = "active" => rows[q].revision < MaxRevision
    <3> HIDE DEF row
    <3>1. QED
      BY <1>4, <2>1 DEF Archive, Room, PortfolioTypeOK
  <2>4. Promoted(rows) \in [Portfolios -> Portfolio]
    <3> HIDE DEF rows
    <3>1. QED
      BY <2>2, <2>3, PromotedType
  <2>5. portfolio' \in [Portfolios -> Portfolio]
    BY <1>4, <2>2, <2>4 DEF Archive
  <2>6. book' \in [Portfolios \X Epochs -> Book]
    BY <1>4 DEF Archive, PortfolioTypeOK, Book
  <2>7. QED
    BY <1>4, <2>5, <2>6, RowsFrame DEF PortfolioTypeOK
<1>5. QED
  BY <1>1, <1>2, <1>3, <1>4 DEF Rows

LEMMA CreateRobotType ==
  ASSUME PortfolioTypeOK, Fresh, NEW p \in Portfolios, NEW b \in Robots, NEW m \in Amounts,
         CreateRobot(b, p, m)
  PROVE  PortfolioTypeOK'
<1> DEFINE s == Current(p)
<1>1. portfolio' \in [Portfolios -> Portfolio]
  BY PortfolioRow DEF CreateRobot, Room, PortfolioTypeOK
<1>2. book' \in [Portfolios \X Epochs -> Book]
  <2>1. CASE s \in Portfolios \X Epochs
    <3>1. book[s].cash - m \in Money
      BY <2>1, PaperAssumption DEF CreateRobot, Affordable, PortfolioTypeOK, Book, Money
    <3>2. QED
      BY <2>1, <3>1 DEF CreateRobot, PortfolioTypeOK, Book
  <2>2. CASE s \notin Portfolios \X Epochs
    BY <2>2 DEF CreateRobot, PortfolioTypeOK
  <2>3. QED
    BY <2>1, <2>2
<1>3. s \in Portfolios \X Epochs
  BY DEF CreateRobot, Active, Current, Fresh
<1>4. m \in Money
  BY PaperAssumption DEF Money
<1>5. robot' \in [Robots -> Robot]
  BY <1>3, <1>4 DEF CreateRobot, PortfolioTypeOK, Robot, NoRobot
<1>6. ledger' \in [Robots -> [balance : Money \cup {Unrepresentable}, open : BOOLEAN]]
  BY <1>4 DEF CreateRobot, PortfolioTypeOK
<1>7. QED
  BY <1>1, <1>2, <1>5, <1>6 DEF CreateRobot, PortfolioTypeOK

LEMMA ResetCommitsType ==
  ASSUME PortfolioTypeOK, Fresh, NEW p \in Portfolios, ResetCommits(p)
  PROVE  PortfolioTypeOK'
<1> DEFINE bots == Allocated(p)
           old == Current(p)
           next == <<p, portfolio[p].epoch + 1>>
<1>1. portfolio' \in [Portfolios -> Portfolio]
  <2> DEFINE row == Bumped(NextEpoch(portfolio[p]))
  <2>1. row \in Portfolio
    BY PortfolioRow DEF ResetCommits, Room, PortfolioTypeOK
  <2>2. portfolio' = [portfolio EXCEPT ![p] = row]
    BY DEF ResetCommits
  <2> HIDE DEF row
  <2>3. QED
    BY <2>1, <2>2 DEF PortfolioTypeOK
<1>2. /\ old \in Portfolios \X Epochs
      /\ next \in Portfolios \X Epochs
      /\ old # next
  BY PaperAssumption DEF ResetCommits, Active, Current, Fresh, Epochs
<1>3. book' \in [Portfolios \X Epochs -> Book]
  <2> DEFINE settled == Settled(book[old], Returned(p))
             opened == [status |-> "active", initial |-> command.capital,
                        cash |-> command.capital]
  <2>1. settled \in Book
    <3>1. book[old] \in Book
      BY <1>2 DEF PortfolioTypeOK
    <3>2. book[old].cash + Returned(p) \in Money
      BY DEF ResetCommits
    <3> HIDE DEF old
    <3>3. QED
      BY <3>1, <3>2 DEF Settled, Book
  <2>2. opened \in Book
    BY DEF PortfolioTypeOK, Command, Book
  <2>3. book' = [book EXCEPT ![old] = settled, ![next] = opened]
    BY DEF ResetCommits
  <2> HIDE DEF old, next, settled, opened
  <2>4. QED
    BY <1>2, <2>1, <2>2, <2>3 DEF PortfolioTypeOK
<1>4. robot' \in [Robots -> Robot]
  <2>1. \A b \in bots : Closed(robot[b], ledger[b].balance) \in Robot
    <3> SUFFICES ASSUME NEW b \in bots
                 PROVE  Closed(robot[b], ledger[b].balance) \in Robot
      OBVIOUS
    <3>1. ledger[b].balance \in Money
      BY DEF ResetCommits, Flat, PortfolioTypeOK, Allocated
    <3>2. robot[b] \in Robot
      BY DEF PortfolioTypeOK, Allocated
    <3>3. QED
      BY <3>1, <3>2 DEF Closed, Robot
  <2>2. QED
    BY <2>1 DEF ResetCommits, PortfolioTypeOK
<1>5. NoCommand \in Command
  BY PaperAssumption DEF NoCommand, Command, Money
<1>6. QED
  BY <1>1, <1>3, <1>4, <1>5 DEF ResetCommits, PortfolioTypeOK

LEMMA QuietType ==
  ASSUME PortfolioTypeOK, Quiet
  PROVE  PortfolioTypeOK'
<1>1. NoCommand \in Command
  BY PaperAssumption DEF NoCommand, Command, Money
<1>2. ledger' \in [Robots -> [balance : Money \cup {Unrepresentable}, open : BOOLEAN]]
  <2>1. ASSUME NEW b \in Robots, NEW m \in Money \cup {Unrepresentable}, NEW open \in BOOLEAN,
               Trade(b, m, open) \/ LateTrade(b, m, open)
        PROVE  ledger' \in [Robots -> [balance : Money \cup {Unrepresentable}, open : BOOLEAN]]
    <3> DEFINE row == [balance |-> m, open |-> open]
    <3>1. row \in [balance : Money \cup {Unrepresentable}, open : BOOLEAN]
      OBVIOUS
    <3>2. ledger' = [ledger EXCEPT ![b] = row]
      BY <2>1 DEF Trade, LateTrade
    <3> HIDE DEF row
    <3>3. QED
      BY <3>1, <3>2 DEF PortfolioTypeOK
  <2>2. CASE \E b \in Robots : \E m \in Money \cup {Unrepresentable}, open \in BOOLEAN :
               Trade(b, m, open) \/ LateTrade(b, m, open)
    BY <2>1, <2>2
  <2>3. CASE UNCHANGED ledger
    BY <2>3 DEF PortfolioTypeOK
  <2>4. UNCHANGED ledger \/ \E b \in Robots :
             \E m \in Money \cup {Unrepresentable}, open \in BOOLEAN :
               Trade(b, m, open) \/ LateTrade(b, m, open)
    BY DEF Quiet, StartBegins, StartEnds, StartFails, StopCommand, OwnerStops, StopNow,
       StopEnds, StopFails, ResetLooksAt, ResumeBegins, ResumeRefused, ResetRejected, ResetBegins,
       Boot, ResumeEnds, ProcessEnds, books
  <2>5. QED
    BY <2>2, <2>3, <2>4
<1>3. runtime' \in [Robots -> {"off", "starting", "on", "stopping", "draining"}]
  <2>1. \/ UNCHANGED runtime
        \/ runtime' = [b \in Robots |-> "off"]
        \/ \E b \in Robots, state \in {"off", "starting", "on", "stopping", "draining"} :
              Becomes(b, state)
        \/ \E b \in Robots : StopNow(b)
    BY Zenon DEF Quiet, Trade, LateTrade, StartBegins, StartEnds, StartFails, StopCommand,
       OwnerStops, StopEnds, StopFails, ResetLooksAt, ResumeBegins, ResumeRefused, ResetRejected,
       ResetBegins, Boot, ResumeEnds, ProcessEnds, books
  <2>2. QED
    BY <2>1 DEF StopNow, Becomes, PortfolioTypeOK
<1>4. command' \in Command
  <2>1. ASSUME NEW kind \in {"start", "stop"}, NEW b \in Robots
        PROVE  [NoCommand EXCEPT !.kind = kind, !.awaited = {b}] \in Command
    BY <2>1, <1>1 DEF Command
  <2>2. ASSUME NEW p \in Portfolios, NEW m \in Amounts, ResetBegins(p, m)
        PROVE  command' \in Command
    <3> DEFINE bots == Allocated(p)
    <3>1. m \in Money
      BY PaperAssumption DEF Money
    <3>2. bots \subseteq Robots
      BY DEF Allocated
    <3>3. command' = [NoCommand EXCEPT !.kind = "reset", !.target = {p}, !.capital = m,
                                       !.listed = bots, !.todo = bots]
      BY <2>2 DEF ResetBegins
    <3> HIDE DEF bots
    <3>4. QED
      BY <1>1, <3>1, <3>2, <3>3 DEF Command
  <2>3. ASSUME NEW b \in Robots
        PROVE  /\ [command EXCEPT !.awaited = @ \ {b}] \in Command
               /\ [command EXCEPT !.todo = @ \ {b}] \in Command
               /\ [command EXCEPT !.todo = @ \ {b}, !.awaited = {b}] \in Command
    BY <2>3 DEF PortfolioTypeOK, Command
  <2>4. command \in Command
    BY DEF PortfolioTypeOK
  <2>5. \/ UNCHANGED command
        \/ command' = NoCommand
        \/ \E b \in Robots :
              \/ \E kind \in {"start", "stop"} :
                   command' = [NoCommand EXCEPT !.kind = kind, !.awaited = {b}]
              \/ command' = [command EXCEPT !.awaited = @ \ {b}]
              \/ command' = [command EXCEPT !.todo = @ \ {b}]
              \/ command' = [command EXCEPT !.todo = @ \ {b}, !.awaited = {b}]
        \/ \E p \in Portfolios, m \in Amounts : ResetBegins(p, m)
    BY Zenon DEF Quiet, Trade, LateTrade, StartBegins, StartEnds, StartFails, StopCommand,
       OwnerStops, StopNow, StopEnds, AwaitOver, StopFails, ResetLooksAt, ResumeBegins,
       ResumeRefused,
       ResetRejected, Boot, ResumeEnds, ProcessEnds
  <2>6. QED
    BY <1>1, <2>1, <2>2, <2>3, <2>4, <2>5, Zenon
<1>5. /\ phase' \in {"down", "resuming", "up"}
      /\ resume' \subseteq Robots
      /\ restarts' \in 0 .. MaxRestarts
      /\ late' \subseteq Robots
  <2>1. /\ \/ UNCHANGED phase
           \/ phase' \in {"down", "resuming", "up"}
        /\ \/ UNCHANGED resume
           \/ resume' = {} 
           \/ resume' = {b \in Robots : robot[b].desired = "running"}
           \/ \E b \in Robots : resume' = resume \ {b}
        /\ \/ UNCHANGED restarts
           \/ restarts < MaxRestarts /\ restarts' = restarts + 1
        /\ \/ UNCHANGED late
           \/ late' = {}
           \/ \E b \in Robots : late' \in {late \cup {b}, late \ {b}}
    BY DEF Quiet, Trade, LateTrade, StartBegins, StartEnds, StartFails,
     StopCommand, OwnerStops, StopNow, StopEnds, StopFails, ResetLooksAt, ResumeBegins,
     ResumeRefused, ResetRejected, ResetBegins, Boot, ResumeEnds, ProcessEnds
  <2>2. QED
    BY <2>1, PaperAssumption DEF PortfolioTypeOK
<1>6. QED
  BY <1>2, <1>3, <1>4, <1>5, QuietFrame DEF QuietSame, PortfolioTypeOK

-----------------------------------------------------------------------------
(* What a mutation does to the row of any portfolio.                        *)
Touched(new, old) ==
    /\ new.revision = old.revision + 1
    /\ new.epoch = old.epoch
    /\ new.status = old.status
    /\ new.born = old.born

LEMMA TouchedRow ==
  ASSUME NEW r \in Portfolio
  PROVE  Touched(Bumped(r), r) /\ \A d : Touched([Bumped(r) EXCEPT !.default = d], r)
  BY DEF Touched, Bumped, Portfolio

LEMMA ClearedRow ==
  ASSUME PortfolioTypeOK, NEW q \in Portfolios
  PROVE  \/ Cleared[q] = portfolio[q]
         \/ Active(q) /\ Touched(Cleared[q], portfolio[q])
  BY TouchedRow DEF Cleared, PortfolioTypeOK

LEMMA PromotedRow ==
  ASSUME NEW rows \in [Portfolios -> Portfolio], NEW q \in Portfolios
  PROVE  \/ Promoted(rows)[q] = rows[q]
         \/ rows[q].status = "active" /\ Touched(Promoted(rows)[q], rows[q])
  BY TouchedRow DEF Promoted, PromotedOf

Known == {p \in Portfolios : portfolio[p].status # "none"}

(* A row is left alone, or touched once, or made, or archived.              *)
RowStep(p, q) ==
    \/ portfolio'[q] = portfolio[q] /\ q # p
    \/ portfolio[q].status # "none" /\ Touched(portfolio'[q], portfolio[q])
    \/ /\ p = q
       /\ portfolio[q].status = "none" /\ portfolio'[q].status = "active"
       /\ portfolio'[q].epoch = 1 /\ portfolio'[q].revision = 1
       /\ portfolio'[q].born = Cardinality(Known) + 1
    \/ /\ p = q
       /\ Active(q) /\ portfolio'[q].status = "archived"
       /\ portfolio'[q].revision = portfolio[q].revision + 1
       /\ portfolio'[q].epoch = portfolio[q].epoch
       /\ portfolio'[q].born = portfolio[q].born
       /\ \A b \in Robots : BoundTo(b, q) => robot[b].allocation # "active"

(* Epochs of other portfolios are left alone, and those of p unless it is   *)
(* made or archived.                                                        *)
LEMMA RowsStep ==
  ASSUME PortfolioTypeOK, NEW p \in Portfolios, Rows(p)
  PROVE  /\ \A q \in Portfolios : RowStep(p, q)
         /\ \A q \in Portfolios, e \in Epochs : q # p => book'[<<q, e>>] = book[<<q, e>>]
         /\ Active(p) /\ Active(p)' => UNCHANGED book
<1>1. CASE \E m \in Amounts, d \in BOOLEAN : Create(p, m, d)
  <2>1. PICK m \in Amounts, d \in BOOLEAN : Create(p, m, d)
    BY <1>1
  <2> DEFINE known == {q \in Portfolios : portfolio[q].status # "none"}
             default == d \/ ~\E q \in Portfolios : Active(q) /\ portfolio[q].default
             row == [status |-> "active", revision |-> 1, epoch |-> 1,
                     default |-> default, born |-> Cardinality(known) + 1]
  <2>2. /\ portfolio' = [(IF default THEN Cleared ELSE portfolio) EXCEPT ![p] = row]
        /\ portfolio[p].status = "none"
    BY <2>1 DEF Create
  <2>3. /\ row.status = "active" /\ row.epoch = 1 /\ row.revision = 1
        /\ row.born = Cardinality(Known) + 1
    BY DEF Known
  <2> HIDE DEF row, default
  <2>4. portfolio'[p] = row
    BY <2>2 DEF Cleared, PortfolioTypeOK
  <2>5. \A q \in Portfolios : q # p => portfolio'[q] \in {portfolio[q], Cleared[q]}
    BY <2>2 DEF Cleared, PortfolioTypeOK
  <2>6. \A q \in Portfolios : RowStep(p, q)
    BY <2>2, <2>3, <2>4, <2>5, ClearedRow DEF RowStep, Active
  <2>7. \A q \in Portfolios, e \in Epochs : q # p => book'[<<q, e>>] = book[<<q, e>>]
    BY <2>1 DEF Create, PortfolioTypeOK
  <2>8. QED
    BY <2>2, <2>6, <2>7 DEF Active
<1>2. CASE Rename(p)
  BY <1>2, TouchedRow DEF Rename, RowStep, PortfolioTypeOK
<1>3. CASE SetDefault(p)
  <2> DEFINE row == [Bumped(portfolio[p]) EXCEPT !.default = TRUE]
  <2>1. Active(p) /\ Touched(row, portfolio[p])
    BY <1>3, TouchedRow DEF SetDefault, PortfolioTypeOK
  <2>2. Cleared[p] = portfolio[p]
    BY <1>3 DEF SetDefault, Cleared
  <2>3. portfolio' = [Cleared EXCEPT ![p] = row]
    BY <1>3, <2>2 DEF SetDefault
  <2> HIDE DEF row
  <2>4. portfolio'[p] = row /\ \A q \in Portfolios : q # p => portfolio'[q] = Cleared[q]
    BY <2>3 DEF Cleared
  <2>5. \A q \in Portfolios : RowStep(p, q)
    BY <2>1, <2>4, ClearedRow DEF RowStep, Active
  <2>6. QED
    BY <1>3, <2>5 DEF SetDefault
<1>4. CASE Archive(p)
  <2> DEFINE row == [Bumped(portfolio[p]) EXCEPT !.status = "archived", !.default = FALSE]
             rows == [portfolio EXCEPT ![p] = row]
  <2>1. /\ row \in Portfolio /\ row.status = "archived"
        /\ row.revision = portfolio[p].revision + 1
        /\ row.epoch = portfolio[p].epoch /\ row.born = portfolio[p].born
    BY <1>4, PortfolioRow DEF Archive, Room, PortfolioTypeOK
  <2>2. portfolio' = rows \/ portfolio' = Promoted(rows)
    BY <1>4 DEF Archive
  <2> HIDE DEF row
  <2>3. /\ rows \in [Portfolios -> Portfolio]
        /\ rows[p] = row /\ \A q \in Portfolios : q # p => rows[q] = portfolio[q]
    BY <2>1 DEF PortfolioTypeOK
  <2> HIDE DEF rows
  <2>4. portfolio'[p] = row
    BY <2>1, <2>2, <2>3, PromotedRow
  <2>5. \A q \in Portfolios :
           q # p => \/ portfolio'[q] = portfolio[q]
                    \/ Active(q) /\ Touched(portfolio'[q], portfolio[q])
    BY <2>2, <2>3, PromotedRow DEF Active
  <2>6. /\ Active(p)
        /\ \A b \in Robots : BoundTo(b, p) => robot[b].allocation # "active"
    BY <1>4 DEF Archive
  <2>7. \A q \in Portfolios : RowStep(p, q)
    BY <2>1, <2>4, <2>5, <2>6 DEF RowStep, Active
  <2>8. \A q \in Portfolios, e \in Epochs : q # p => book'[<<q, e>>] = book[<<q, e>>]
    BY <1>4 DEF Archive, Current, PortfolioTypeOK
  <2>9. QED
    BY <2>1, <2>4, <2>7, <2>8 DEF Active
<1>5. QED
  BY <1>1, <1>2, <1>3, <1>4 DEF Rows

(* Fresh: only Create makes a row, with an epoch; a reset moves the epoch   *)
(* within the bound, and no other mutation touches it.                      *)
LEMMA FreshInv ==
  ASSUME Inv, Next
  PROVE  Fresh'
<1> USE DEF Inv
<1>1. ASSUME NEW p \in Portfolios, Rows(p)
      PROVE  Fresh'
  BY <1>1, RowsStep, PaperAssumption DEF RowStep, Touched, Active, Fresh, Epochs
<1>2. ASSUME NEW p \in Portfolios, NEW b \in Robots, NEW m \in Amounts, CreateRobot(b, p, m)
      PROVE  Fresh'
  BY <1>2, TouchedRow DEF CreateRobot, Touched, PortfolioTypeOK, Fresh, Active
<1>3. ASSUME NEW p \in Portfolios, ResetCommits(p)
      PROVE  Fresh'
  <2> DEFINE row == Bumped(NextEpoch(portfolio[p]))
  <2>1. row.status = portfolio[p].status /\ row.epoch = portfolio[p].epoch + 1
    BY DEF Bumped, NextEpoch, PortfolioTypeOK, Portfolio
  <2>2. row.status # "none" /\ row.epoch \in Epochs
    BY <1>3, <2>1, PaperAssumption DEF ResetCommits, Active, Fresh, Epochs
  <2>3. portfolio' = [portfolio EXCEPT ![p] = row]
    BY <1>3 DEF ResetCommits
  <2> HIDE DEF row
  <2>4. QED
    BY <2>2, <2>3 DEF Fresh, PortfolioTypeOK
<1>4. CASE Quiet
  BY <1>4, QuietFrame DEF QuietSame, Fresh
<1>5. QED
  BY <1>1, <1>2, <1>3, <1>4, Cases

-----------------------------------------------------------------------------
(* Bound: an archive finds no active allocation, a reset closes every one   *)
(* of the epoch it closes, and the others touch no book a robot lives on.   *)
FundedAt(b, p) ==
    /\ Active(p)
    /\ book[Current(p)].status = "active"
    /\ robot[b].home = Current(p)
    /\ robot[b].allocation = "active"

LEMMA FundedSomewhere ==
  ASSUME NEW b \in Robots
  PROVE  Funded(b) <=> \E p \in Portfolios : FundedAt(b, p)
  BY DEF Funded, FundedAt, Allocated

LEMMA BoundInv ==
  ASSUME Inv, Next
  PROVE  Bound'
<1> USE DEF Inv
<1>1. ASSUME NEW c \in Robots, NEW q \in Portfolios, FundedAt(c, q)' PROVE Funded(c)'
  BY <1>1 DEF Funded, FundedAt, Allocated
<1>2. ASSUME NEW p \in Portfolios, Rows(p)
      PROVE  Bound'
  <2> SUFFICES ASSUME NEW c \in Robots, robot[c].allocation = "active"
               PROVE  Funded(c)'
    BY <1>2, RowsFrame DEF Bound
  <2>1. PICK q \in Portfolios : FundedAt(c, q)
    BY FundedSomewhere DEF Bound
  <2>2. portfolio[q].epoch \in Epochs
    BY <2>1 DEF FundedAt, Active, Fresh
  <2>3. Active(q)' /\ portfolio'[q].epoch = portfolio[q].epoch
    <3>1. RowStep(p, q)
      BY <1>2, RowsStep
    <3>2. BoundTo(c, q)
      BY <2>1, <2>2 DEF FundedAt, BoundTo, Current
    <3>3. QED
      BY <2>1, <3>1, <3>2 DEF FundedAt, RowStep, Touched, Active
  <2>4. book'[Current(q)] = book[Current(q)]
    BY <1>2, <2>1, <2>2, <2>3, RowsStep DEF FundedAt, Current
  <2>5. FundedAt(c, q)'
    BY <1>2, <2>1, <2>3, <2>4, RowsFrame DEF FundedAt, Current
  <2>6. QED
    BY <1>1, <2>5
<1>3. ASSUME NEW p \in Portfolios, NEW b \in Robots, NEW m \in Amounts, CreateRobot(b, p, m)
      PROVE  Bound'
  <2>1. \A q \in Portfolios : /\ portfolio'[q].status = portfolio[q].status
                              /\ portfolio'[q].epoch = portfolio[q].epoch
    BY <1>3, TouchedRow DEF CreateRobot, Touched, PortfolioTypeOK
  <2>2. \A q \in Portfolios : Active(q) => book'[Current(q)].status = book[Current(q)].status
    BY <1>3 DEF CreateRobot, Current, PortfolioTypeOK, Book, Active, Fresh
  <2>3. ASSUME NEW c \in Robots, c # b, robot[c].allocation = "active" PROVE Funded(c)'
    <3>1. PICK q \in Portfolios : FundedAt(c, q)
      BY <2>3, FundedSomewhere DEF Bound
    <3>2. robot'[c] = robot[c]
      BY <1>3, <2>3 DEF CreateRobot, PortfolioTypeOK
    <3>3. FundedAt(c, q)'
      BY <2>1, <2>2, <3>1, <3>2 DEF FundedAt, Current, Active
    <3>4. QED
      BY <1>1, <3>3
  <2>4. FundedAt(b, p)'
    <3>1. robot'[b].home = Current(p) /\ robot'[b].allocation = "active"
      BY <1>3 DEF CreateRobot, PortfolioTypeOK, NoRobot
    <3>2. Active(p) /\ book[Current(p)].status = "active"
      BY <1>3 DEF CreateRobot
    <3>3. QED
      BY <2>1, <2>2, <3>1, <3>2 DEF FundedAt, Current, Active
  <2>5. \A c \in Robots : c # b => robot'[c] = robot[c]
    BY <1>3 DEF CreateRobot, PortfolioTypeOK
  <2>6. QED
    BY <1>1, <2>3, <2>4, <2>5 DEF Bound
<1>4. ASSUME NEW p \in Portfolios, ResetCommits(p)
      PROVE  Bound'
  <2> SUFFICES ASSUME NEW c \in Robots, robot'[c].allocation = "active"
               PROVE  Funded(c)'
    BY DEF Bound
  <2>1. c \notin Allocated(p) /\ robot'[c] = robot[c]
    <3>1. robot'[c] = IF c \in Allocated(p) THEN Closed(robot[c], ledger[c].balance)
                                            ELSE robot[c]
      BY <1>4 DEF ResetCommits
    <3>2. Closed(robot[c], ledger[c].balance).allocation = "closed"
      BY DEF Closed, PortfolioTypeOK, Robot
    <3>3. QED
      BY <3>1, <3>2
  <2>2. PICK q \in Portfolios : FundedAt(c, q)
    BY <2>1, FundedSomewhere DEF Bound
  <2>3. q # p
    BY <2>1, <2>2 DEF FundedAt, Allocated
  <2>4. portfolio'[q] = portfolio[q]
    BY <1>4, <2>3 DEF ResetCommits, PortfolioTypeOK
  <2>5. book'[Current(q)] = book[Current(q)]
    <3>1. Current(q) \in Portfolios \X Epochs
      BY <2>2 DEF FundedAt, Active, Fresh, Current
    <3>2. QED
      BY <1>4, <2>3, <3>1 DEF ResetCommits, Current, PortfolioTypeOK
  <2>6. FundedAt(c, q)'
    BY <2>1, <2>2, <2>4, <2>5 DEF FundedAt, Current, Active
  <2>7. QED
    BY <1>1, <2>6
<1>5. CASE Quiet
  BY <1>5, QuietFrame DEF QuietSame, Bound, Funded, Active, Current, Allocated
<1>6. QED
  BY <1>2, <1>3, <1>4, <1>5, Cases

-----------------------------------------------------------------------------
(* The value of runtime after a robot Becomes something.                    *)
LEMMA RuntimeOf ==
  ASSUME PortfolioTypeOK, NEW b \in Robots, NEW s, Becomes(b, s)
  PROVE  runtime'[b] = s /\ \A c \in Robots : c # b => runtime'[c] = runtime[c]
  BY DEF Becomes, PortfolioTypeOK

(* Serial: a start is awaited by the one command or by a resume, and a reset*)
(* crosses a robot off only when it does not run, or waits for it to stop.  *)
LEMMA SerialInv ==
  ASSUME Inv, Next
  PROVE  Serial'
<1> USE DEF Inv
<1> DEFINE Command1(kind, b) == [NoCommand EXCEPT !.kind = kind, !.awaited = {b}]
<1>1. /\ NoCommand.kind = "none"
      /\ \A kind, b : Command1(kind, b).kind = kind /\ Command1(kind, b).awaited = {b}
  BY DEF NoCommand
<1> HIDE DEF Command1
<1>2. CASE UNCHANGED <<runtime, phase, resume, command>>
  BY <1>2 DEF Serial, Running
<1>3. ASSUME NEW b \in Robots, StartBegins(b) PROVE Serial'
  <2>1. command' = Command1("start", b)
    BY <1>3 DEF StartBegins, Command1
  <2>2. QED
    BY <1>1, <1>3, <2>1, RuntimeOf DEF StartBegins, ExecutorReady, Serial
<1>4. ASSUME NEW b \in Robots, StopCommand(b) PROVE Serial'
  <2>1. command' = Command1("stop", b)
    BY <1>4 DEF StopCommand, Command1
  <2>2. QED
    BY <1>1, <1>4, <2>1, RuntimeOf DEF StopCommand, ExecutorReady, Serial
<1>5. ASSUME NEW b \in Robots, StartEnds(b) \/ StartFails(b) PROVE Serial'
  <2>1. /\ runtime[b] = "starting" /\ phase' = phase /\ resume' = resume
        /\ command' = (IF command.kind = "start" THEN NoCommand ELSE command)
        /\ \E s \in {"on", "off"} : Becomes(b, s)
    BY <1>5 DEF StartEnds, StartFails
  <2>2. CASE phase = "up"
    <3>1. command' = NoCommand /\ \A c \in Robots : runtime[c] = "starting" => c = b
      BY <2>1, <2>2 DEF Serial
    <3>2. QED
      BY <1>1, <2>1, <2>2, <3>1, RuntimeOf DEF Serial
  <2>3. CASE phase # "up"
    BY <1>1, <2>1, <2>3, RuntimeOf DEF Serial
  <2>4. QED
    BY <2>2, <2>3
<1>6. ASSUME NEW b \in Robots, OwnerStops(b) \/ StopNow(b) PROVE Serial'
  BY <1>6, RuntimeOf DEF OwnerStops, StopNow, Serial, Running
<1>7. ASSUME NEW b \in Robots, StopEnds(b) PROVE Serial'
  <2> DEFINE rest == [command EXCEPT !.awaited = @ \ {b}]
  <2>1. /\ rest.kind = command.kind /\ rest.awaited = command.awaited \ {b}
        /\ rest.listed = command.listed /\ rest.todo = command.todo
    BY DEF PortfolioTypeOK, Command
  <2>2. \/ command' = NoCommand /\ command.kind = "stop"
        \/ command' = rest
    BY <1>7 DEF StopEnds, AwaitOver
  <2>3. command = NoCommand => rest = NoCommand
    BY DEF NoCommand
  <2> HIDE DEF rest
  <2>4. QED
    BY <1>1, <1>7, <2>1, <2>2, <2>3, RuntimeOf DEF StopEnds, Serial, Running
<1>8. ASSUME NEW b \in Robots, StopFails(b) PROVE Serial'
  <2>1. \A c \in Robots : runtime[c] = "starting" /\ phase = "up" => b \notin command.awaited
    BY <1>8 DEF StopFails, Serial
  <2>2. QED
    BY <1>1, <1>8, <2>1, RuntimeOf DEF StopFails, Serial, Running
<1>9. ASSUME NEW p \in Portfolios, NEW m \in Amounts, ResetBegins(p, m) PROVE Serial'
  <2> DEFINE bots == Allocated(p)
             reset == [NoCommand EXCEPT !.kind = "reset", !.target = {p}, !.capital = m,
                                        !.listed = bots, !.todo = bots]
  <2>1. reset.kind = "reset" /\ reset.listed = bots /\ reset.todo = bots
    BY DEF NoCommand
  <2>2. command' = reset
    BY <1>9 DEF ResetBegins
  <2>3. \A c \in Robots : runtime[c] # "starting"
    BY <1>1, <1>9 DEF ResetBegins, ExecutorReady, Serial
  <2> HIDE DEF reset, bots
  <2>4. QED
    BY <1>9, <2>1, <2>2, <2>3 DEF ResetBegins, ExecutorReady, Serial, Running
<1>10. ASSUME NEW b \in Robots, ResetLooksAt(b) PROVE Serial'
  <2> DEFINE past == [command EXCEPT !.todo = @ \ {b}]
             stop == [command EXCEPT !.todo = @ \ {b}, !.awaited = {b}]
  <2>1. /\ past.kind = "reset" /\ past.todo = command.todo \ {b}
        /\ past.awaited = command.awaited /\ past.listed = command.listed
        /\ stop.kind = "reset" /\ stop.todo = command.todo \ {b}
        /\ stop.awaited = {b} /\ stop.listed = command.listed
    BY <1>10 DEF ResetLooksAt, PortfolioTypeOK, Command
  <2>2. /\ command.kind = "reset" /\ command.awaited = {}
        /\ UNCHANGED <<phase, resume>>
        /\ \/ Running(b) /\ Becomes(b, "stopping") /\ command' = stop
           \/ ~Running(b) /\ UNCHANGED runtime /\ command' = past
    BY <1>10 DEF ResetLooksAt
  <2>3. phase = "up"
    BY <1>1, <2>2 DEF Serial, PortfolioTypeOK
  <2> HIDE DEF past, stop
  <2>4. QED
    BY <2>1, <2>2, <2>3, RuntimeOf DEF Serial, Running
<1>11. ASSUME NEW p \in Portfolios, ResetCommits(p) \/ ResetRejected(p) PROVE Serial'
  <2>1. /\ command.kind = "reset" /\ command' = NoCommand
        /\ UNCHANGED <<runtime, phase, resume>>
    BY <1>11 DEF ResetCommits, ResetRejected, ResetReaches
  <2>2. QED
    BY <1>1, <2>1 DEF Serial
<1>12. CASE Boot
  BY <1>1, <1>12 DEF Boot, Serial, Running
<1>13. ASSUME NEW b \in Robots, ResumeBegins(b) PROVE Serial'
  BY <1>1, <1>13, RuntimeOf DEF ResumeBegins, Serial
<1>14. ASSUME NEW b \in Robots, ResumeRefused(b) PROVE Serial'
  BY <1>1, <1>14 DEF ResumeRefused, Serial
<1>15. CASE ResumeEnds
  BY <1>1, <1>15 DEF ResumeEnds, NoneStarting, Serial
<1>16. CASE ProcessEnds
  BY <1>1, <1>16 DEF ProcessEnds, Serial
<1>17. ASSUME NEW b \in Robots, NEW p \in Portfolios, NEW m \in Amounts, CreateRobot(b, p, m)
       PROVE  Serial'
  BY <1>2, <1>17 DEF CreateRobot
<1>18. ASSUME NEW b \in Robots, NEW m \in Money \cup {Unrepresentable}, NEW open \in BOOLEAN,
              Trade(b, m, open) \/ LateTrade(b, m, open)
       PROVE  Serial'
  BY <1>2, <1>18 DEF Trade, LateTrade
<1>19. ASSUME NEW p \in Portfolios, Rows(p) PROVE Serial'
  BY <1>2, <1>19, RowsFrame
<1>20. CASE Quiet
  BY <1>3, <1>4, <1>5, <1>6, <1>7, <1>8, <1>9, <1>10, <1>11, <1>12, <1>13, <1>14, <1>15,
     <1>16, <1>18, <1>20, Zenon DEF Quiet
<1>21. QED
  BY <1>11, <1>17, <1>19, <1>20, Cases

-----------------------------------------------------------------------------
(* When a reset commits, none of the robots it closes is in the engine.     *)
LEMMA ResetFindsThemOff ==
  ASSUME Inv, NEW p \in Portfolios, ResetCommits(p), NEW b \in Allocated(p)
  PROVE  runtime[b] \notin Held
<1>1. /\ command.kind = "reset" /\ command.todo = {} /\ command.awaited = {}
      /\ b \in command.listed /\ b \in Robots
  BY DEF ResetCommits, ResetReaches, Allocated
<1>2. ~Running(b)
  BY <1>1 DEF Inv, Serial
<1>3. phase = "up"
  BY <1>1 DEF Inv, Serial, NoCommand
<1>4. runtime[b] # "starting"
  BY <1>1, <1>3 DEF Inv, Serial
<1>5. QED
  BY <1>1, <1>2, <1>4 DEF Held, Running

(* How a reset changes a robot.                                             *)
LEMMA ResetRobot ==
  ASSUME PortfolioTypeOK, NEW p \in Portfolios, ResetCommits(p), NEW c \in Robots
  PROVE  /\ c \notin Allocated(p) => robot'[c] = robot[c]
         /\ c \in Allocated(p) => /\ robot'[c].allocation = "closed"
                                  /\ robot'[c].returned = ledger[c].balance
                                  /\ robot'[c].desired = robot[c].desired
                                  /\ robot'[c].home = robot[c].home
                                  /\ robot'[c].reserved = robot[c].reserved
                                  /\ Flat(c)
<1>1. robot'[c] = IF c \in Allocated(p) THEN Closed(robot[c], ledger[c].balance) ELSE robot[c]
  BY DEF ResetCommits
<1>2. /\ Closed(robot[c], ledger[c].balance).allocation = "closed"
      /\ Closed(robot[c], ledger[c].balance).returned = ledger[c].balance
      /\ Closed(robot[c], ledger[c].balance).desired = robot[c].desired
      /\ Closed(robot[c], ledger[c].balance).home = robot[c].home
      /\ Closed(robot[c], ledger[c].balance).reserved = robot[c].reserved
  BY DEF Closed, PortfolioTypeOK, Robot
<1>3. QED
  BY <1>1, <1>2 DEF ResetCommits

(* How creating a robot changes it.                                         *)
LEMMA NewRobot ==
  ASSUME PortfolioTypeOK, NEW p \in Portfolios, NEW b \in Robots, NEW m \in Amounts,
         CreateRobot(b, p, m)
  PROVE  /\ \A c \in Robots : c # b => robot'[c] = robot[c] /\ ledger'[c] = ledger[c]
         /\ robot[b] = NoRobot
         /\ robot'[b].allocation = "active" /\ robot'[b].desired = "stopped"
         /\ robot'[b].home = Current(p) /\ robot'[b].reserved = m /\ robot'[b].returned = 0
         /\ UNCHANGED <<runtime, phase, resume>>
  BY DEF CreateRobot, NoRobot, PortfolioTypeOK

(* Runs: a robot is started only if it is Funded, and closed only when off. *)
LEMMA RunsInv ==
  ASSUME Inv, Next
  PROVE  Runs'
<1> USE DEF Inv
<1>1. ASSUME NEW p \in Portfolios, Rows(p) PROVE Runs'
  BY <1>1, RowsFrame DEF Runs
<1>2. ASSUME NEW p \in Portfolios, NEW b \in Robots, NEW m \in Amounts, CreateRobot(b, p, m)
      PROVE  Runs'
  BY <1>2, NewRobot DEF Runs
<1>3. ASSUME NEW p \in Portfolios, ResetCommits(p) PROVE Runs'
  <2>1. UNCHANGED runtime
    BY <1>3 DEF ResetCommits
  <2>2. QED
    BY <1>3, <2>1, ResetRobot, ResetFindsThemOff DEF Runs
<1>4. CASE Quiet
  <2>1. ASSUME NEW b \in Robots, NEW s, Becomes(b, s),
               runtime[b] \in Held \/ Funded(b) \/ s \notin Held
        PROVE  Runs'
    <3>1. robot[b].allocation = "active" \/ s \notin Held
      BY <2>1 DEF Runs, Funded, Allocated
    <3>2. QED
      BY <2>1, <3>1, <1>4, RuntimeOf, QuietFrame DEF QuietSame, Runs
  <2>2. CASE UNCHANGED runtime \/ ProcessEnds
    BY <2>2, <1>4, QuietFrame DEF QuietSame, Runs, Held, ProcessEnds
  <2>3. \/ UNCHANGED runtime \/ ProcessEnds
        \/ \E b \in Robots, s \in {"off", "starting", "on", "stopping", "draining"} :
              Becomes(b, s) /\ (runtime[b] \in Held \/ Funded(b) \/ s \notin Held)
    BY <1>4 DEF Quiet, Trade, LateTrade, StartBegins, StartEnds, StartFails, StopCommand,
       OwnerStops, StopNow, StopEnds, Held, StopFails, ResetLooksAt, Running, ResumeBegins,
       ResumeRefused, ResetRejected, ResetBegins, Boot, ResumeEnds
  <2>4. QED
    BY <2>1, <2>2, <2>3
<1>5. QED
  BY <1>1, <1>2, <1>3, <1>4, Cases

(* SettledMatchesLedger: a robot whose allocation is closed never trades.   *)
LEMMA SettledInv ==
  ASSUME Inv, Next
  PROVE  SettledMatchesLedger'
<1> USE DEF Inv
<1>1. ASSUME NEW p \in Portfolios, Rows(p) PROVE SettledMatchesLedger'
  BY <1>1, RowsFrame DEF SettledMatchesLedger, Flat
<1>2. ASSUME NEW p \in Portfolios, NEW b \in Robots, NEW m \in Amounts, CreateRobot(b, p, m)
      PROVE  SettledMatchesLedger'
  BY <1>2, NewRobot DEF SettledMatchesLedger, Flat
<1>3. ASSUME NEW p \in Portfolios, ResetCommits(p) PROVE SettledMatchesLedger'
  <2>1. UNCHANGED ledger
    BY <1>3 DEF ResetCommits
  <2>2. QED
    BY <1>3, <2>1, ResetRobot DEF SettledMatchesLedger, Flat
<1>4. ASSUME NEW b \in Robots, NEW m \in Money \cup {Unrepresentable}, NEW open \in BOOLEAN,
             Trade(b, m, open) \/ LateTrade(b, m, open)
      PROVE  SettledMatchesLedger'
  <2>1. robot[b].allocation # "closed"
    BY <1>4 DEF Trade, LateTrade, OnlyResting, Running, Runs, Held, SettledMatchesLedger, Flat
  <2>2. UNCHANGED robot /\ \A c \in Robots : c # b => ledger'[c] = ledger[c]
    BY <1>4 DEF Trade, LateTrade, books, PortfolioTypeOK
  <2>3. QED
    BY <2>1, <2>2 DEF SettledMatchesLedger, Flat
<1>5. CASE Quiet /\ UNCHANGED ledger
  BY <1>5, QuietFrame DEF QuietSame, SettledMatchesLedger, Flat
<1>6. CASE Quiet
  <2>1. \/ UNCHANGED ledger
        \/ \E b \in Robots : \E m \in Money \cup {Unrepresentable}, open \in BOOLEAN :
              Trade(b, m, open) \/ LateTrade(b, m, open)
    BY <1>6 DEF Quiet, StartBegins, StartEnds, StartFails, StopCommand, OwnerStops, StopNow,
       StopEnds, StopFails, ResetLooksAt, ResumeBegins, ResumeRefused, ResetRejected, ResetBegins,
       Boot, ResumeEnds, ProcessEnds
  <2>2. QED
    BY <1>4, <1>5, <1>6, <2>1
<1>7. QED
  BY <1>1, <1>2, <1>3, <1>6, Cases

-----------------------------------------------------------------------------
(* Stored: the stored status moves with the engine, and a resume settles    *)
(* every robot that was stored as running.                                  *)
LEMMA StatusOf ==
  ASSUME PortfolioTypeOK, NEW b \in Robots, NEW s, Stores(b, s)
  PROVE  /\ robot'[b].desired = s
         /\ \A c \in Robots : c # b => robot'[c] = robot[c]
  BY DEF Stores, PortfolioTypeOK, Robot

LEMMA StoredInv ==
  ASSUME Inv, Next
  PROVE  Stored'
<1> USE DEF Inv
<1>1. CASE UNCHANGED <<robot, runtime, phase, resume>>
  BY <1>1 DEF Stored, Running
<1>2. ASSUME NEW p \in Portfolios, NEW b \in Robots, NEW m \in Amounts, CreateRobot(b, p, m)
      PROVE  Stored'
  <2>1. runtime[b] \notin Held
    BY <1>2, NewRobot DEF Runs, NoRobot
  <2>2. QED
    BY <1>2, <2>1, NewRobot DEF Stored, Running, Held
<1>3. ASSUME NEW p \in Portfolios, ResetCommits(p) PROVE Stored'
  <2>1. UNCHANGED <<runtime, phase, resume>>
    BY <1>3 DEF ResetCommits
  <2>2. \A c \in Robots : robot'[c].desired = robot[c].desired
    BY <1>3, ResetRobot
  <2>3. QED
    BY <2>1, <2>2 DEF Stored, Running
<1>4. ASSUME NEW b \in Robots, StartBegins(b) PROVE Stored'
  BY <1>4, RuntimeOf DEF StartBegins, books, ExecutorReady, Stored, Running
<1>5. ASSUME NEW b \in Robots, StopCommand(b) \/ OwnerStops(b) \/ StopFails(b) PROVE Stored'
  BY <1>5, RuntimeOf DEF StopCommand, OwnerStops, StopFails, books, Stored, Running
<1>6. ASSUME NEW b \in Robots, StartEnds(b) \/ StopNow(b) \/ StopEnds(b) PROVE Stored'
  BY <1>6, RuntimeOf, StatusOf DEF StartEnds, StopNow, StopEnds, Stored, Running
<1>7. ASSUME NEW b \in Robots, StartFails(b) PROVE Stored'
  <2>1. runtime[b] = "starting" /\ Becomes(b, "off") /\ UNCHANGED <<phase, resume>>
    BY <1>7 DEF StartFails
  <2>2. CASE phase = "resuming"
    BY <1>7, <2>1, <2>2, RuntimeOf, StatusOf DEF StartFails, FailureStored, Stored, Running
  <2>3. CASE phase # "resuming"
    BY <1>7, <2>1, <2>3, RuntimeOf DEF StartFails, FailureStored, Stored, Running
  <2>4. QED
    BY <2>2, <2>3
<1>8. ASSUME NEW b \in Robots, ResetLooksAt(b) PROVE Stored'
  BY <1>1, <1>8, RuntimeOf DEF ResetLooksAt, books, Stored, Running
<1>9. CASE Boot
  BY <1>9 DEF Boot, books, Stored, Running
<1>10. ASSUME NEW b \in Robots, ResumeBegins(b) PROVE Stored'
  BY <1>10, RuntimeOf DEF ResumeBegins, books, Stored, Running
<1>11. ASSUME NEW b \in Robots, ResumeRefused(b) PROVE Stored'
  <2>1. runtime[b] = "off"
    BY <1>11 DEF ResumeRefused, Serial
  <2>2. QED
    BY <1>11, <2>1, StatusOf DEF ResumeRefused, Stored, Running
<1>12. CASE ResumeEnds
  BY <1>12 DEF ResumeEnds, NoneStarting, books, Stored, Running
<1>13. CASE ProcessEnds
  BY <1>13 DEF ProcessEnds, books, Stored, Running
<1>14. ASSUME NEW p \in Portfolios,
              ResetRejected(p) \/ \E m \in Amounts : ResetBegins(p, m)
       PROVE  Stored'
  BY <1>1, <1>14 DEF ResetRejected, ResetBegins, books
<1>15. ASSUME NEW b \in Robots, NEW m \in Money \cup {Unrepresentable}, NEW open \in BOOLEAN,
              Trade(b, m, open) \/ LateTrade(b, m, open)
       PROVE  Stored'
  BY <1>1, <1>15 DEF Trade, LateTrade, books
<1>16. CASE Quiet
  BY <1>4, <1>5, <1>6, <1>7, <1>8, <1>9, <1>10, <1>11, <1>12, <1>13, <1>14, <1>15, <1>16,
     Zenon DEF Quiet
<1>17. ASSUME NEW p \in Portfolios, Rows(p) PROVE Stored'
  BY <1>1, <1>17, RowsFrame
<1>18. QED
  BY <1>2, <1>3, <1>16, <1>17, Cases

-----------------------------------------------------------------------------
LEMMA NextType ==
  ASSUME Inv, Next
  PROVE  PortfolioTypeOK'
  BY Cases, RowsType, CreateRobotType, ResetCommitsType, QuietType DEF Inv

(* An empty database is in the invariant.                                   *)
LEMMA InitInv == Init => Inv
<1> SUFFICES ASSUME Init PROVE Inv
  OBVIOUS
<1>1. PortfolioTypeOK
  <2>1. /\ NoPortfolio \in Portfolio
        /\ NoBook \in Book
        /\ NoRobot \in Robot
        /\ NoCommand \in Command
    BY PaperAssumption DEF NoPortfolio, Portfolio, NoBook, Book, NoRobot, Robot, NoCommand,
       Command, Money
  <2>2. [balance |-> 0, open |-> FALSE]
           \in [balance : Money \cup {Unrepresentable}, open : BOOLEAN]
    BY PaperAssumption DEF Money
  <2>3. QED
    BY <2>1, <2>2, PaperAssumption DEF Init, PortfolioTypeOK
<1>2. Fresh
  BY DEF Init, Fresh, NoPortfolio
<1>3. Bound /\ SettledMatchesLedger
  BY DEF Init, Bound, SettledMatchesLedger, NoRobot
<1>4. Runs /\ Serial /\ Stored
  BY DEF Init, Runs, Held, Serial, Stored, Running, NoCommand, NoRobot
<1>5. QED
  BY <1>1, <1>2, <1>3, <1>4 DEF Inv

LEMMA NextInv == Inv /\ [Next]_vars => Inv'
<1>1. ASSUME Inv, Next PROVE Inv'
  BY <1>1, NextType, FreshInv, BoundInv, RunsInv, SerialInv, StoredInv, SettledInv DEF Inv
<1>2. ASSUME Inv, UNCHANGED vars PROVE Inv'
  BY <1>2 DEF vars, books, Inv, PortfolioTypeOK, Fresh, Bound, Funded, Active, Current,
     Allocated, Runs, Serial, Stored, Running, SettledMatchesLedger, Flat
<1>3. QED
  BY <1>1, <1>2

LEMMA Invariance == Spec => []Inv
  BY InitInv, NextInv, PTL DEF Spec

(* The tables, the engine and the command in progress are well-formed.      *)
THEOREM TypeCorrect == Spec => []PortfolioTypeOK
<1>1. Inv => PortfolioTypeOK
  BY DEF Inv
<1>2. QED
  BY <1>1, Invariance, PTL

(* However commands, resumes, emergency stops, trades and process ends      *)
(* interleave, a robot in the engine owns active capital.                   *)
THEOREM NeverUnfunded == Spec => []RunningIsFunded
<1>1. Inv => RunningIsFunded
  BY DEF Inv, Runs, Held, Bound, Running, RunningIsFunded
<1>2. QED
  BY <1>1, Invariance, PTL

(* What a reset settled stays what the ledger of the epoch says.            *)
THEOREM SettledForEver == Spec => []SettledMatchesLedger
<1>1. Inv => SettledMatchesLedger
  BY DEF Inv
<1>2. QED
  BY <1>1, Invariance, PTL

(* Once the process is up, a stored status is what the engine does.         *)
THEOREM StatusIsHonest == Spec => []StatusHonest
<1>1. Inv => StatusHonest
  BY DEF Inv, Stored, StatusHonest
<1>2. QED
  BY <1>1, Invariance, PTL

-----------------------------------------------------------------------------
(* Revisions: a mutation touches the row of the portfolio whose epochs or   *)
(* allocations it changes, and no other step changes what a client is shown.*)
LEMMA ShownMoves ==
  ASSUME Inv, Next, NEW q \in Portfolios, ShownChanges(q)
  PROVE  portfolio'[q].revision > portfolio[q].revision
<1> USE DEF Inv
<1>1. portfolio[q].revision \in Nat
  BY PaperAssumption DEF PortfolioTypeOK, Portfolio
<1>2. ASSUME NEW p \in Portfolios, Rows(p)
      PROVE  portfolio'[q].revision > portfolio[q].revision
  <2>1. portfolio'[q] # portfolio[q] \/ p = q
    BY <1>2, RowsStep, RowsFrame DEF ShownChanges
  <2>2. portfolio[q].status = "none" => portfolio[q].revision = 0
    BY DEF Fresh, NoPortfolio
  <2>3. QED
    BY <1>1, <1>2, <2>1, <2>2, RowsStep DEF RowStep, Touched
<1>3. ASSUME NEW p \in Portfolios, NEW b \in Robots, NEW m \in Amounts, CreateRobot(b, p, m)
      PROVE  portfolio'[q].revision > portfolio[q].revision
  <2>1. portfolio' = [portfolio EXCEPT ![p] = Bumped(@)]
    BY <1>3 DEF CreateRobot
  <2>2. q = p
    <3>1. SUFFICES ASSUME q # p PROVE ~ShownChanges(q)
      OBVIOUS
    <3>2. portfolio'[q] = portfolio[q]
      BY <2>1, <3>1 DEF PortfolioTypeOK
    <3>3. \A e \in Epochs : book'[<<q, e>>] = book[<<q, e>>]
      BY <1>3, <3>1 DEF CreateRobot, Current, PortfolioTypeOK
    <3>4. \A c \in Robots : c # b => robot'[c] = robot[c]
      BY <1>3, NewRobot
    <3>5. robot'[b].home = Current(p)
      BY <1>3 DEF CreateRobot, NoRobot, PortfolioTypeOK
    <3>6. ~BoundTo(b, q)'
      BY <3>1, <3>5 DEF BoundTo, Current
    <3>7. QED
      BY <3>2, <3>3, <3>4, <3>6 DEF ShownChanges
  <2>3. QED
    BY <1>1, <2>1, <2>2, TouchedRow DEF Touched, PortfolioTypeOK
<1>4. ASSUME NEW p \in Portfolios, ResetCommits(p)
      PROVE  portfolio'[q].revision > portfolio[q].revision
  <2> DEFINE row == Bumped(NextEpoch(portfolio[p]))
  <2>1. portfolio' = [portfolio EXCEPT ![p] = row]
    BY <1>4 DEF ResetCommits
  <2>2. row.revision = portfolio[p].revision + 1
    BY DEF Bumped, NextEpoch, PortfolioTypeOK, Portfolio
  <2> HIDE DEF row
  <2>3. q = p
    <3>1. SUFFICES ASSUME q # p PROVE ~ShownChanges(q)
      OBVIOUS
    <3>2. portfolio'[q] = portfolio[q]
      BY <2>1, <3>1 DEF PortfolioTypeOK
    <3>3. \A e \in Epochs : book'[<<q, e>>] = book[<<q, e>>]
      BY <1>4, <3>1 DEF ResetCommits, Current, PortfolioTypeOK
    <3>4. \A c \in Robots : robot'[c] = robot[c] \/ ~BoundTo(c, q)'
      BY <1>4, <3>1, ResetRobot DEF Allocated, Current, BoundTo
    <3>5. QED
      BY <3>2, <3>3, <3>4 DEF ShownChanges
  <2>4. QED
    BY <1>1, <2>1, <2>2, <2>3 DEF PortfolioTypeOK
<1>5. CASE Quiet
  BY <1>5, QuietFrame DEF QuietSame, ShownChanges
<1>6. QED
  BY <1>2, <1>3, <1>4, <1>5, Cases

(* Whatever was shown of a portfolio, a change of it has a later revision.  *)
THEOREM NoChangeUnseen == Spec => RevisionMoves
<1>1. ASSUME Inv, [Next]_vars
      PROVE  [\A p \in Portfolios : ShownChanges(p) =>
                 portfolio'[p].revision > portfolio[p].revision]_vars
  BY <1>1, ShownMoves
<1>2. QED
  BY <1>1, Invariance, PTL DEF Spec, RevisionMoves

-----------------------------------------------------------------------------
(* The default.  createdAt orders the portfolios: no two share a rank, and a*)
(* new one gets the next.                                                   *)
Ranked ==
    /\ \A p \in Known : portfolio[p].born \in 1 .. Cardinality(Known)
    /\ \A p, q \in Known : portfolio[p].born = portfolio[q].born => p = q

Unique ==
    /\ \A p \in Portfolios : portfolio[p].default => Active(p)
    /\ \A p, q \in Portfolios : portfolio[p].default /\ portfolio[q].default => p = q
    /\ (\E p \in Portfolios : Active(p)) => \E p \in Portfolios : portfolio[p].default

LEMMA UniqueIsOneDefault == Unique => OneDefault
  BY DEF Unique, OneDefault

(* Among finitely many numbers one is the least.                            *)
LEMMA LeastExists ==
  ASSUME NEW S, S \subseteq Nat, S # {}
  PROVE  \E x \in S : \A y \in S : x <= y
<1> DEFINE R == {ss \in Nat \X Nat : ss[1] < ss[2]}
<1>1. IsWellFoundedOn(R, Nat)
  BY NatLessThanWellFounded DEF OpToRel
<1>2. PICK x \in S : \A y \in S : <<y, x>> \notin R
  <2> HIDE DEF R
  <2>1. QED
    BY <1>1, WFMin, Zenon
<1>3. \A y \in S : ~(y < x)
  BY <1>2
<1>4. QED
  BY <1>3

(* The ranks are kept by every step.                                        *)
LEMMA RankedInv ==
  ASSUME Inv, Ranked, Next
  PROVE  Ranked'
<1> USE DEF Inv
<1>1. IsFiniteSet(Known) /\ Cardinality(Known) \in Nat
  BY PaperAssumption, FS_Subset, FS_CardinalityType DEF Known
<1>2. CASE \A q \in Portfolios : /\ (portfolio'[q].status = "none" <=> portfolio[q].status = "none")
                                 /\ portfolio'[q].born = portfolio[q].born
  <2>1. Known' = Known
    BY <1>2 DEF Known
  <2>2. QED
    BY <1>2, <2>1 DEF Ranked, Known
<1>3. ASSUME NEW p \in Portfolios, Rows(p)
      PROVE  Ranked'
  <2>1. CASE portfolio[p].status = "none"
    <3>1. /\ portfolio'[p].status = "active"
          /\ portfolio'[p].born = Cardinality(Known) + 1
      BY <1>3, <2>1, RowsStep DEF RowStep, Active
    <3>2. \A q \in Portfolios : q # p =>
             /\ portfolio'[q].status = portfolio[q].status
             /\ portfolio'[q].born = portfolio[q].born
      BY <1>3, RowsStep DEF RowStep, Touched
    <3>3. Known' = Known \cup {p} /\ p \notin Known
      BY <2>1, <3>1, <3>2 DEF Known
    <3>4. Cardinality(Known') = Cardinality(Known) + 1
      BY <1>1, <3>3, FS_AddElement
    <3>5. \A q \in Known : portfolio'[q].born \in 1 .. Cardinality(Known)
      BY <3>2, <3>3 DEF Ranked, Known
    <3>6. \A q, r \in Known : portfolio'[q].born = portfolio'[r].born => q = r
      BY <3>2, <3>3 DEF Ranked, Known
    <3>7. QED
      BY <1>1, <3>1, <3>3, <3>4, <3>5, <3>6 DEF Ranked
  <2>2. CASE portfolio[p].status # "none"
    BY <1>2, <1>3, <2>2, RowsStep DEF RowStep, Touched, Active
  <2>3. QED
    BY <2>1, <2>2
<1>4. ASSUME NEW p \in Portfolios, NEW b \in Robots, NEW m \in Amounts, CreateRobot(b, p, m)
      PROVE  Ranked'
  BY <1>2, <1>4, TouchedRow DEF CreateRobot, Touched, PortfolioTypeOK
<1>5. ASSUME NEW p \in Portfolios, ResetCommits(p)
      PROVE  Ranked'
  <2> DEFINE row == Bumped(NextEpoch(portfolio[p]))
  <2>1. portfolio' = [portfolio EXCEPT ![p] = row]
    BY <1>5 DEF ResetCommits
  <2>2. row.status = portfolio[p].status /\ row.born = portfolio[p].born
    BY DEF Bumped, NextEpoch, PortfolioTypeOK, Portfolio
  <2> HIDE DEF row
  <2>3. QED
    BY <1>2, <2>1, <2>2 DEF PortfolioTypeOK
<1>6. CASE Quiet
  BY <1>2, <1>6, QuietFrame DEF QuietSame
<1>7. QED
  BY <1>3, <1>4, <1>5, <1>6, Cases

(* The oldest active portfolio is promoted, and no other.                   *)
LEMMA PromotedOne ==
  ASSUME NEW rows \in [Portfolios -> Portfolio],
         \A p \in Portfolios : ~rows[p].default,
         \A p, q \in Portfolios :
            rows[p].status = "active" /\ rows[q].status = "active" =>
               (rows[p].born = rows[q].born => p = q),
         NEW a \in Portfolios, rows[a].status = "active"
  PROVE  \E p \in Portfolios :
            /\ rows[p].status = "active"
            /\ \A q \in Portfolios : Promoted(rows)[q].default <=> q = p
<1> DEFINE eligible == {p \in Portfolios : rows[p].status = "active"}
           ranks == {rows[p].born : p \in eligible}
<1>1. ranks \subseteq Nat /\ ranks # {}
  <2>1. \A p \in Portfolios : rows[p].born \in Nat
    BY DEF Portfolio
  <2>2. a \in eligible
    OBVIOUS
  <2>3. QED
    BY <2>1, <2>2
<1>2. PICK least \in ranks : \A n \in ranks : least <= n
  BY <1>1, LeastExists
<1>3. PICK p \in eligible : rows[p].born = least
  OBVIOUS
<1>4. \A q \in Portfolios :
         (q \in eligible /\ \A r \in eligible : rows[q].born <= rows[r].born) <=> q = p
  <2>1. \A q \in eligible : rows[q].born \in Nat /\ rows[p].born <= rows[q].born
    BY <1>2, <1>3 DEF Portfolio
  <2>2. QED
    BY <1>3, <2>1
<1>5. \A q \in Portfolios :
         Promoted(rows)[q] = IF q = p THEN [Bumped(rows[q]) EXCEPT !.default = TRUE]
                                      ELSE rows[q]
  BY <1>4 DEF Promoted, PromotedOf
<1>6. [Bumped(rows[p]) EXCEPT !.default = TRUE].default
  <2>1. rows[p] \in Portfolio
    BY <1>3
  <2>2. QED
    BY <2>1 DEF Bumped, Portfolio
<1>7. /\ Promoted(rows)[p].default
      /\ \A q \in Portfolios : q # p => ~Promoted(rows)[q].default
  BY <1>3, <1>5, <1>6, Zenon
<1>8. QED
  BY <1>3, <1>7, Zenon

(* What the operators on rows do to the default.                            *)
LEMMA ClearedDefault ==
  ASSUME PortfolioTypeOK, Unique, NEW q \in Portfolios
  PROVE  ~Cleared[q].default /\ Cleared[q].status = portfolio[q].status
  BY DEF Cleared, Bumped, Unique, PortfolioTypeOK, Portfolio

(* Every step leaves one default, if an active portfolio is left.           *)
LEMMA UniqueInv ==
  ASSUME Inv, Ranked, Unique, Next
  PROVE  Unique'
<1> USE DEF Inv
<1>1. CASE \A q \in Portfolios : /\ portfolio'[q].default = portfolio[q].default
                                 /\ portfolio'[q].status = portfolio[q].status
  BY <1>1 DEF Unique, Active
<1>2. ASSUME NEW p \in Portfolios, NEW m \in Amounts, NEW d \in BOOLEAN, Create(p, m, d)
      PROVE  Unique'
  <2> DEFINE default == d \/ ~\E q \in Portfolios : Active(q) /\ portfolio[q].default
             row == [status |-> "active", revision |-> 1, epoch |-> 1, default |-> default,
                     born |-> Cardinality({q \in Portfolios : portfolio[q].status # "none"}) + 1]
  <2>1. /\ portfolio' = [(IF default THEN Cleared ELSE portfolio) EXCEPT ![p] = row]
        /\ portfolio[p].status = "none"
    BY <1>2 DEF Create
  <2>2. row.status = "active" /\ row.default = default
    OBVIOUS
  <2> HIDE DEF row
  <2>3. CASE default
    <3>1. /\ portfolio'[p] = row
          /\ \A q \in Portfolios : q # p => portfolio'[q] = Cleared[q]
      BY <2>1, <2>3 DEF Cleared
    <3>2. portfolio'[p].default /\ \A q \in Portfolios : q # p => ~portfolio'[q].default
      BY <2>2, <2>3, <3>1, ClearedDefault
    <3>3. QED
      BY <2>2, <3>1, <3>2 DEF Unique, Active
  <2>4. CASE ~default
    <3>1. /\ portfolio'[p] = row
          /\ \A q \in Portfolios : q # p => portfolio'[q] = portfolio[q]
      BY <2>1, <2>4 DEF PortfolioTypeOK
    <3>2. PICK q \in Portfolios : Active(q) /\ portfolio[q].default
      BY <2>4
    <3>3. q # p /\ ~portfolio'[p].default
      BY <2>1, <2>2, <2>4, <3>1, <3>2 DEF Active
    <3>4. QED
      BY <2>2, <3>1, <3>2, <3>3 DEF Unique, Active
  <2>5. QED
    BY <2>3, <2>4
<1>3. ASSUME NEW p \in Portfolios, Rename(p) PROVE Unique'
  <2>1. /\ Bumped(portfolio[p]).default = portfolio[p].default
        /\ Bumped(portfolio[p]).status = portfolio[p].status
    BY DEF Bumped, PortfolioTypeOK, Portfolio
  <2>2. QED
    BY <1>1, <1>3, <2>1 DEF Rename, PortfolioTypeOK
<1>4. ASSUME NEW p \in Portfolios, SetDefault(p) PROVE Unique'
  <2> DEFINE row == [Bumped(portfolio[p]) EXCEPT !.default = TRUE]
  <2>1. row.default /\ row.status = "active"
    BY <1>4 DEF SetDefault, Active, Bumped, PortfolioTypeOK, Portfolio
  <2>2. Cleared[p] = portfolio[p]
    BY <1>4 DEF SetDefault, Cleared
  <2>3. portfolio' = [Cleared EXCEPT ![p] = row]
    BY <1>4, <2>2 DEF SetDefault
  <2> HIDE DEF row
  <2>4. portfolio'[p] = row /\ \A q \in Portfolios : q # p => portfolio'[q] = Cleared[q]
    BY <2>3 DEF Cleared
  <2>5. QED
    BY <2>1, <2>4, ClearedDefault DEF Unique, Active
<1>5. ASSUME NEW p \in Portfolios, Archive(p) PROVE Unique'
  <2> DEFINE row == [Bumped(portfolio[p]) EXCEPT !.status = "archived", !.default = FALSE]
             rows == [portfolio EXCEPT ![p] = row]
  <2>1. /\ row \in Portfolio /\ row.status = "archived" /\ ~row.default
        /\ row.born = portfolio[p].born
    BY <1>5, PortfolioRow DEF Archive, Room, PortfolioTypeOK
  <2>2. portfolio' = IF portfolio[p].default THEN Promoted(rows) ELSE rows
    BY <1>5 DEF Archive
  <2> HIDE DEF row
  <2>3. /\ rows \in [Portfolios -> Portfolio]
        /\ rows[p] = row /\ \A q \in Portfolios : q # p => rows[q] = portfolio[q]
    BY <2>1 DEF PortfolioTypeOK
  <2> HIDE DEF rows
  <2>4. CASE ~portfolio[p].default
    BY <2>1, <2>2, <2>3, <2>4 DEF Unique, Active
  <2>5. CASE portfolio[p].default
    <3>1. \A q \in Portfolios : ~rows[q].default
      BY <2>1, <2>3, <2>5 DEF Unique
    <3>2. \A q, r \in Portfolios :
             rows[q].status = "active" /\ rows[r].status = "active" =>
                (rows[q].born = rows[r].born => q = r)
      <4>1. \A q \in Portfolios :
               rows[q].status = "active" => q \in Known /\ rows[q] = portfolio[q]
        BY <2>1, <2>3 DEF Known
      <4>2. QED
        BY <4>1 DEF Ranked
    <3>3. portfolio' = Promoted(rows)
      BY <2>2, <2>5
    <3>4. \A q \in Portfolios : portfolio'[q].status = rows[q].status
      BY <2>3, <3>3, PromotedRow DEF Touched
    <3>5. CASE \E a \in Portfolios : rows[a].status = "active"
      <4>1. PICK o \in Portfolios :
               /\ rows[o].status = "active"
               /\ \A q \in Portfolios : Promoted(rows)[q].default <=> q = o
        BY <2>3, <3>1, <3>2, <3>5, PromotedOne
      <4>2. QED
        BY <3>3, <3>4, <4>1 DEF Unique, Active
    <3>6. CASE ~\E a \in Portfolios : rows[a].status = "active"
      <4>1. \A q \in Portfolios : Promoted(rows)[q] = rows[q]
        BY <2>3, <3>6, PromotedRow
      <4>2. QED
        BY <3>1, <3>3, <3>6, <4>1 DEF Unique, Active
    <3>7. QED
      BY <3>5, <3>6
  <2>6. QED
    BY <2>4, <2>5
<1>6. ASSUME NEW p \in Portfolios, NEW b \in Robots, NEW m \in Amounts, CreateRobot(b, p, m)
      PROVE  Unique'
  <2>1. /\ Bumped(portfolio[p]).default = portfolio[p].default
        /\ Bumped(portfolio[p]).status = portfolio[p].status
    BY DEF Bumped, PortfolioTypeOK, Portfolio
  <2>2. QED
    BY <1>1, <1>6, <2>1 DEF CreateRobot, PortfolioTypeOK
<1>7. ASSUME NEW p \in Portfolios, ResetCommits(p)
      PROVE  Unique'
  <2> DEFINE row == Bumped(NextEpoch(portfolio[p]))
  <2>1. portfolio' = [portfolio EXCEPT ![p] = row]
    BY <1>7 DEF ResetCommits
  <2>2. row.status = portfolio[p].status /\ row.default = portfolio[p].default
    BY DEF Bumped, NextEpoch, PortfolioTypeOK, Portfolio
  <2> HIDE DEF row
  <2>3. QED
    BY <1>1, <2>1, <2>2 DEF PortfolioTypeOK
<1>8. CASE Quiet
  BY <1>1, <1>8, QuietFrame DEF QuietSame
<1>9. QED
  BY <1>2, <1>3, <1>4, <1>5, <1>6, <1>7, <1>8, Cases DEF Rows

(* The owner's active portfolios have one default whenever there are any.   *)
THEOREM AlwaysOneDefault == Spec => []OneDefault
<1>1. Init => Ranked /\ Unique
  <2>1. ASSUME Init PROVE Known = {} /\ \A p \in Portfolios : ~Active(p) /\ ~portfolio[p].default
    BY <2>1 DEF Init, Known, NoPortfolio, Active
  <2>2. QED
    BY <2>1 DEF Ranked, Unique
<1>2. Inv /\ (Ranked /\ Unique) /\ [Next]_vars => (Ranked /\ Unique)'
  <2>1. ASSUME UNCHANGED vars, Ranked, Unique PROVE Ranked' /\ Unique'
    BY <2>1 DEF vars, books, Ranked, Known, Unique, Active
  <2>2. QED
    BY <2>1, RankedInv, UniqueInv
<1>3. Ranked /\ Unique => OneDefault
  BY UniqueIsOneDefault
<1>4. QED
  BY <1>1, <1>2, <1>3, Invariance, PTL DEF Spec

-----------------------------------------------------------------------------
(* Sums over a finite set.  SumFunctionOnSet chooses a recursive function   *)
(* of sets, which is one only if such a function exists: AdderExists builds *)
(* it, size by size.  No theorem of the library on induction can be cited   *)
(* here, for each takes an operator; a set of those for which a fact holds, *)
(* and a least counterexample to it, does instead.                          *)
First(s) == CHOOSE x \in s : TRUE

Adds(g, f, D) == g = [s \in D |-> IF s = {} THEN 0 ELSE f[First(s)] + g[s \ {First(s)}]]

LEMMA SumIsAdder ==
  ASSUME NEW f, NEW S
  PROVE  SumFunctionOnSet(f, S) = (CHOOSE g : Adds(g, f, SUBSET S))[S]
  BY DEF SumFunctionOnSet, FoldFunctionOnSet, MapThenFoldSet, Adds, First

(* Induction on the finite sets: a family of subsets that is not empty has  *)
(* a least member.                                                          *)
LEMMA LeastSubset ==
  ASSUME NEW S, IsFiniteSet(S), NEW C \in SUBSET (SUBSET S), C # {}
  PROVE  \E T \in C : \A U \in C : U \subseteq T => U = T
<1>1. C \subseteq FiniteSubsetsOf(S)
  BY FS_FiniteSubsetsOfFinite
<1>2. PICK T \in C : \A U \in C : <<U, T>> \notin StrictSubsetOrdering(S)
  BY <1>1, WFMin, FS_StrictSubsetOrderingWellFounded
<1>3. ASSUME NEW U \in C, U \subseteq T PROVE U = T
  BY <1>2, <1>3 DEF StrictSubsetOrdering
<1> QED BY <1>3

LEMMA SetInduction ==
  ASSUME NEW S, IsFiniteSet(S), NEW Good, {} \in Good,
         \A T \in SUBSET S : T # {} /\ (\A x \in T : T \ {x} \in Good) => T \in Good
  PROVE  SUBSET S \subseteq Good
<1> SUFFICES ASSUME (SUBSET S) \ Good # {} PROVE FALSE
  OBVIOUS
<1> DEFINE C == (SUBSET S) \ Good
<1>1. C \in SUBSET (SUBSET S) /\ C # {}
  OBVIOUS
<1>2. \E T \in C : \A U \in C : U \subseteq T => U = T
  <2> HIDE DEF C
  <2> QED BY <1>1, LeastSubset
<1>3. PICK T \in C : \A U \in C : U \subseteq T => U = T
  BY <1>2
<1>4. ASSUME NEW x \in T PROVE T \ {x} \in Good
  BY <1>3, <1>4
<1>5. T \in SUBSET S /\ T \notin Good
  BY <1>3
<1>6. T # {}
  BY <1>5
<1> QED BY <1>4, <1>5, <1>6

LEMMA NatInductionSet ==
  ASSUME NEW Good, 0 \in Good, \A n \in Nat : n \in Good => n + 1 \in Good
  PROVE  Nat \subseteq Good
<1> SUFFICES ASSUME Nat \ Good # {} PROVE FALSE
  OBVIOUS
<1>1. PICK n \in Nat \ Good : \A m \in Nat \ Good : <<m, n>> \notin OpToRel(<, Nat)
  BY WFMin, NatLessThanWellFounded
<1>2. n \in Nat /\ n \notin Good /\ n - 1 \in Nat /\ n - 1 < n /\ n - 1 + 1 = n
  <2>1. n \in Nat /\ n \notin Good
    BY <1>1
  <2>2. n # 0
    BY <2>1
  <2> QED BY <2>1, <2>2
<1>3. <<n - 1, n>> \in OpToRel(<, Nat)
  BY <1>2, <1>1 DEF OpToRel
<1>4. n - 1 \in Good
  BY <1>1, <1>2, <1>3
<1> QED BY <1>1, <1>2, <1>4

LEMMA FirstIn == ASSUME NEW s, s # {} PROVE First(s) \in s
  BY DEF First

(* The function that adds up the sets up to a size exists, so there is one  *)
(* for all subsets of a finite set.                                         *)
LEMMA AdderExists ==
  ASSUME NEW S, IsFiniteSet(S), NEW f
  PROVE  \E g : Adds(g, f, SUBSET S)
<1> DEFINE UpTo(n) == {s \in SUBSET S : Cardinality(s) <= n}
           Good == {n \in Nat : \E g : Adds(g, f, UpTo(n))}
<1>1. \A s \in SUBSET S : IsFiniteSet(s) /\ Cardinality(s) \in Nat
  BY FS_Subset, FS_CardinalityType
<1>2. 0 \in Good
  <2>1. UpTo(0) = {{}}
    BY <1>1, FS_EmptySet
  <2> DEFINE g == [s \in {{}} |-> 0]
  <2>2. Adds(g, f, {{}})
    BY DEF Adds
  <2> QED BY <2>1, <2>2
<1>3. ASSUME NEW n \in Nat, n \in Good PROVE n + 1 \in Good
  <2>1. PICK g : Adds(g, f, UpTo(n))
    BY <1>3
  <2> DEFINE h == [s \in UpTo(n + 1) |-> IF s \in UpTo(n) THEN g[s]
                                          ELSE f[First(s)] + g[s \ {First(s)}]]
  <2>2. ASSUME NEW s \in UpTo(n + 1), s # {} PROVE s \ {First(s)} \in UpTo(n)
    <3>1. First(s) \in s
      BY <2>2, FirstIn
    <3>2. Cardinality(s \ {First(s)}) = Cardinality(s) - 1
      BY <1>1, <3>1, FS_RemoveElement
    <3> QED BY <1>1, <3>2
  <2>3. {} \in UpTo(n) /\ UpTo(n) \subseteq UpTo(n + 1)
    BY <1>1, FS_EmptySet
  <2>4. ASSUME NEW s \in UpTo(n + 1)
        PROVE  h[s] = IF s = {} THEN 0 ELSE f[First(s)] + h[s \ {First(s)}]
    <3> HIDE DEF UpTo
    <3>1. \A t \in UpTo(n) : h[t] = g[t]
      BY <2>3
    <3>2. CASE s = {}
      BY <2>1, <2>3, <3>1, <3>2 DEF Adds
    <3>3. CASE s # {} /\ s \in UpTo(n)
      <4>1. g[s] = f[First(s)] + g[s \ {First(s)}]
        BY <2>1, <3>3 DEF Adds
      <4> QED BY <2>2, <3>1, <3>3, <4>1
    <3>4. CASE s # {} /\ s \notin UpTo(n)
      BY <2>2, <3>1, <3>4
    <3> QED BY <3>2, <3>3, <3>4
  <2>5. Adds(h, f, UpTo(n + 1))
    <3> HIDE DEF UpTo
    <3> DEFINE k == [s \in UpTo(n + 1) |-> IF s = {} THEN 0 ELSE f[First(s)] + h[s \ {First(s)}]]
    <3>1. \A s \in UpTo(n + 1) : h[s] = k[s]
      BY <2>4
    <3>2. h = k
      BY <3>1
    <3> QED BY <3>2 DEF Adds
  <2> HIDE DEF h, UpTo
  <2> QED BY <2>5
<1>4. Nat \subseteq Good
  <2> HIDE DEF Good
  <2> QED BY <1>2, <1>3, NatInductionSet
<1>5. UpTo(Cardinality(S)) = SUBSET S
  BY <1>1, FS_Subset
<1>6. Cardinality(S) \in Good
  BY <1>1, <1>4
<1> QED BY <1>5, <1>6

LEMMA AdderUnique ==
  ASSUME NEW S, IsFiniteSet(S), NEW T \in SUBSET S, NEW f, NEW g, NEW h,
         Adds(g, f, SUBSET S), Adds(h, f, SUBSET T)
  PROVE  g[T] = h[T]
<1> DEFINE Good == {s \in SUBSET T : g[s] = h[s]}
<1>1. \A s \in SUBSET T :
        /\ g[s] = IF s = {} THEN 0 ELSE f[First(s)] + g[s \ {First(s)}]
        /\ h[s] = IF s = {} THEN 0 ELSE f[First(s)] + h[s \ {First(s)}]
  BY DEF Adds
<1>2. {} \in Good
  BY <1>1
<1>3. ASSUME NEW s \in SUBSET T, s # {}, \A x \in s : s \ {x} \in Good PROVE s \in Good
  BY <1>1, <1>3, FirstIn
<1>4. IsFiniteSet(T)
  BY FS_Subset
<1>5. SUBSET T \subseteq Good
  <2> HIDE DEF Good
  <2> QED BY <1>2, <1>3, <1>4, SetInduction
<1> QED BY <1>5

(* The sum over a set adds one of its elements to the sum over the others.  *)
LEMMA SumFirst ==
  ASSUME NEW S, IsFiniteSet(S), NEW f
  PROVE  /\ SumFunctionOnSet(f, {}) = 0
         /\ S # {} => /\ First(S) \in S
                      /\ SumFunctionOnSet(f, S) =
                           f[First(S)] + SumFunctionOnSet(f, S \ {First(S)})
<1> DEFINE Adder(T) == CHOOSE g : Adds(g, f, SUBSET T)
<1>1. ASSUME NEW T, IsFiniteSet(T)
      PROVE  Adds(Adder(T), f, SUBSET T) /\ SumFunctionOnSet(f, T) = Adder(T)[T]
  BY <1>1, AdderExists, SumIsAdder
<1> HIDE DEF Adder
<1>2. SumFunctionOnSet(f, {}) = 0
  <2>1. IsFiniteSet({})
    BY FS_EmptySet
  <2> QED BY <1>1, <2>1 DEF Adds
<1>3. ASSUME S # {}
      PROVE  /\ First(S) \in S
             /\ SumFunctionOnSet(f, S) = f[First(S)] + SumFunctionOnSet(f, S \ {First(S)})
  <2> DEFINE T == S \ {First(S)}
  <2>1. T \in SUBSET S /\ IsFiniteSet(T) /\ First(S) \in S
    BY <1>3, FirstIn, FS_Subset
  <2> DEFINE g == Adder(S)
             h == Adder(T)
  <2>2. g[T] = h[T]
    <3>1. Adds(g, f, SUBSET S) /\ Adds(h, f, SUBSET T)
      BY <1>1, <2>1
    <3> HIDE DEF g, h, T
    <3> QED BY <2>1, <3>1, AdderUnique
  <2>3. Adder(S)[S] = f[First(S)] + Adder(S)[T]
    BY <1>1, <1>3 DEF Adds
  <2> HIDE DEF T
  <2>4. SumFunctionOnSet(f, S) = f[First(S)] + SumFunctionOnSet(f, T)
    BY <1>1, <2>1, <2>2, <2>3
  <2> QED BY <2>1, <2>4 DEF T
<1> QED BY <1>2, <1>3

LEMMA SumType ==
  ASSUME NEW S, IsFiniteSet(S), NEW f, \A x \in S : f[x] \in Int
  PROVE  SumFunctionOnSet(f, S) \in Int
<1> DEFINE Good == {T \in SUBSET S : SumFunctionOnSet(f, T) \in Int}
<1>1. {} \in Good
  <2>1. SumFunctionOnSet(f, {}) = 0
    BY SumFirst
  <2> QED BY <2>1
<1>2. ASSUME NEW T \in SUBSET S, T # {}, \A x \in T : T \ {x} \in Good PROVE T \in Good
  <2>1. IsFiniteSet(T)
    BY FS_Subset
  <2>2. First(T) \in T
        /\ SumFunctionOnSet(f, T) = f[First(T)] + SumFunctionOnSet(f, T \ {First(T)})
    BY <1>2, <2>1, SumFirst
  <2> QED BY <1>2, <2>2
<1>3. SUBSET S \subseteq Good
  <2> HIDE DEF Good
  <2> QED BY <1>1, <1>2, SetInduction
<1> QED BY <1>3

LEMMA SumElement ==
  ASSUME NEW S, IsFiniteSet(S), NEW f, \A x \in S : f[x] \in Int, NEW a \in S
  PROVE  SumFunctionOnSet(f, S) = f[a] + SumFunctionOnSet(f, S \ {a})
<1> DEFINE sum(T) == SumFunctionOnSet(f, T)
           Good == {T \in SUBSET S : \A x \in T : sum(T) = f[x] + sum(T \ {x})}
<1>1. {} \in Good
  OBVIOUS
<1>2. ASSUME NEW T \in SUBSET S, T # {}, \A x \in T : T \ {x} \in Good PROVE T \in Good
  <2> SUFFICES ASSUME NEW x \in T PROVE sum(T) = f[x] + sum(T \ {x})
    OBVIOUS
  <2> DEFINE c == First(T)
  <2>1. IsFiniteSet(T) /\ c \in T /\ sum(T) = f[c] + sum(T \ {c})
    <3>1. IsFiniteSet(T)
      BY FS_Subset
    <3> QED BY <1>2, <3>1, SumFirst
  <2>2. CASE x = c
    BY <2>1, <2>2
  <2>3. CASE x # c
    <3>1. sum(T \ {c}) = f[x] + sum((T \ {c}) \ {x})
      BY <1>2, <2>1, <2>3
    <3>2. sum(T \ {x}) = f[c] + sum((T \ {x}) \ {c})
      BY <1>2, <2>1, <2>3
    <3>3. (T \ {c}) \ {x} = (T \ {x}) \ {c}
      OBVIOUS
    <3>4. f[c] \in Int /\ f[x] \in Int /\ sum((T \ {x}) \ {c}) \in Int
      <4>1. IsFiniteSet((T \ {x}) \ {c}) /\ \A y \in (T \ {x}) \ {c} : f[y] \in Int
        BY <2>1, FS_Subset
      <4> QED BY <2>1, <4>1, SumType
    <3> HIDE DEF sum, c
    <3>5. \A i, j, k \in Int : i + (j + k) = j + (i + k)
      OBVIOUS
    <3>6. sum(T) = f[c] + (f[x] + sum((T \ {x}) \ {c}))
      BY <2>1, <3>1, <3>3
    <3>7. f[x] + sum(T \ {x}) = f[x] + (f[c] + sum((T \ {x}) \ {c}))
      BY <3>2
    <3> QED BY <3>4, <3>5, <3>6, <3>7
  <2> QED BY <2>2, <2>3
<1>3. SUBSET S \subseteq Good
  <2> HIDE DEF Good
  <2> QED BY <1>1, <1>2, SetInduction
<1> QED BY <1>3

(* Where two functions agree their sums do; where one is zero, the other    *)
(* adds what it holds.                                                      *)
LEMMA SumAdded ==
  ASSUME NEW S, IsFiniteSet(S), NEW A, A \subseteq S, NEW f, NEW g,
         \A x \in S : /\ f[x] \in Int /\ g[x] \in Int
                      /\ IF x \in A THEN f[x] = 0 ELSE g[x] = f[x]
  PROVE  SumFunctionOnSet(g, S) = SumFunctionOnSet(f, S) + SumFunctionOnSet(g, A)
<1> DEFINE F(T) == SumFunctionOnSet(f, T)
           G(T) == SumFunctionOnSet(g, T)
           Good == {T \in SUBSET S : G(T) = F(T) + G(T \cap A)}
<1>1. {} \in Good
  <2>1. F({}) = 0 /\ G({}) = 0 /\ {} \cap A = {}
    BY FS_EmptySet, SumFirst
  <2> HIDE DEF F, G
  <2> QED BY <2>1
<1>2. ASSUME NEW T \in SUBSET S, T # {}, \A x \in T : T \ {x} \in Good PROVE T \in Good
  <2>1. PICK x \in T : TRUE
    BY <1>2
  <2> DEFINE U == T \ {x}
  <2>2. /\ IsFiniteSet(T) /\ IsFiniteSet(U) /\ IsFiniteSet(T \cap A) /\ IsFiniteSet(U \cap A)
    BY FS_Subset
  <2>3. F(T) = f[x] + F(U) /\ G(T) = g[x] + G(U)
    BY <2>1, <2>2, SumElement
  <2>4. F(U) \in Int /\ G(U) \in Int /\ G(U \cap A) \in Int
    BY <2>2, SumType
  <2>5. G(U) = F(U) + G(U \cap A)
    BY <1>2, <2>1
  <2>6. CASE x \in A
    <3>1. G(T \cap A) = g[x] + G((T \cap A) \ {x})
      BY <2>1, <2>2, <2>6, SumElement
    <3>2. (T \cap A) \ {x} = U \cap A
      OBVIOUS
    <3>3. f[x] = 0 /\ g[x] \in Int
      BY <2>1, <2>6
    <3> HIDE DEF F, G, U
    <3>4. \A i, j, k \in Int : i + (j + k) = (0 + j) + (i + k)
      OBVIOUS
    <3>5. G(T) = g[x] + (F(U) + G(U \cap A))
      BY <2>3, <2>5
    <3>6. F(T) + G(T \cap A) = (0 + F(U)) + (g[x] + G(U \cap A))
      BY <2>3, <3>1, <3>2, <3>3
    <3>7. G(T) = F(T) + G(T \cap A)
      BY <2>4, <3>3, <3>4, <3>5, <3>6
    <3> QED BY <3>7 DEF F, G
  <2>7. CASE x \notin A
    <3>1. T \cap A = U \cap A
      BY <2>7
    <3>2. f[x] = g[x] /\ g[x] \in Int
      BY <2>1, <2>7
    <3> HIDE DEF F, G, U
    <3>3. \A i, j, k \in Int : i + (j + k) = (i + j) + k
      OBVIOUS
    <3>4. G(T) = g[x] + (F(U) + G(U \cap A))
      BY <2>3, <2>5
    <3>5. F(T) + G(T \cap A) = (g[x] + F(U)) + G(U \cap A)
      BY <2>3, <3>1, <3>2
    <3>6. G(T) = F(T) + G(T \cap A)
      BY <2>4, <3>2, <3>3, <3>4, <3>5
    <3> QED BY <3>6 DEF F, G
  <2> QED BY <2>6, <2>7
<1>3. SUBSET S \subseteq Good
  <2> HIDE DEF Good
  <2> QED BY <1>1, <1>2, SetInduction
<1>4. S \cap A = A
  OBVIOUS
<1> QED BY <1>3, <1>4

LEMMA SumAgrees ==
  ASSUME NEW S, IsFiniteSet(S), NEW f, NEW g,
         \A x \in S : f[x] \in Int /\ g[x] = f[x]
  PROVE  SumFunctionOnSet(g, S) = SumFunctionOnSet(f, S)
<1> DEFINE sum(h, T) == SumFunctionOnSet(h, T)
           Good == {T \in SUBSET S : sum(g, T) = sum(f, T)}
<1>1. {} \in Good
  <2>1. sum(f, {}) = 0 /\ sum(g, {}) = 0
    BY FS_EmptySet, SumFirst
  <2> QED BY <2>1
<1>2. ASSUME NEW T \in SUBSET S, T # {}, \A x \in T : T \ {x} \in Good PROVE T \in Good
  <2>1. IsFiniteSet(T)
    BY FS_Subset
  <2>2. /\ First(T) \in T
        /\ sum(f, T) = f[First(T)] + sum(f, T \ {First(T)})
        /\ sum(g, T) = g[First(T)] + sum(g, T \ {First(T)})
    BY <1>2, <2>1, SumFirst
  <2> HIDE DEF sum
  <2> QED BY <1>2, <2>2
<1>3. SUBSET S \subseteq Good
  <2> HIDE DEF Good
  <2> QED BY <1>1, <1>2, SetInduction
<1> QED BY <1>3

-----------------------------------------------------------------------------
(* Conservation.  An epoch's cash changes together with what its robots     *)
(* reserved and returned.  Three facts make the sums move as it does: a     *)
(* robot not yet settled has returned nothing, so that settling adds what   *)
(* it returns; and no robot is bound to an epoch that has yet to begin, so  *)
(* that a portfolio created or reset starts with its capital untouched.     *)
Placed ==
    \A b \in Robots :
       /\ robot[b].allocation # "closed" => robot[b].returned = 0
       /\ \A p \in Portfolios, e \in Epochs :
             robot[b].home = <<p, e>> => e <= portfolio[p].epoch

At(s) == {b \in Robots : robot[b].home = s}
ReservedOf == [b \in Robots |-> robot[b].reserved]
ReturnedOf == [b \in Robots |-> robot[b].returned]

CashAt(s) ==
    book[s].cash = book[s].initial - SumFunctionOnSet(ReservedOf, At(s))
                                   + SumFunctionOnSet(ReturnedOf, At(s))

LEMMA PlacedInv ==
  ASSUME Inv, Placed, Next
  PROVE  Placed'
<1> USE DEF Inv
<1>1. CASE \A p \in Portfolios : portfolio'[p].epoch >= portfolio[p].epoch
  <2> SUFFICES ASSUME NEW b \in Robots
               PROVE  /\ robot'[b].allocation # "closed" => robot'[b].returned = 0
                      /\ \A p \in Portfolios, e \in Epochs :
                            robot'[b].home = <<p, e>> => e <= portfolio'[p].epoch
    BY DEF Placed
  <2>1. ASSUME robot'[b].home = robot[b].home
        PROVE  \A p \in Portfolios, e \in Epochs :
                  robot'[b].home = <<p, e>> => e <= portfolio'[p].epoch
    <3> SUFFICES ASSUME NEW p \in Portfolios, NEW e \in Epochs, robot[b].home = <<p, e>>
                 PROVE  e <= portfolio'[p].epoch
      BY <2>1
    <3>1. e <= portfolio[p].epoch /\ portfolio'[p].epoch >= portfolio[p].epoch
      BY <1>1 DEF Placed
    <3>2. portfolio[p].epoch \in Nat /\ portfolio'[p].epoch \in Nat /\ e \in Nat
      BY NextType DEF PortfolioTypeOK, Portfolio, Epochs
    <3>3. QED
      BY <3>1, <3>2
  <2>2. CASE robot'[b] = robot[b]
    BY <2>1, <2>2 DEF Placed
  <2>3. CASE Quiet
    BY <2>1, <2>3, QuietFrame DEF QuietSame, Placed
  <2>4. ASSUME NEW p \in Portfolios, NEW c \in Robots, NEW m \in Amounts, CreateRobot(c, p, m)
        PROVE  /\ robot'[b].allocation # "closed" => robot'[b].returned = 0
               /\ \A q \in Portfolios, e \in Epochs :
                     robot'[b].home = <<q, e>> => e <= portfolio'[q].epoch
    <3>1. CASE b # c
      BY <2>2, <2>4, <3>1, NewRobot
    <3>2. CASE b = c
      <4>1. robot'[b].returned = 0 /\ robot'[b].home = <<p, portfolio[p].epoch>>
        BY <2>4, <3>2, NewRobot DEF Current
      <4>2. portfolio[p].epoch \in Nat /\ portfolio'[p].epoch \in Nat
            /\ portfolio[p].epoch <= portfolio'[p].epoch
        BY <1>1, NextType DEF PortfolioTypeOK, Portfolio
      <4>3. QED
        BY <4>1, <4>2
    <3>3. QED
      BY <3>1, <3>2
  <2>5. ASSUME NEW p \in Portfolios, ResetCommits(p)
        PROVE  /\ robot'[b].allocation # "closed" => robot'[b].returned = 0
               /\ \A q \in Portfolios, e \in Epochs :
                     robot'[b].home = <<q, e>> => e <= portfolio'[q].epoch
    BY <2>1, <2>2, <2>5, ResetRobot
  <2>6. QED
    BY <2>2, <2>3, <2>4, <2>5, RowsFrame, Cases
<1>2. ASSUME NEW p \in Portfolios, Rows(p), NEW q \in Portfolios
      PROVE  portfolio'[q].epoch >= portfolio[q].epoch
  <2>1. portfolio[q].epoch \in Nat
    BY DEF PortfolioTypeOK, Portfolio
  <2>2. CASE portfolio[q].status = "none" /\ portfolio'[q].epoch = 1
    BY <2>2 DEF Fresh, NoPortfolio
  <2>3. CASE portfolio'[q].epoch = portfolio[q].epoch
    BY <2>1, <2>3
  <2>4. QED
    BY <1>2, <2>2, <2>3, RowsStep DEF RowStep, Touched
<1>3. ASSUME NEW p \in Portfolios, NEW b \in Robots, NEW m \in Amounts, CreateRobot(b, p, m),
             NEW q \in Portfolios
      PROVE  portfolio'[q].epoch >= portfolio[q].epoch
  <2>1. portfolio'[q].epoch = portfolio[q].epoch /\ portfolio[q].epoch \in Nat
    BY <1>3, TouchedRow DEF CreateRobot, Touched, PortfolioTypeOK, Portfolio
  <2>2. QED
    BY <2>1
<1>4. ASSUME NEW p \in Portfolios, ResetCommits(p), NEW q \in Portfolios
      PROVE  portfolio'[q].epoch >= portfolio[q].epoch
  <2> DEFINE row == Bumped(NextEpoch(portfolio[p]))
  <2>1. portfolio' = [portfolio EXCEPT ![p] = row]
    BY <1>4 DEF ResetCommits
  <2>2. portfolio[p].epoch \in Nat /\ portfolio[q].epoch \in Nat
    BY DEF PortfolioTypeOK, Portfolio
  <2>3. row.epoch = portfolio[p].epoch + 1
    BY DEF Bumped, NextEpoch, PortfolioTypeOK, Portfolio
  <2> HIDE DEF row
  <2>4. QED
    BY <2>1, <2>2, <2>3 DEF PortfolioTypeOK
<1>5. ASSUME Quiet, NEW q \in Portfolios
      PROVE  portfolio'[q].epoch >= portfolio[q].epoch
  <2>1. portfolio' = portfolio /\ portfolio[q].epoch \in Nat
    BY <1>5, QuietFrame DEF QuietSame, PortfolioTypeOK, Portfolio
  <2>2. QED
    BY <2>1
<1>6. QED
  BY <1>1, <1>2, <1>3, <1>4, <1>5, Cases

LEMMA MoneyTypes ==
  ASSUME PortfolioTypeOK, NEW s
  PROVE  /\ At(s) \subseteq Robots /\ IsFiniteSet(At(s))
         /\ \A b \in Robots : ReservedOf[b] \in Int /\ ReturnedOf[b] \in Int
  BY PaperAssumption, FS_Subset DEF At, ReservedOf, ReturnedOf, PortfolioTypeOK, Robot, Money

(* Where neither an epoch nor its robots change, neither do its sums.       *)
LEMMA SameMoney ==
  ASSUME PortfolioTypeOK, NEW s, CashAt(s),
         book'[s].cash = book[s].cash, book'[s].initial = book[s].initial,
         \A b \in Robots : robot'[b].home = s <=> robot[b].home = s,
         \A b \in At(s) : /\ robot'[b].reserved = robot[b].reserved
                          /\ robot'[b].returned = robot[b].returned
  PROVE  CashAt(s)'
<1>1. At(s)' = At(s)
  BY DEF At
<1>2. \A b \in At(s) : /\ ReservedOf[b] \in Int /\ ReservedOf'[b] = ReservedOf[b]
                       /\ ReturnedOf[b] \in Int /\ ReturnedOf'[b] = ReturnedOf[b]
  BY MoneyTypes DEF At, ReservedOf, ReturnedOf
<1>3. /\ SumFunctionOnSet(ReservedOf', At(s)) = SumFunctionOnSet(ReservedOf, At(s))
      /\ SumFunctionOnSet(ReturnedOf', At(s)) = SumFunctionOnSet(ReturnedOf, At(s))
  <2> HIDE DEF ReservedOf, ReturnedOf, At
  <2>1. QED
    BY <1>2, MoneyTypes, SumAgrees
<1>4. QED
  BY <1>1, <1>3 DEF CashAt

(* An epoch that opens has its capital in cash, and no robot yet.           *)
LEMMA NewMoney ==
  ASSUME NEW s, book'[s].cash = book'[s].initial, book'[s].initial \in Int,
         \A b \in Robots : robot'[b].home # s
  PROVE  CashAt(s)'
<1>1. At(s)' = {}
  BY DEF At
<1>2. /\ SumFunctionOnSet(ReservedOf', {}) = 0
      /\ SumFunctionOnSet(ReturnedOf', {}) = 0
  BY FS_EmptySet, SumFirst
<1>3. \A i \in Int : i = i - 0 + 0
  OBVIOUS
<1>4. QED
  BY <1>1, <1>2, <1>3 DEF CashAt

(* Reserving takes from cash what it adds to the sum of reservations.       *)
LEMMA CreateRobotCash ==
  ASSUME Inv, NEW p \in Portfolios, NEW b \in Robots, NEW m \in Amounts,
         CreateRobot(b, p, m), CashAt(Current(p))
  PROVE  CashAt(Current(p))'
<1> DEFINE s == Current(p)
           sum(f, T) == SumFunctionOnSet(f, T)
<1>1. s \in Portfolios \X Epochs /\ s' = s
  BY TouchedRow DEF CreateRobot, Active, Current, Inv, Fresh, PortfolioTypeOK, Touched
<1>2. /\ book'[s].cash = book[s].cash - m /\ book'[s].initial = book[s].initial
      /\ book[s].cash \in Int /\ book[s].initial \in Int /\ m \in Int
  BY <1>1, PaperAssumption DEF CreateRobot, Inv, PortfolioTypeOK, Book, Money
<1>3. /\ b \notin At(s) /\ {c \in Robots : robot'[c].home = s} = At(s) \cup {b}
      /\ \A c \in At(s) : robot'[c] = robot[c]
      /\ robot'[b].reserved = m /\ robot'[b].returned = 0
  BY <1>1, NewRobot DEF At, Inv, NoRobot
<1> DEFINE U == At(s) \cup {b}
           R == ReservedOf'
           T == ReturnedOf'
<1>4. IsFiniteSet(U) /\ b \in U /\ U \ {b} = At(s)
  BY <1>3, MoneyTypes, FS_AddElement DEF Inv
<1>5. /\ \A c \in At(s) : /\ ReservedOf[c] \in Int /\ R[c] = ReservedOf[c]
                          /\ ReturnedOf[c] \in Int /\ T[c] = ReturnedOf[c]
      /\ R[b] = m /\ T[b] = 0
  BY <1>3, MoneyTypes DEF At, ReservedOf, ReturnedOf, Inv
<1>6. \A c \in U : R[c] \in Int /\ T[c] \in Int
  BY <1>2, <1>5
<1>7. IsFiniteSet(At(s))
  BY MoneyTypes DEF Inv
<1> HIDE DEF U, R, T, sum, s
<1>8. /\ sum(R, U) = m + sum(R, At(s)) /\ sum(T, U) = 0 + sum(T, At(s))
  BY <1>4, <1>5, <1>6, SumElement DEF sum
<1>9. /\ sum(R, At(s)) = sum(ReservedOf, At(s)) /\ sum(T, At(s)) = sum(ReturnedOf, At(s))
  BY <1>5, <1>7, SumAgrees DEF sum
<1>10. sum(ReservedOf, At(s)) \in Int /\ sum(ReturnedOf, At(s)) \in Int
  BY <1>5, <1>7, SumType DEF sum
<1>11. book[s].cash = book[s].initial - sum(ReservedOf, At(s)) + sum(ReturnedOf, At(s))
  BY DEF CashAt, s, sum
<1>12. \A c, i, r, t \in Int : c = i - r + t => c - m = i - (m + r) + (0 + t)
  BY <1>2
<1>13. book'[s].cash = book'[s].initial - sum(R, U) + sum(T, U)
  BY <1>2, <1>8, <1>9, <1>10, <1>11, <1>12
<1>14. At(s)' = U
  BY <1>1, <1>3 DEF At, U
<1>15. QED
  BY <1>1, <1>13, <1>14 DEF CashAt, s, sum, R, T

(* Settling adds the balances to cash, and to what its robots returned.     *)
LEMMA ResetCash ==
  ASSUME Inv, Placed, NEW p \in Portfolios, ResetCommits(p), NEW s, s = Current(p), CashAt(s)
  PROVE  CashAt(s)'
<1> DEFINE sum(f, V) == SumFunctionOnSet(f, V)
           A == Allocated(p)
           L == [b \in Robots |-> ledger[b].balance]
           R == ReservedOf'
           T == ReturnedOf'
<1>1. s \in Portfolios \X Epochs /\ s # <<p, portfolio[p].epoch + 1>>
  BY PaperAssumption DEF ResetCommits, Active, Current, Inv, Fresh, Epochs
<1>2. /\ book'[s].cash = book[s].cash + sum(L, A) /\ book'[s].initial = book[s].initial
      /\ book[s].cash \in Int /\ book[s].initial \in Int
  <2>1. book[s] \in Book
    BY <1>1 DEF Inv, PortfolioTypeOK
  <2>2. book'[s] = Settled(book[s], Returned(p))
    BY <1>1 DEF ResetCommits, Inv, PortfolioTypeOK
  <2>3. QED
    BY <2>1, <2>2, PaperAssumption DEF Settled, Book, Money, Returned
<1>3. At(s)' = At(s) /\ A \subseteq At(s)
  <2>1. \A c \in Robots : robot'[c].home = robot[c].home
    BY ResetRobot DEF Inv
  <2>2. QED
    BY <2>1 DEF At, Allocated
<1>4. \A b \in At(s) : /\ ReservedOf[b] \in Int /\ R[b] = ReservedOf[b]
                       /\ ReturnedOf[b] \in Int
                       /\ b \notin A => T[b] = ReturnedOf[b]
                       /\ b \in A => ReturnedOf[b] = 0 /\ T[b] = L[b] /\ L[b] \in Int
  <2> SUFFICES ASSUME NEW b \in At(s)
               PROVE  /\ ReservedOf[b] \in Int /\ R[b] = ReservedOf[b]
                      /\ ReturnedOf[b] \in Int
                      /\ b \notin A => T[b] = ReturnedOf[b]
                      /\ b \in A => ReturnedOf[b] = 0 /\ T[b] = L[b] /\ L[b] \in Int
    OBVIOUS
  <2>1. b \in Robots /\ ReservedOf[b] \in Int /\ ReturnedOf[b] \in Int
    BY MoneyTypes DEF At, Inv
  <2>2. R[b] = ReservedOf[b]
    BY <2>1, ResetRobot DEF Inv, ReservedOf
  <2>3. b \notin A => T[b] = ReturnedOf[b]
    BY <2>1, ResetRobot DEF Inv, ReturnedOf
  <2>4. ASSUME b \in A PROVE ReturnedOf[b] = 0 /\ T[b] = L[b] /\ L[b] \in Int
    <3>1. robot[b].returned = 0
      BY <2>4 DEF Placed, Allocated
    <3>2. robot'[b].returned = ledger[b].balance /\ Flat(b)
      BY <2>1, <2>4, ResetRobot DEF Inv
    <3>3. ledger[b].balance \in Int
      BY <2>1, <3>2, PaperAssumption DEF Inv, PortfolioTypeOK, Flat, Money
    <3>4. QED
      BY <2>1, <3>1, <3>2, <3>3 DEF ReturnedOf
  <2>5. QED
    BY <2>1, <2>2, <2>3, <2>4
<1>5. IsFiniteSet(At(s)) /\ IsFiniteSet(A) /\ At(s) \cap A = A
  BY <1>3, MoneyTypes, FS_Subset DEF Inv
<1>6. \A b \in At(s) : T[b] \in Int
  BY <1>4
<1> HIDE DEF A, L, R, T, sum
<1>7. sum(T, At(s)) = sum(ReturnedOf, At(s)) + sum(T, A)
  <2>1. \A b \in At(s) : /\ ReturnedOf[b] \in Int /\ T[b] \in Int
                         /\ IF b \in A THEN ReturnedOf[b] = 0 ELSE T[b] = ReturnedOf[b]
    BY <1>4, <1>6
  <2>2. QED
    BY <1>3, <1>5, <2>1, SumAdded DEF sum
<1>8. sum(T, A) = sum(L, A)
  <2>1. \A b \in A : L[b] \in Int /\ T[b] = L[b]
    BY <1>3, <1>4
  <2>2. QED
    BY <1>5, <2>1, SumAgrees DEF sum
<1>9. sum(R, At(s)) = sum(ReservedOf, At(s))
  BY <1>4, <1>5, SumAgrees DEF sum
<1>10. sum(ReservedOf, At(s)) \in Int /\ sum(ReturnedOf, At(s)) \in Int /\ sum(L, A) \in Int
  <2>1. /\ \A b \in At(s) : ReservedOf[b] \in Int /\ ReturnedOf[b] \in Int
        /\ \A b \in A : L[b] \in Int
    BY <1>3, <1>4
  <2>2. QED
    BY <1>5, <2>1, SumType DEF sum
<1>11. book[s].cash = book[s].initial - sum(ReservedOf, At(s)) + sum(ReturnedOf, At(s))
  BY DEF CashAt, sum
<1>12. \A c, i, r, t, a \in Int : c = i - r + t => c + a = i - r + (t + a)
  OBVIOUS
<1>13. book'[s].cash = book'[s].initial - sum(R, At(s)) + sum(T, At(s))
  BY <1>2, <1>7, <1>8, <1>9, <1>10, <1>11, <1>12
<1>14. QED
  BY <1>3, <1>13 DEF CashAt, sum, R, T

LEMMA CashInv ==
  ASSUME Inv, Placed, CashConserved, Next
  PROVE  CashConserved'
<1> SUFFICES ASSUME NEW s \in Portfolios \X Epochs PROVE CashAt(s)'
  BY DEF CashConserved, CashAt, At, ReservedOf, ReturnedOf
<1>1. CashAt(s) /\ PortfolioTypeOK
  BY DEF CashConserved, CashAt, At, ReservedOf, ReturnedOf, Inv
<1>2. PICK q \in Portfolios, e \in Epochs : s = <<q, e>>
  OBVIOUS
<1>3. ASSUME NEW p \in Portfolios, Rows(p) PROVE CashAt(s)'
  <2>1. UNCHANGED robot
    BY <1>3, RowsFrame
  <2>2. CASE book'[s].cash = book[s].cash /\ book'[s].initial = book[s].initial
    BY <1>1, <2>1, <2>2, SameMoney
  <2>3. ASSUME NEW m \in Amounts, NEW d \in BOOLEAN, Create(p, m, d), s = <<p, 1>>
        PROVE  CashAt(s)'
    <3>1. book'[s].cash = m /\ book'[s].initial = m /\ m \in Int
      BY <1>1, <2>3, PaperAssumption DEF Create, PortfolioTypeOK
    <3>2. portfolio[p].epoch = 0
      BY <2>3 DEF Create, Inv, Fresh, NoPortfolio
    <3>3. \A b \in Robots : robot'[b].home # s
      BY <2>1, <2>3, <3>2, PaperAssumption DEF Placed, Epochs
    <3>4. QED
      BY <3>1, <3>3, NewMoney
  <2>4. ASSUME NEW m \in Amounts, NEW d \in BOOLEAN, Create(p, m, d), s # <<p, 1>>
        PROVE  CashAt(s)'
    BY <1>1, <2>2, <2>4 DEF Create, PortfolioTypeOK
  <2>5. CASE Archive(p)
    BY <1>1, <2>2, <2>5 DEF Archive, PortfolioTypeOK, Book
  <2>6. CASE Rename(p) \/ SetDefault(p)
    BY <2>2, <2>6 DEF Rename, SetDefault
  <2>7. QED
    BY <1>3, <2>3, <2>4, <2>5, <2>6 DEF Rows
<1>4. ASSUME NEW p \in Portfolios, NEW b \in Robots, NEW m \in Amounts, CreateRobot(b, p, m)
      PROVE  CashAt(s)'
  <2>1. CASE s = Current(p)
    <3>1. Current(p)' = Current(p)
      BY <1>4, TouchedRow DEF CreateRobot, Current, Inv, PortfolioTypeOK, Touched
    <3>2. CashAt(Current(p))'
      BY <1>1, <1>4, <2>1, CreateRobotCash
    <3>3. QED
      BY <2>1, <3>1, <3>2 DEF CashAt, At
  <2>2. CASE s # Current(p)
    <3>1. book'[s] = book[s]
      BY <1>1, <1>4, <2>2 DEF CreateRobot, PortfolioTypeOK
    <3>2. /\ \A c \in Robots : robot'[c].home = s <=> robot[c].home = s
          /\ \A c \in At(s) : robot'[c] = robot[c]
      BY <1>1, <1>2, <1>4, <2>2, NewRobot DEF NoRobot, At
    <3>3. QED
      BY <1>1, <3>1, <3>2, SameMoney
  <2>3. QED
    BY <2>1, <2>2
<1>5. ASSUME NEW p \in Portfolios, ResetCommits(p) PROVE CashAt(s)'
  <2> DEFINE old == Current(p)
             next == <<p, portfolio[p].epoch + 1>>
  <2>1. /\ next \in Portfolios \X Epochs /\ old # next
        /\ portfolio[p].epoch \in Nat
    BY <1>5, PaperAssumption DEF ResetCommits, Active, Current, Inv, Fresh, Epochs
  <2>2. \A c \in Robots : robot'[c].home = robot[c].home /\ robot'[c].reserved = robot[c].reserved
    BY <1>1, <1>5, ResetRobot
  <2>3. CASE s = old
    BY <1>1, <1>5, <2>3, ResetCash
  <2>4. CASE s = next
    <3>1. book'[s].cash = command.capital /\ book'[s].initial = command.capital
      BY <1>1, <1>5, <2>4 DEF ResetCommits, PortfolioTypeOK
    <3>2. command.capital \in Int
      BY <1>1, PaperAssumption DEF PortfolioTypeOK, Command, Money
    <3>3. \A c \in Robots : robot'[c].home # s
      <4> SUFFICES ASSUME NEW c \in Robots, robot[c].home = next PROVE FALSE
        BY <2>2, <2>4
      <4>1. portfolio[p].epoch + 1 <= portfolio[p].epoch
        BY <2>1 DEF Placed
      <4>2. QED
        BY <2>1, <4>1
    <3>4. QED
      BY <3>1, <3>2, <3>3, NewMoney
  <2>5. CASE s # old /\ s # next
    <3>1. book'[s] = book[s]
      BY <1>1, <1>5, <2>5 DEF ResetCommits, PortfolioTypeOK
    <3>2. \A c \in At(s) : robot'[c] = robot[c]
      BY <1>1, <1>5, <2>5, ResetRobot DEF At, Allocated
    <3>3. QED
      BY <1>1, <2>2, <3>1, <3>2, SameMoney
  <2>6. QED
    BY <2>3, <2>4, <2>5
<1>6. CASE Quiet
  BY <1>1, <1>6, QuietFrame, SameMoney DEF QuietSame, At
<1>7. QED
  BY <1>3, <1>4, <1>5, <1>6, Cases

(* However many robots reserve and return money, in whatever order, the     *)
(* books of every epoch add up.                                             *)
THEOREM MoneyIsConserved == Spec => []CashConserved
<1>1. Init => Placed /\ CashConserved
  <2> SUFFICES ASSUME Init PROVE Placed /\ CashConserved
    OBVIOUS
  <2>1. Placed
    BY DEF Init, Placed, NoRobot
  <2>2. ASSUME NEW s \in Portfolios \X Epochs PROVE CashAt(s)
    <3>1. At(s) = {} /\ book[s].cash = 0 /\ book[s].initial = 0
      <4>1. s # <<>>
        OBVIOUS
      <4>2. QED
        BY <4>1 DEF Init, At, NoRobot, NoBook
    <3>2. SumFunctionOnSet(ReservedOf, {}) = 0 /\ SumFunctionOnSet(ReturnedOf, {}) = 0
      BY FS_EmptySet, SumFirst
    <3>3. QED
      BY <3>1, <3>2 DEF CashAt
  <2>3. QED
    BY <2>1, <2>2 DEF CashConserved, CashAt, At, ReservedOf, ReturnedOf
<1>2. Inv /\ (Placed /\ CashConserved) /\ [Next]_vars => (Placed /\ CashConserved)'
  <2>1. ASSUME UNCHANGED vars, Placed, CashConserved PROVE Placed' /\ CashConserved'
    BY <2>1 DEF vars, books, Placed, CashConserved
  <2>2. QED
    BY <2>1, PlacedInv, CashInv
<1>3. QED
  BY <1>1, <1>2, Invariance, PTL DEF Spec

-----------------------------------------------------------------------------
(* Epochs: they open and close one after the other, so that what is bound   *)
(* to a closed one is never looked at again.                                *)
StatusIn(p, e) ==
    IF e > portfolio[p].epoch THEN "none"
    ELSE IF Active(p) /\ e = portfolio[p].epoch THEN "active"
    ELSE "closed"

LEMMA EpochsInv ==
  ASSUME Inv, EpochsInOrder, Next
  PROVE  EpochsInOrder'
<1> USE DEF Inv
<1> SUFFICES ASSUME NEW q \in Portfolios, NEW e \in Epochs
             PROVE  book'[<<q, e>>].status = StatusIn(q, e)'
  BY DEF EpochsInOrder, StatusIn, Active
<1>1. /\ book[<<q, e>>].status = StatusIn(q, e)
      /\ portfolio[q].epoch \in Nat /\ e \in Nat /\ e >= 1
  BY DEF EpochsInOrder, StatusIn, PortfolioTypeOK, Portfolio, Epochs
<1>2. CASE /\ book'[<<q, e>>].status = book[<<q, e>>].status
           /\ portfolio'[q].epoch = portfolio[q].epoch
           /\ portfolio'[q].status = portfolio[q].status
  BY <1>1, <1>2 DEF StatusIn, Active
<1>3. ASSUME NEW p \in Portfolios, Rows(p) PROVE book'[<<q, e>>].status = StatusIn(q, e)'
  <2>1. CASE q # p
    <3>1. book'[<<q, e>>] = book[<<q, e>>]
      BY <1>3, <2>1, RowsStep
    <3>2. portfolio'[q].epoch = portfolio[q].epoch /\ portfolio'[q].status = portfolio[q].status
      BY <1>3, <2>1, RowsStep DEF RowStep, Touched
    <3>3. QED
      BY <1>2, <3>1, <3>2
  <2>2. ASSUME q = p, NEW m \in Amounts, NEW d \in BOOLEAN, Create(p, m, d)
        PROVE  book'[<<q, e>>].status = StatusIn(q, e)'
    <3>1. portfolio[p].status = "none" /\ portfolio[p].epoch = 0
      BY <2>2 DEF Create, Fresh, NoPortfolio
    <3>2. portfolio'[p].status = "active" /\ portfolio'[p].epoch = 1
      BY <1>3, <3>1, RowsStep DEF RowStep, Active
    <3>3. book[<<q, e>>].status = "none"
      BY <1>1, <2>2, <3>1 DEF StatusIn
    <3>4. CASE e = 1
      <4>1. book'[<<q, e>>].status = "active"
        BY <2>2, <3>4 DEF Create, PortfolioTypeOK
      <4>2. QED
        BY <2>2, <3>2, <3>4, <4>1 DEF StatusIn, Active
    <3>5. CASE e # 1
      <4>1. book'[<<q, e>>] = book[<<q, e>>] /\ e > 1
        BY <1>1, <2>2, <3>5 DEF Create, PortfolioTypeOK
      <4>2. QED
        BY <2>2, <3>2, <3>3, <4>1 DEF StatusIn
    <3>6. QED
      BY <3>4, <3>5
  <2>3. CASE q = p /\ (Rename(p) \/ SetDefault(p))
    <3>1. portfolio[p].status # "none" /\ UNCHANGED book
      BY <2>3 DEF Rename, SetDefault, Active
    <3>2. Touched(portfolio'[p], portfolio[p])
      <4>1. portfolio'[p].status # "archived" \/ portfolio[p].status = "archived"
        <5>1. CASE Rename(p)
          BY <5>1, TouchedRow DEF Rename, PortfolioTypeOK, Touched
        <5>2. CASE SetDefault(p)
          <6>1. portfolio'[p] = [Bumped(Cleared[p]) EXCEPT !.default = TRUE]
            BY <5>2 DEF SetDefault, Cleared
          <6>2. Cleared[p] = portfolio[p]
            BY <5>2 DEF SetDefault, Cleared
          <6>3. QED
            BY <6>1, <6>2, TouchedRow DEF PortfolioTypeOK, Touched
        <5>3. QED
          BY <2>3, <5>1, <5>2
      <4>2. QED
        BY <1>3, <3>1, <4>1, RowsStep DEF RowStep, Active
    <3>3. QED
      BY <1>2, <2>3, <3>1, <3>2 DEF Touched
  <2>4. CASE q = p /\ Archive(p)
    <3>1. Active(p)
      BY <2>4 DEF Archive
    <3>2. portfolio'[p].epoch = portfolio[p].epoch
      BY <1>3, <3>1, RowsStep DEF RowStep, Touched, Active
    <3>3. portfolio'[p].status = "archived"
      <4> DEFINE row == [Bumped(portfolio[p]) EXCEPT !.status = "archived", !.default = FALSE]
                 rows == [portfolio EXCEPT ![p] = row]
      <4>1. row \in Portfolio /\ row.status = "archived"
        BY <2>4, PortfolioRow DEF Archive, Room, PortfolioTypeOK
      <4>2. portfolio' \in {rows, Promoted(rows)}
        BY <2>4 DEF Archive
      <4> HIDE DEF row
      <4>3. rows \in [Portfolios -> Portfolio] /\ rows[p] = row
        BY <4>1 DEF PortfolioTypeOK
      <4> HIDE DEF rows
      <4>4. Promoted(rows)[p] = rows[p]
        BY <4>1, <4>3, PromotedRow
      <4>5. QED
        BY <4>1, <4>2, <4>3, <4>4
    <3>4. CASE e = portfolio[p].epoch
      <4>1. book'[<<q, e>>].status = "closed"
        BY <2>4, <3>4 DEF Archive, Current, PortfolioTypeOK, Book
      <4>2. QED
        BY <1>1, <2>4, <3>2, <3>3, <3>4, <4>1 DEF StatusIn, Active
    <3>5. CASE e # portfolio[p].epoch
      <4>1. book'[<<q, e>>] = book[<<q, e>>]
        BY <2>4, <3>5 DEF Archive, Current, PortfolioTypeOK
      <4>2. QED
        BY <1>1, <2>4, <3>2, <3>3, <3>5, <4>1 DEF StatusIn, Active
    <3>6. QED
      BY <3>4, <3>5
  <2>5. QED
    BY <1>3, <2>1, <2>2, <2>3, <2>4 DEF Rows
<1>4. ASSUME NEW p \in Portfolios, NEW b \in Robots, NEW m \in Amounts, CreateRobot(b, p, m)
      PROVE  book'[<<q, e>>].status = StatusIn(q, e)'
  <2>1. portfolio'[q].epoch = portfolio[q].epoch /\ portfolio'[q].status = portfolio[q].status
    BY <1>4, TouchedRow DEF CreateRobot, Touched, PortfolioTypeOK
  <2>2. book'[<<q, e>>].status = book[<<q, e>>].status
    BY <1>4 DEF CreateRobot, PortfolioTypeOK, Book
  <2>3. QED
    BY <1>2, <2>1, <2>2
<1>5. ASSUME NEW p \in Portfolios, ResetCommits(p) PROVE book'[<<q, e>>].status = StatusIn(q, e)'
  <2> DEFINE row == Bumped(NextEpoch(portfolio[p]))
             old == Current(p)
             next == <<p, portfolio[p].epoch + 1>>
  <2>1. portfolio' = [portfolio EXCEPT ![p] = row] /\ Active(p) /\ portfolio[p].epoch \in Nat
    BY <1>5 DEF ResetCommits, PortfolioTypeOK, Portfolio
  <2>2. row.epoch = portfolio[p].epoch + 1 /\ row.status = portfolio[p].status
    BY DEF Bumped, NextEpoch, PortfolioTypeOK, Portfolio
  <2> HIDE DEF row
  <2>3. CASE q # p
    <3>1. portfolio'[q] = portfolio[q]
      BY <2>1, <2>3 DEF PortfolioTypeOK
    <3>2. book'[<<q, e>>] = book[<<q, e>>]
      BY <1>5, <2>3 DEF ResetCommits, Current, PortfolioTypeOK
    <3>3. QED
      BY <1>2, <3>1, <3>2
  <2>4. CASE q = p
    <3>1. /\ portfolio'[q].epoch = portfolio[q].epoch + 1
          /\ portfolio'[q].status = "active" /\ portfolio[q].status = "active"
      BY <2>1, <2>2, <2>4 DEF PortfolioTypeOK, Active
    <3>2. CASE e = portfolio[q].epoch
      <4>1. book'[<<q, e>>].status = "closed"
        <5>1. <<q, e>> = old /\ old # next /\ old \in Portfolios \X Epochs
          BY <2>1, <2>4, <3>2 DEF Current
        <5>2. book'[<<q, e>>] = Settled(book[old], Returned(p)) /\ book[old] \in Book
          BY <1>5, <5>1 DEF ResetCommits, PortfolioTypeOK
        <5>3. QED
          BY <5>2 DEF Settled, Book
      <4>2. QED
        BY <1>1, <3>1, <3>2, <4>1 DEF StatusIn, Active
    <3>3. CASE e = portfolio[q].epoch + 1
      <4>1. book'[<<q, e>>].status = "active"
        BY <1>5, <2>4, <3>3 DEF ResetCommits, PortfolioTypeOK
      <4>2. QED
        BY <1>1, <3>1, <3>3, <4>1 DEF StatusIn, Active
    <3>4. CASE e # portfolio[q].epoch /\ e # portfolio[q].epoch + 1
      <4>1. book'[<<q, e>>] = book[<<q, e>>]
        BY <1>5, <2>4, <3>4 DEF ResetCommits, Current, PortfolioTypeOK
      <4>2. QED
        BY <1>1, <3>1, <3>4, <4>1 DEF StatusIn, Active
    <3>5. QED
      BY <3>2, <3>3, <3>4
  <2>5. QED
    BY <2>3, <2>4
<1>6. CASE Quiet
  BY <1>2, <1>6, QuietFrame DEF QuietSame
<1>7. QED
  BY <1>3, <1>4, <1>5, <1>6, Cases

LEMMA EpochsInvariant == Spec => []EpochsInOrder
<1>1. Init => EpochsInOrder
  BY DEF Init, EpochsInOrder, NoBook, NoPortfolio, Epochs
<1>2. Inv /\ EpochsInOrder /\ [Next]_vars => EpochsInOrder'
  <2>1. ASSUME UNCHANGED vars, EpochsInOrder PROVE EpochsInOrder'
    BY <2>1 DEF vars, books, EpochsInOrder, Active
  <2>2. QED
    BY <2>1, EpochsInv
<1>3. QED
  BY <1>1, <1>2, Invariance, PTL DEF Spec

(* One epoch of an active portfolio is open, whatever was created, reset or *)
(* archived around it.                                                      *)
THEOREM OneEpochOpen == Spec => []EpochsInOrder
  BY EpochsInvariant, PTL

(* A step changes the books of an epoch that is open, or opens one.         *)
LEMMA ClosedBooks ==
  ASSUME Inv, EpochsInOrder, Next, NEW s \in Portfolios \X Epochs, book[s].status = "closed"
  PROVE  book'[s] = book[s]
<1> USE DEF Inv
<1>1. PICK q \in Portfolios, e \in Epochs : s = <<q, e>>
  OBVIOUS
<1>2. /\ e <= portfolio[q].epoch /\ ~(Active(q) /\ e = portfolio[q].epoch)
      /\ portfolio[q].epoch \in Nat /\ e \in Nat /\ e >= 1
  BY <1>1 DEF EpochsInOrder, PortfolioTypeOK, Portfolio, Epochs
<1>3. \A p \in Portfolios : Active(p) => s # Current(p)
  BY <1>1, <1>2 DEF Current
<1>4. ASSUME NEW p \in Portfolios, Rows(p) PROVE book'[s] = book[s]
  <2>1. ASSUME NEW m \in Amounts, NEW d \in BOOLEAN, Create(p, m, d) PROVE book'[s] = book[s]
    <3>1. portfolio[p].epoch = 0
      BY <2>1 DEF Create, Fresh, NoPortfolio
    <3>2. s # <<p, 1>>
      BY <1>1, <1>2, <3>1
    <3>3. QED
      BY <2>1, <3>2 DEF Create, PortfolioTypeOK
  <2>2. CASE Archive(p)
    BY <1>3, <2>2 DEF Archive, PortfolioTypeOK
  <2>3. QED
    BY <1>4, <2>1, <2>2 DEF Rows, Rename, SetDefault
<1>5. ASSUME NEW p \in Portfolios, NEW b \in Robots, NEW m \in Amounts, CreateRobot(b, p, m)
      PROVE  book'[s] = book[s]
  BY <1>3, <1>5 DEF CreateRobot, PortfolioTypeOK
<1>6. ASSUME NEW p \in Portfolios, ResetCommits(p) PROVE book'[s] = book[s]
  <2>1. Active(p)
    BY <1>6 DEF ResetCommits
  <2>2. portfolio[p].epoch \in Nat
    BY DEF PortfolioTypeOK, Portfolio
  <2>3. s # <<p, portfolio[p].epoch + 1>>
    BY <1>1, <1>2, <2>2
  <2>4. QED
    BY <1>3, <1>6, <2>1, <2>3 DEF ResetCommits, PortfolioTypeOK
<1>7. QED
  BY <1>4, <1>5, <1>6, QuietFrame, Cases DEF QuietSame

LEMMA ClosedAccounts ==
  ASSUME Inv, Next, NEW b \in Robots, robot[b].allocation = "closed"
  PROVE  Account(b)' = Account(b)
<1> USE DEF Inv
<1>1. CASE robot'[b] = robot[b]
  BY <1>1 DEF Account
<1>2. CASE Quiet
  <2>1. /\ robot[b] \in Robot /\ robot'[b] \in Robot
        /\ robot'[b].home = robot[b].home /\ robot'[b].reserved = robot[b].reserved
        /\ robot'[b].allocation = robot[b].allocation /\ robot'[b].returned = robot[b].returned
    BY <1>2, QuietFrame DEF QuietSame, PortfolioTypeOK
  <2>2. QED
    BY <2>1 DEF Account, Robot
<1>3. ASSUME NEW p \in Portfolios, NEW c \in Robots, NEW m \in Amounts, CreateRobot(c, p, m)
      PROVE  robot'[b] = robot[b]
  BY <1>3, NewRobot DEF NoRobot
<1>4. ASSUME NEW p \in Portfolios, ResetCommits(p) PROVE robot'[b] = robot[b]
  BY <1>4, ResetRobot DEF Allocated
<1>5. QED
  BY <1>1, <1>2, <1>3, <1>4, RowsFrame, Cases

(* No later reset, archive or resume touches a settled account.             *)
THEOREM SettledOnce == Spec => ClosedForGood
<1> DEFINE A == /\ \A s \in Portfolios \X Epochs : book[s].status = "closed" => book'[s] = book[s]
                /\ \A b \in Robots : robot[b].allocation = "closed" => Account(b)' = Account(b)
<1>1. ASSUME Inv, EpochsInOrder, [Next]_vars PROVE A
  <2>1. CASE Next
    BY <1>1, <2>1, ClosedBooks, ClosedAccounts
  <2>2. CASE UNCHANGED vars
    BY <2>2 DEF vars, books, Account
  <2>3. QED
    BY <1>1, <2>1, <2>2
<1> HIDE DEF A
<1>2. Spec => [][A]_vars
  BY <1>1, Invariance, EpochsInvariant, PTL DEF Spec
<1>3. QED
  BY <1>2 DEF A, ClosedForGood
=============================================================================
