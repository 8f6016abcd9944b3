------------------------------ MODULE PriceAlerts ------------------------------
(***************************************************************************)
(* Price-threshold alerts: the rules, revisions, durable states and         *)
(* receipts of alerts/repository.ts and repositoryCompletion.ts, the lanes  *)
(* of alerts/evaluatorScheduler.ts that lease one rule per owner, read the  *)
(* next closed bar and complete it, the owners who edit, rearm and archive  *)
(* rules meanwhile, and the identity service that revokes owners.           *)
(*                                                                          *)
(* A bar is numbered by its opening; bar b is closed once clock > b.  A     *)
(* claim is one statement in two steps, as in ExecutorQueue: it reads its   *)
(* snapshot, and later locks and updates the row whatever it has become.    *)
(***************************************************************************)
EXTENDS Naturals, FiniteSets, SequencesExt

CONSTANTS
    Rules, Owners, OwnerOf,
    Definitions,     \* what a revision watches and compares
    Enabled,         \* the definitions with enabled = true
    ScopeOf,         \* market, symbol and timeframe of a definition
    Lanes,           \* lanes of the workers' sweeps
    MaxActive,       \* MAX_ENABLED_ALERT_RULES_PER_OWNER
    MaxBar,          \* bound on the clock
    MaxChanges,      \* bound on edits of rules and changes of authorizations
    None, Nobody     \* no value; the holder of a lease no lane knows of

Scopes == {ScopeOf[d] : d \in Definitions}
Bars == 0 .. MaxBar

Receipt == [bar : Bars, met : BOOLEAN]
Row == [rev : Nat \ {0}, ver : Nat \ {0},
        is : [cursor : Bars \cup {None}, eligible : BOOLEAN, triggered : BOOLEAN]]

ASSUME AlertsAssumption ==
    /\ OwnerOf \in [Rules -> Owners] /\ Enabled \subseteq Definitions
    /\ MaxActive \in Nat /\ MaxBar \in Nat /\ MaxChanges \in Nat
    /\ None \notin Bars /\ None \notin Rules /\ None \notin Lanes /\ None \notin Row
    /\ Nobody \notin Lanes /\ None # Nobody

VARIABLES
    rule,     \* table alert_rules, without the revision
    book,     \* book[r]: its revisions, each with its receipts and trigger events
    state,    \* state[r][s]: table alert_rule_states
    line,     \* the rules whose next_evaluation_at has passed, earliest first
    lane,     \* lane[l]: its step and the claim it holds
    owner,    \* owner[o]: authorization revision, and whether it may act
    clock,    \* the bar that is forming
    changes   \* revisions made and authorizations changed (bound)

vars == <<rule, book, state, line, lane, owner, clock, changes>>

\* The runtime state of an alert: the bar last consumed, whether it met the
\* threshold, whether the alert has triggered.
Fresh == [cursor |-> None, eligible |-> FALSE, triggered |-> FALSE]

NoRule == [status |-> "none", auth |-> 0, lease |-> None, live |-> FALSE]
Idle == [at |-> "idle", rule |-> None, rev |-> 0, auth |-> 0, row |-> None]

Init ==
    /\ rule = [r \in Rules |-> NoRule]
    /\ book = [r \in Rules |-> <<>>]
    /\ state = [r \in Rules |-> [s \in Scopes |-> None]]
    /\ line = <<>> /\ clock = 0 /\ changes = 0
    /\ lane = [l \in Lanes |-> Idle]
    /\ owner = [o \in Owners |-> [auth |-> 0, usable |-> TRUE]]

-----------------------------------------------------------------------------
Rev(r) == Len(book[r])
Def(r) == book[r][Rev(r)].def
Scope(r) == ScopeOf[Def(r)]
Of(o) == {r \in Rules : OwnerOf[r] = o}
Leased(r) == rule[r].lease # None
Without(r) == IF r \notin ToSet(line) THEN line
              ELSE RemoveAt(line, CHOOSE i \in DOMAIN line : line[i] = r)

\* The row's update in every edit: a lease, if any, is gone with its generation.
Edited(r, status) == [status |-> status, auth |-> owner[OwnerOf[r]].auth,
                      lease |-> None, live |-> FALSE]

NewRevision(d) == [def |-> d, from |-> clock, seen |-> <<>>, told |-> {}]

Room(r) ==
    Cardinality({x \in Of(OwnerOf[r]) : rule[x].status = "active"}) < MaxActive

\* A new revision of r with definition d: due at once if it is enabled.
Revise(r, d) ==
    /\ owner[OwnerOf[r]].usable /\ changes < MaxChanges
    /\ d \in Enabled /\ rule[r].status # "active" => Room(r)
    /\ book' = [book EXCEPT ![r] = Append(@, NewRevision(d))]
    /\ rule' = [rule EXCEPT ![r] =
           Edited(r, IF d \in Enabled THEN "active" ELSE "disabled")]
    /\ line' = IF d \in Enabled THEN Append(Without(r), r) ELSE Without(r)
    /\ changes' = changes + 1
    /\ UNCHANGED <<lane, owner, clock>>

Create(r, d) == rule[r].status = "none" /\ Revise(r, d) /\ UNCHANGED state

Update(r, d) ==
    /\ rule[r].status \in {"active", "disabled"} /\ d # Def(r)
    /\ Revise(r, d) /\ UNCHANGED state

\* An update with the definition in force only refreshes the authorization.
Resubmit(r) ==
    /\ rule[r].status \in {"active", "disabled"} /\ owner[OwnerOf[r]].usable
    /\ rule' = [rule EXCEPT ![r].auth = owner[OwnerOf[r]].auth]
    /\ UNCHANGED <<book, state, line, lane, owner, clock, changes>>

(* The state a rearm leaves behind: nothing seen yet, for the new revision.  *)
(* Mutant: the new revision takes over what the old one saw.                *)
RearmedInPlace(r, row) ==
    [rev |-> Rev(r) + 1, ver |-> IF row = None THEN 1 ELSE row.ver + 1,
     is |-> IF row = None THEN Fresh ELSE row.is]

Rearmed(r, row) ==
    [rev |-> Rev(r) + 1, ver |-> IF row = None THEN 1 ELSE row.ver + 1, is |-> Fresh]

Rearm(r) ==
    /\ rule[r].status \in {"active", "disabled"} /\ Revise(r, Def(r))
    /\ state' = [state EXCEPT ![r][Scope(r)] = Rearmed(r, @)]

Archive(r) ==
    /\ rule[r].status \in {"active", "disabled"} /\ owner[OwnerOf[r]].usable
    /\ rule' = [rule EXCEPT ![r] = Edited(r, "archived")]
    /\ line' = Without(r)
    /\ UNCHANGED <<book, state, lane, owner, clock, changes>>

\* An administrator or the owner changes role, status or password.
Transition(o) ==
    /\ changes < MaxChanges /\ changes' = changes + 1
    /\ \E u \in BOOLEAN : owner' = [owner EXCEPT ![o] = [auth |-> @.auth + 1, usable |-> u]]
    /\ UNCHANGED <<rule, book, state, line, lane, clock>>

-----------------------------------------------------------------------------
BarCloses == clock < MaxBar /\ clock' = clock + 1
             /\ UNCHANGED <<rule, book, state, line, lane, owner, changes>>

ComesDue(r) ==
    /\ rule[r].status = "active" /\ r \notin ToSet(line)
    /\ line' = Append(line, r)
    /\ UNCHANGED <<rule, book, state, lane, owner, clock, changes>>

LeaseExpires(r) ==
    /\ rule[r].live /\ rule' = [rule EXCEPT ![r].live = FALSE]
    /\ UNCHANGED <<book, state, line, lane, owner, clock, changes>>

\* recoverExpiredLeases, at the start of a sweep: due again at the old time.
Recoverable(r) == Leased(r) /\ ~rule[r].live

RecoverExpiredLeases ==
    /\ \E r \in Rules : Recoverable(r)
    /\ rule' = [r \in Rules |-> IF Recoverable(r)
                    THEN [rule[r] EXCEPT !.lease = None] ELSE rule[r]]
    /\ UNCHANGED <<book, state, line, lane, owner, clock, changes>>

-----------------------------------------------------------------------------
Claimable(r) ==
    /\ rule[r].status = "active" /\ r \in ToSet(line) /\ owner[OwnerOf[r]].usable
    /\ \A x \in Of(OwnerOf[r]) : ~Leased(x)

(* owner_heads: the claimable rule of each owner that has waited longest.    *)
(* Mutant: the one that came due last.                                      *)
LatestHead(r) ==
    \E i \in DOMAIN line : /\ line[i] = r /\ Claimable(r)
        /\ \A j \in DOMAIN line : j > i /\ Claimable(line[j]) => OwnerOf[line[j]] # OwnerOf[r]

OwnerHead(r) ==
    \E i \in DOMAIN line : /\ line[i] = r /\ Claimable(r)
        /\ \A j \in 1 .. i - 1 : Claimable(line[j]) => OwnerOf[line[j]] # OwnerOf[r]

\* The claim statement reads: a head, its owner's authorization, its revision
\* and its state.  Of several heads SKIP LOCKED may leave any.
ClaimBegins(l) ==
    /\ lane[l].at = "idle"
    /\ \E r \in Rules :
        /\ OwnerHead(r)
        /\ lane' = [lane EXCEPT ![l] = [at |-> "claiming", rule |-> r, rev |-> Rev(r),
               auth |-> owner[OwnerOf[r]].auth, row |-> state[r][Scope(r)]]]
    /\ UNCHANGED <<rule, book, state, line, owner, clock, changes>>

(* alert_rules_one_leased_per_owner.  Mutant: no such index.                *)
IndexMissing(r) == TRUE

IndexAdmits(r) == \A x \in Of(OwnerOf[r]) \ {r} : ~Leased(x)

(* It locks and updates the row as it is now, of which only the identifier   *)
(* is compared again: a lease taken since is taken over, and a revision      *)
(* made since is not in its snapshot, so that no row is returned although    *)
(* the lease is written.  A row no longer active violates a CHECK.           *)
ClaimEnds(l) ==
    LET r == lane[l].rule
    IN  /\ lane[l].at = "claiming"
        /\ rule[r].status = "active" /\ IndexAdmits(r)
        /\ IF Rev(r) = lane[l].rev
           THEN /\ lane' = [lane EXCEPT ![l].at = "held"]
                /\ rule' = [rule EXCEPT ![r].lease = l, ![r].live = TRUE,
                                        ![r].auth = lane[l].auth]
           ELSE /\ lane' = [lane EXCEPT ![l] = Idle]
                /\ rule' = [rule EXCEPT ![r].lease = Nobody, ![r].live = TRUE,
                                        ![r].auth = lane[l].auth]
        /\ UNCHANGED <<book, state, line, owner, clock, changes>>

\* The row is locked, the index or the CHECK refuses, or the statement fails.
ClaimsNothing(l) ==
    /\ lane[l].at = "claiming" /\ lane' = [lane EXCEPT ![l] = Idle]
    /\ UNCHANGED <<rule, book, state, line, owner, clock, changes>>

\* A lane that drops its claim knows the token no more.
Dropped(l) == [r \in Rules |-> IF rule[r].lease = l
                   THEN [rule[r] EXCEPT !.lease = Nobody] ELSE rule[r]]

\* The process dies, or the answer of the claim or of its last call is lost.
Forget(l) ==
    /\ lane[l].at = "held" /\ rule' = Dropped(l) /\ lane' = [lane EXCEPT ![l] = Idle]
    /\ UNCHANGED <<book, state, line, owner, clock, changes>>

-----------------------------------------------------------------------------
\* The state a revision goes by: the stored one, unless an earlier one left it.
StateInForce(row, rev) == IF row = None \/ row.rev < rev THEN Fresh ELSE row.is

Version(row) == IF row = None THEN 0 ELSE row.ver

NextBar(r, st) == IF st.cursor = None THEN book[r][Rev(r)].from ELSE st.cursor + 1

\* evaluatePriceThresholdAlert on the one bar that is next.
Evaluated(r, st, met) ==
    [cursor |-> NextBar(r, st), eligible |-> met,
     triggered |-> st.cursor # None /\ ~st.eligible /\ met]

\* Owner, revision, authorization, token and expiry, compared under the lock.
FenceHolds(l) ==
    LET r == lane[l].rule
        o == owner[OwnerOf[r]]
    IN  /\ lane[l].at = "held" /\ rule[r].status = "active"
        /\ rule[r].lease = l /\ rule[r].live
        /\ Rev(r) = lane[l].rev
        /\ o.usable /\ o.auth = lane[l].auth /\ rule[r].auth = lane[l].auth

\* completePriceEvaluation with the bar the lane has read: the durable state is
\* the one claimed, the outcome follows from it, and its revision has no receipt
\* of the bar yet.
Accepts(l, met) ==
    LET r == lane[l].rule
        row == state[r][Scope(r)]
        st == StateInForce(row, lane[l].rev)
        claimed == StateInForce(lane[l].row, lane[l].rev)
    IN  /\ FenceHolds(l)
        /\ Version(row) = Version(lane[l].row)
        /\ ~st.triggered /\ NextBar(r, claimed) < clock
        /\ Evaluated(r, claimed, met) = Evaluated(r, st, met)
        /\ \A n \in DOMAIN book[r][Rev(r)].seen :
               book[r][Rev(r)].seen[n].bar # NextBar(r, claimed)

Complete(l, met) ==
    LET r == lane[l].rule
        s == Scope(r)
        now == book[r][Rev(r)]
        next == Evaluated(r, StateInForce(lane[l].row, lane[l].rev), met)
        receipt == [bar |-> next.cursor, met |-> met]
    IN  /\ Accepts(l, met)
        /\ state' = [state EXCEPT ![r][s] =
               [rev |-> lane[l].rev, ver |-> Version(state[r][s]) + 1, is |-> next]]
        /\ book' = [book EXCEPT ![r][Rev(r)] =
               [now EXCEPT !.seen = Append(now.seen, receipt),
                    !.told = IF next.triggered THEN now.told \cup {next.cursor} ELSE now.told]]
        /\ rule' = [rule EXCEPT ![r].lease = None, ![r].live = FALSE,
                                ![r].status = IF next.triggered THEN "disabled" ELSE "active"]
        /\ line' = IF ~next.triggered /\ next.cursor + 1 < clock
                   THEN Append(Without(r), r) ELSE Without(r)
        /\ lane' = [lane EXCEPT ![l] = Idle]
        /\ UNCHANGED <<owner, clock, changes>>

\* deferPriceEvaluation and failPriceEvaluation: no closed bar yet, no answer
\* from the provider, no room in the sweep, or a completion refused.  They
\* release the lease under the same fence, or find it lost.
PutOff(l) ==
    LET r == lane[l].rule
    IN  /\ lane[l].at = "held"
        /\ IF FenceHolds(l)
           THEN /\ rule' = [rule EXCEPT ![r].lease = None, ![r].live = FALSE]
                /\ line' = Without(r)
           ELSE rule' = Dropped(l) /\ UNCHANGED line
        /\ lane' = [lane EXCEPT ![l] = Idle]
        /\ UNCHANGED <<book, state, owner, clock, changes>>

-----------------------------------------------------------------------------
Next ==
    \/ \E r \in Rules, d \in Definitions : Create(r, d) \/ Update(r, d)
    \/ \E r \in Rules : Resubmit(r) \/ Rearm(r) \/ Archive(r) \/ ComesDue(r) \/ LeaseExpires(r)
    \/ \E o \in Owners : Transition(o)
    \/ BarCloses \/ RecoverExpiredLeases
    \/ \E l \in Lanes :
        \/ ClaimBegins(l) \/ ClaimEnds(l) \/ ClaimsNothing(l) \/ Forget(l) \/ PutOff(l)
        \/ \E met \in BOOLEAN : Complete(l, met)

Fairness ==
    /\ WF_vars(RecoverExpiredLeases)
    /\ \A r \in Rules : WF_vars(ComesDue(r)) /\ WF_vars(LeaseExpires(r))
    /\ \A l \in Lanes : WF_vars(ClaimEnds(l) \/ ClaimsNothing(l)) /\ WF_vars(PutOff(l))
    /\ SF_vars(\E l \in Lanes : ClaimBegins(l)) /\ SF_vars(\E l \in Lanes : ClaimEnds(l))
    /\ SF_vars(\E l \in Lanes : FenceHolds(l) /\ PutOff(l))
    /\ SF_vars(\E l \in Lanes, met \in BOOLEAN : Complete(l, met))

Spec == Init /\ [][Next]_vars /\ Fairness

-----------------------------------------------------------------------------
(* Every table and lane is well typed, only active rules are leased and at   *)
(* most one of an owner, and a rule whose time has come is active.           *)
AlertsTypeOK ==
    /\ rule \in [Rules -> [status : {"none", "active", "disabled", "archived"},
                           auth : 0 .. MaxChanges, lease : Lanes \cup {None, Nobody}, live : BOOLEAN]]
    /\ \A r \in Rules : \A v \in DOMAIN book[r] :
        /\ book[r][v].def \in Definitions /\ book[r][v].from \in Bars
        /\ ToSet(book[r][v].seen) \subseteq Receipt /\ book[r][v].told \subseteq Bars
    /\ state \in [Rules -> [Scopes -> Row \cup {None}]]
    /\ IsInjective(line) /\ \A r \in ToSet(line) : rule[r].status = "active"
    /\ \A l \in Lanes : lane[l].at \in {"idle", "claiming", "held"}
    /\ \A r \in Rules : Leased(r) => rule[r].status = "active"
    /\ \A o \in Owners : Cardinality({r \in Of(o) : Leased(r)}) <= 1

InForce(r) == rule[r].status = "active" /\ owner[OwnerOf[r]].usable

Promise == INSTANCE CrossingAlerts WITH
    journal <- [r \in Rules |-> [v \in DOMAIN book[r] |->
                  [from |-> book[r][v].from, seen |-> book[r][v].seen, told |-> book[r][v].told]]],
    inForce <- {r \in Rules : InForce(r)}

(* Whatever lane takes over whose lease, however stale its snapshot, and      *)
(* whenever the owner edits, rearms or loses authorization: each revision    *)
(* sees every bar from its arming on once and in order, is told of its first *)
(* crossing, and a revision once replaced sees no more.                       *)
KeepsWatch == Promise!PromiseSpec

(* A revision has looked at the bars from its arming on, one after the other;*)
(* its owner was told of a bar just when it met the threshold after one that *)
(* did not, and the revision has looked at nothing since.                     *)
Crossed(seen, i) == ~seen[i - 1].met /\ seen[i].met

Watched(e) ==
    LET n == Len(e.seen)
    IN  /\ \A i \in 1 .. n : e.seen[i].bar = e.from + i - 1
        /\ \A i \in 2 .. n : Crossed(e.seen, i) => i = n
        /\ e.told = {e.seen[i].bar : i \in {j \in 2 .. n : Crossed(e.seen, j)}}

ToldOfFirstCrossing == \A r \in Rules : \A v \in 1 .. Rev(r) : Watched(book[r][v])

(* No revision is lost, and only the last one of a rule in force ever looks   *)
(* at a bar: a claim made before an edit adds nothing to what it replaced, or *)
(* to what an owner who may not act would be told.                           *)
OnlyInForceSees ==
    [][\A r \in Rules :
          /\ Len(book'[r]) >= Rev(r)
          /\ \A v \in 1 .. Rev(r) :
                book'[r][v] # book[r][v] => v = Rev(r) /\ v = Len(book'[r]) /\ InForce(r)]_vars

(* A bar that has closed since the revision in force was armed.              *)
Awaits(r, b) ==
    /\ InForce(r) /\ book[r][Rev(r)].from <= b /\ b < clock
    /\ \A n \in DOMAIN book[r][Rev(r)].seen : book[r][Rev(r)].seen[n].bar # b

(* The evaluators catch up again and again: no closed bar waits for ever      *)
(* behind a lease no lane knows of, a rule of the same owner, or a claim made *)
(* from an old snapshot.                                                      *)
BarsEvaluated == []<>(\A r \in Rules, b \in Bars : ~Awaits(r, b))
=============================================================================
