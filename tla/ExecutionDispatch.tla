--------------------------- MODULE ExecutionDispatch ---------------------------
(***************************************************************************)
(* The way of a signed exchange request to the network: the authority of   *)
(* executionAuthority.ts, its process-local permits (executionPermits.ts)  *)
(* and the durable step ledger in PostgreSQL behind them                   *)
(* (executionStepDispatchLedger.ts, executionStepLedger.ts).  All is one   *)
(* owner's.  Every await of the authority is a place where the owner's     *)
(* authorization, the arming of live trading, the clock, retention, a      *)
(* revocation or the end of the process may come between.                  *)
(***************************************************************************)
EXTENDS Naturals, FiniteSets

CONSTANTS
    Callers,        \* engine calls under way at once
    Orders,         \* intents of a bot run: the account must be enabled and,
    Reducing,       \*   except for those that cancel or only reduce, live trading armed
    Reconciling, Emergency,   \* intents of a reconciliation, of an emergency stop
    Reads,          \* private reads of a bot, which use no ledger
    MaxPermits,     \* maxActivePerOwner of the broker
    MaxTombstones,  \* maxTombstonesPerOwner of the broker
    Active, Keys,   \* the ledger's limits: base, and two headrooms on top
    MaxRevision, MaxLocal,    \* bounds: changes of authorization and of local state
    None            \* no intent

Mutations == Orders \union Reconciling \union Emergency
Intents == Mutations \union Reads
Room == [base : Nat, reconciliation : Nat, emergency : Nat]

ASSUME DispatchAssumption ==
    /\ Reducing \subseteq Orders
    /\ Orders \intersect (Reconciling \union Emergency) = {}
    /\ Reconciling \intersect Emergency = {} /\ Reads \intersect Mutations = {}
    /\ IsFiniteSet(Mutations) /\ None \notin Intents
    /\ Active \in Room /\ Keys \in Room
    /\ {MaxPermits, MaxTombstones, MaxRevision, MaxLocal} \subseteq Nat /\ MaxRevision > 0

VARIABLES
    auth,      \* the durable authorization: its revision, and whether it allows trading
    local,     \* revision of what the process reads at once: account, arming, epochs
    live,      \* live trading is armed, disarmed, or its account disabled
    caller,    \* each call: its step, the claims of its permit and, as history,
               \* whether its authorization was in force when the ledger consumed
    active,    \* the broker's permits that are not terminal
    tombs,     \* the claims of its terminal ones, as far as it remembers them
    ledger,    \* each mutation's durable key and reservation; "gone": only the key
    sent       \* history: how often a mutation reached the network

vars == <<auth, local, live, caller, active, tombs, ledger, sent>>

(* The claims stand for the binding digest: two steps are the same when    *)
(* they agree in the intent and every revision.                            *)
Claims == [intent : Intents, rev : 1 .. MaxRevision, local : 0 .. MaxLocal]
Idle == [at |-> "idle", claims |-> [intent |-> None, rev |-> 0, local |-> 0], inForce |-> FALSE]

Init ==
    /\ auth = [rev |-> 1, ok |-> TRUE] /\ local = 0 /\ live = "armed"
    /\ caller = [c \in Callers |-> Idle] /\ active = {} /\ tombs = {}
    /\ ledger = [i \in Mutations |-> "none"] /\ sent = [i \in Mutations |-> 0]

-----------------------------------------------------------------------------
(* Around the authority.                                                   *)

\* An administrator, a password change or the end of the session.
ChangeAuthorization ==
    /\ auth.rev < MaxRevision
    /\ \E ok \in BOOLEAN : auth' = [rev |-> auth.rev + 1, ok |-> ok]
    /\ UNCHANGED <<local, live, caller, active, tombs, ledger, sent>>

\* Arming, disarming, new credentials, a change of the account.
ChangeLocal ==
    /\ local < MaxLocal /\ local' = local + 1 /\ live' \in {"armed", "disarmed", "disabled"}
    /\ UNCHANGED <<auth, caller, active, tombs, ledger, sent>>

ReservationLapses(i) ==
    /\ ledger[i] = "reserved" /\ ledger' = [ledger EXCEPT ![i] = "late"]
    /\ UNCHANGED <<auth, local, live, caller, active, tombs, sent>>

\* The process ends; the broker and its callers are gone, the ledger is not.
Crash ==
    /\ caller' = [c \in Callers |-> Idle] /\ active' = {} /\ tombs' = {}
    /\ UNCHANGED <<auth, local, live, ledger, sent>>

-----------------------------------------------------------------------------
(* The broker.                                                             *)

Terminal(P) == {p.claims : p \in P}

\* trimTombstones: the oldest go first, here any.
Retained(T) ==
    {S \in SUBSET T : Cardinality(S) = IF Cardinality(T) > MaxTombstones THEN MaxTombstones ELSE Cardinality(T)}

\* terminate: the permits in P are consumed, expired or revoked.
End(P) ==
    /\ active' = active \ P
    /\ tombs' \in Retained(tombs \union Terminal(P))

\* The permit a caller's token stands for, if the broker still knows it.
Own(c) == {p \in active : p.by = c /\ p.claims = caller[c].claims}

\* assertAccountCurrent, assertArmCurrent: requiresArmed and
\* operationMayUseDisabledAccount, which exempt reconciliations and emergencies.
Allowed(i) ==
    /\ i \in Orders \union Reads => live # "disabled"
    /\ i \in Orders \ Reducing => live = "armed"

\* isLocallyCurrent; a permit past its deadline is no longer active.
Usable(p) == p.claims.local = local /\ Allowed(p.claims.intent)

SameOperation(i, j) == \E O \in {Orders, Reconciling, Emergency, Reads} : {i, j} \subseteq O

Operation(i) == {p \in active : SameOperation(p.claims.intent, i)}

\* A deadline: all that look at a permit prune or check it first, so that one
\* past its deadline is as good as terminal.
DeadlinePasses(p) ==
    /\ End({p})
    /\ UNCHANGED <<auth, local, live, caller, ledger, sent>>

\* revokeOperation, revokeAccount, revokeOwner.
Revoke ==
    /\ \E P \in {active} \union {Operation(i) : i \in Intents} : P # {} /\ End(P)
    /\ UNCHANGED <<auth, local, live, caller, ledger, sent>>

Goes(c, at) == caller' = [caller EXCEPT ![c].at = at]
Stops(c) == caller' = [caller EXCEPT ![c] = Idle]

\* consumeLocallyWithoutNetwork, consumeBrokerHandoffWithoutNetwork.
Fail(c) == End(Own(c)) /\ Stops(c)

-----------------------------------------------------------------------------
(* issue.                                                                  *)

\* The first await: the durable authorization of the owner and the session.
Load(c, i) ==
    /\ caller[c].at = "idle" /\ auth.ok
    /\ caller' = [caller EXCEPT ![c] = [at |-> "loaded", inForce |-> FALSE,
                                         claims |-> [intent |-> i, rev |-> auth.rev, local |-> 0]]]
    /\ UNCHANGED <<auth, local, live, active, tombs, ledger, sent>>

\* The local state, assertNewStep, assertCapacity.
MayIssue(claims) ==
    /\ Allowed(claims.intent)
    /\ claims \notin tombs \union Terminal(active)
    /\ Cardinality(active) < MaxPermits

\* The rest of issue up to the reservation.
Issue(c) ==
    LET claims == [caller[c].claims EXCEPT !.local = local] IN
    /\ caller[c].at = "loaded"
    /\ \/ /\ MayIssue(claims)
          /\ active' = active \union {[claims |-> claims, by |-> c]}
          /\ caller' = [caller EXCEPT ![c] =
                [at |-> IF claims.intent \in Reads THEN "ready" ELSE "reserve",
                 claims |-> claims, inForce |-> FALSE]]
       \/ ~MayIssue(claims) /\ Stops(c) /\ UNCHANGED active
    /\ UNCHANGED <<auth, local, live, tombs, ledger, sent>>

-----------------------------------------------------------------------------
(* The ledger.  Its transactions take the owner's advisory lock.           *)

Lapsed == {i \in Mutations : ledger[i] = "late"}
Ended == {i \in Mutations : ledger[i] \in {"consumed", "expired"}}

\* pruneOwnerInTransaction expires a batch and forgets a batch, by age and by
\* count; the keys stay.
Pruned(rows, E, G) ==
    [i \in Mutations |-> IF i \in E THEN "expired" ELSE IF i \in G THEN "gone" ELSE rows[i]]

PruneOwner ==
    /\ \E E \in SUBSET Lapsed, G \in SUBSET Ended : ledger' = Pruned(ledger, E, G)
    /\ UNCHANGED <<auth, local, live, caller, active, tombs, sent>>

(* findConflictingRows: the key of an intent is never deleted.  Mutant: only *)
(* a reservation makes a step known.                                        *)
KnownByReservation(i) == ledger[i] \in {"reserved", "late", "consumed", "expired"}

Known(i) == ledger[i] # "none"

(* The limit of an intent's kind.  Mutant: every kind may use every headroom. *)
LimitOfAll(room, i) == room.base + room.reconciliation + room.emergency

Limit(room, i) ==
    CASE i \in Orders -> room.base
      [] i \in Reconciling -> room.base + room.reconciliation
      [] OTHER -> room.base + room.reconciliation + room.emergency

MayReserve(rows, i) ==
    /\ Cardinality({j \in Mutations : rows[j] = "reserved"}) < Limit(Active, i)
    /\ Cardinality({j \in Mutations : rows[j] # "none"}) < Limit(Keys, i)

\* The rest of issue: a duplicate, a conflict or a full ledger ends it.
Reserve(c) ==
    LET i == caller[c].claims.intent IN
    /\ caller[c].at = "reserve"
    /\ \E E \in SUBSET Lapsed, G \in SUBSET Ended :
        LET rows == Pruned(ledger, E, G) IN
        \/ Known(i) /\ ledger' = rows /\ Fail(c)
        \/ /\ ~Known(i) /\ MayReserve(rows, i)
           /\ ledger' = [rows EXCEPT ![i] = "reserved"]
           /\ \/ Goes(c, "recheck") /\ UNCHANGED <<active, tombs>>
              \/ Fail(c)                 \* the commit's answer is lost
    /\ UNCHANGED <<auth, local, live, sent>>

\* A failing statement, an exhausted limit (rolled back), or another epoch.
StatementFails(c) ==
    /\ caller[c].at \in {"reserve", "recheck", "handed", "settle", "confirm"}
    /\ Fail(c)
    /\ UNCHANGED <<auth, local, live, ledger, sent>>

\* sameAuthorization, sameSessionAuthorization.
Current(c) == auth.ok /\ auth.rev = caller[c].claims.rev

Recheck(c) ==
    /\ caller[c].at = "recheck"
    /\ \/ Current(c) /\ Goes(c, "ready") /\ UNCHANGED <<active, tombs>>
       \/ ~Current(c) /\ Fail(c)
    /\ UNCHANGED <<auth, local, live, ledger, sent>>

-----------------------------------------------------------------------------
(* handoff and consumeAndInvoke.                                           *)

Handoff(c) ==
    /\ caller[c].at = "ready"
    /\ \E p \in Own(c) : Usable(p)
    /\ Goes(c, "handed")
    /\ UNCHANGED <<auth, local, live, active, tombs, ledger, sent>>

\* Not usable any more, or the engine states another step: the permit is over.
HandoffRefused(c) ==
    /\ caller[c].at = "ready" /\ Fail(c)
    /\ UNCHANGED <<auth, local, live, ledger, sent>>

\* The engine drops its permit; the broker keeps it until its deadline.
Abandon(c) ==
    /\ caller[c].at \in {"ready", "handed"} /\ Stops(c)
    /\ UNCHANGED <<auth, local, live, active, tombs, ledger, sent>>

\* Found out of date: the whole operation is revoked.
RevokesOperation(c) == End(Operation(caller[c].claims.intent) \union Own(c)) /\ Stops(c)

Begin(c) ==
    /\ caller[c].at = "handed"
    /\ \/ /\ Current(c)
          /\ Goes(c, IF caller[c].claims.intent \in Reads THEN "dispatch" ELSE "settle")
          /\ UNCHANGED <<active, tombs>>
       \/ ~Current(c) /\ RevokesOperation(c)
    /\ UNCHANGED <<auth, local, live, ledger, sent>>

\* consume: reserved becomes consumed or, too late, expired; only the former
\* prunes, and goes on unless its answer is lost.
Settle(c) ==
    LET i == caller[c].claims.intent
        rows == [ledger EXCEPT ![i] = "consumed"] IN
    /\ caller[c].at = "settle"
    /\ \/ /\ ledger[i] = "reserved"
          /\ \E E \in SUBSET Lapsed, G \in SUBSET (Ended \union {i}) : ledger' = Pruned(rows, E, G)
          /\ \/ /\ caller' = [caller EXCEPT ![c].at = "confirm", ![c].inForce = Current(c)]
                /\ UNCHANGED <<active, tombs>>
             \/ Fail(c)
       \/ ledger[i] = "late" /\ ledger' = [ledger EXCEPT ![i] = "expired"] /\ Fail(c)
       \/ ledger[i] \notin {"reserved", "late"} /\ Fail(c) /\ UNCHANGED ledger
    /\ UNCHANGED <<auth, local, live, sent>>

(* The durable authorization is read again after the ledger's await.        *)
(* Mutant: what was read before it is trusted.                              *)
ReadBefore(c) == TRUE

StillCurrent(c) == Current(c)

Confirm(c) ==
    /\ caller[c].at = "confirm"
    /\ \/ StillCurrent(c) /\ Goes(c, "dispatch") /\ UNCHANGED <<active, tombs>>
       \/ ~StillCurrent(c) /\ RevokesOperation(c)
    /\ UNCHANGED <<auth, local, live, ledger, sent>>

\* The broker consumes the permit and calls the network in one synchronous step.
Dispatch(c) ==
    LET i == caller[c].claims.intent IN
    /\ caller[c].at = "dispatch"
    /\ Fail(c)
    /\ \/ /\ \E p \in Own(c) : Usable(p)
          /\ sent' = [j \in Mutations |-> IF j = i THEN sent[j] + 1 ELSE sent[j]]
       \/ (\A p \in Own(c) : ~Usable(p)) /\ UNCHANGED sent
    /\ UNCHANGED <<auth, local, live, ledger>>

Next ==
    \/ ChangeAuthorization \/ ChangeLocal \/ Revoke \/ PruneOwner \/ Crash
    \/ \E p \in active : DeadlinePasses(p)
    \/ \E i \in Mutations : ReservationLapses(i)
    \/ \E c \in Callers :
        \/ \E i \in Intents : Load(c, i)
        \/ Issue(c) \/ Reserve(c) \/ StatementFails(c) \/ Recheck(c)
        \/ Handoff(c) \/ HandoffRefused(c) \/ Abandon(c)
        \/ Begin(c) \/ Settle(c) \/ Confirm(c) \/ Dispatch(c)

Spec == Init /\ [][Next]_vars
-----------------------------------------------------------------------------
Stages == {"idle", "loaded", "reserve", "recheck", "ready", "handed", "settle", "confirm", "dispatch"}

Used(I) == {i \in I : ledger[i] # "none"}
Reserved(I) == {i \in I : ledger[i] = "reserved"}

(* Every variable keeps its type, and a headroom of the ledger its purpose: *)
(* orders never use what is kept for reconciliation and emergencies.       *)
DispatchTypeOK ==
    /\ auth \in [rev : 1 .. MaxRevision, ok : BOOLEAN] /\ local \in 0 .. MaxLocal /\ live \in {"armed", "disarmed", "disabled"}
    /\ caller \in [Callers -> [at : Stages, claims : Claims \union {Idle.claims}, inForce : BOOLEAN]]
    /\ active \subseteq [claims : Claims, by : Callers]
    /\ tombs \subseteq Claims
    /\ ledger \in [Mutations -> {"none", "reserved", "late", "consumed", "expired", "gone"}]
    /\ sent \in [Mutations -> Nat]
    /\ Cardinality(Used(Orders)) <= Keys.base
    /\ Cardinality(Reserved(Orders)) <= Active.base
    /\ Cardinality(Used(Orders \union Reconciling)) <= Keys.base + Keys.reconciliation
    /\ Cardinality(Reserved(Orders \union Reconciling)) <= Active.base + Active.reconciliation

(* A signed mutation reaches the network at most once, whatever the engine *)
(* repeats under whatever authorization, whichever tombstone the broker and *)
(* whichever reservation the ledger has forgotten, and however often the   *)
(* process restarts.                                                       *)
DispatchedOnce == \A i \in Mutations : sent[i] <= 1

(* When a mutation reaches the network, nothing the process knows of has   *)
(* changed since its permit, and the authorization it was issued under was *)
(* still in force when the ledger consumed it: a revocation before that is *)
(* never followed by the request.                                          *)
NoStaleDispatch ==
    [][\A i \in Mutations : sent'[i] # sent[i] =>
        /\ \E c \in Callers : /\ caller[c].claims.intent = i /\ caller[c].claims.local = local
                              /\ caller'[c].at = "idle" /\ caller[c].inForce
        /\ i \in Orders => live # "disabled"
        /\ i \in Orders \ Reducing => live = "armed"]_vars
=============================================================================
