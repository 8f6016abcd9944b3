------------------------ MODULE ExecutionDispatch_proofs ------------------------
(***************************************************************************)
(* Proofs about the way of a signed request, for any number of calls,      *)
(* intents, permits and changes.  The argument: the key of an intent is    *)
(* written once and never deleted, so that at most one call ever gets past *)
(* the reservation of an intent (OneCarrier), and the network has not seen *)
(* the intent while that call is on its way; the call is at its end when   *)
(* it dispatches.  The authorization's revision only grows, so that a call *)
(* that finds its own again after the ledger's await found it there before *)
(* (InForceBefore).                                                        *)
(***************************************************************************)
EXTENDS ExecutionDispatch, FiniteSetTheorems, TLAPS

Calls == [at : Stages, claims : Claims \union {Idle.claims}, inForce : BOOLEAN]
Permits == [claims : Claims, by : Callers]
KeyStates == {"none", "reserved", "late", "consumed", "expired", "gone"}

(* The types, and what a call that is under way knows.                      *)
Typed ==
    /\ auth \in [rev : 1 .. MaxRevision, ok : BOOLEAN] /\ local \in 0 .. MaxLocal /\ live \in {"armed", "disarmed", "disabled"}
    /\ caller \in [Callers -> Calls] /\ active \subseteq Permits /\ tombs \subseteq Claims
    /\ ledger \in [Mutations -> KeyStates] /\ sent \in [Mutations -> Nat]

UnderWay ==
    \A c \in Callers : caller[c].at # "idle" =>
        /\ caller[c].claims \in Claims /\ caller[c].claims.rev <= auth.rev
        /\ caller[c].at \in {"reserve", "recheck", "settle", "confirm"} =>
              caller[c].claims.intent \in Mutations

(* A call past the reservation of an intent.                                *)
Past == {"recheck", "ready", "handed", "settle", "confirm", "dispatch"}
Carries(c, i) == caller[c].at \in Past /\ caller[c].claims.intent = i

OneCarrier ==
    \A i \in Mutations :
        /\ \A c, d \in Callers : Carries(c, i) /\ Carries(d, i) => c = d
        /\ \A c \in Callers : Carries(c, i) => ledger[i] # "none" /\ sent[i] = 0
        /\ ledger[i] = "none" => sent[i] = 0
        /\ sent[i] <= 1

(* After the ledger's await, a call whose authorization is still in force   *)
(* had it in force before.                                                  *)
InForceBefore ==
    \A c \in Callers :
        /\ caller[c].at = "confirm" /\ Current(c) => caller[c].inForce
        /\ caller[c].at = "dispatch" /\ caller[c].claims.intent \in Mutations => caller[c].inForce

Headroom ==
    /\ Cardinality(Used(Orders)) <= Keys.base
    /\ Cardinality(Reserved(Orders)) <= Active.base
    /\ Cardinality(Used(Orders \union Reconciling)) <= Keys.base + Keys.reconciliation
    /\ Cardinality(Reserved(Orders \union Reconciling)) <= Active.base + Active.reconciliation

Inv == Typed /\ UnderWay /\ OneCarrier /\ InForceBefore /\ Headroom

-----------------------------------------------------------------------------
(* Steps of one call.                                                       *)

LEMMA IdleType == Idle \in Calls /\ Idle.at = "idle"
  BY DEF Idle, Calls, Stages

(* A call that goes on keeps its claims.                                    *)
LEMMA GoesOn ==
  ASSUME Typed, NEW c \in Callers, NEW at \in Stages, Goes(c, at)
  PROVE  /\ caller' \in [Callers -> Calls]
         /\ caller'[c].at = at /\ caller'[c].claims = caller[c].claims
         /\ caller'[c].inForce = caller[c].inForce
         /\ \A d \in Callers \ {c} : caller'[d] = caller[d]
<1>1. caller' = [caller EXCEPT ![c] = [caller[c] EXCEPT !.at = at]] /\ caller[c] \in Calls
  BY DEF Goes, Typed
<1>2. /\ [caller[c] EXCEPT !.at = at] \in Calls
      /\ [caller[c] EXCEPT !.at = at].at = at
      /\ [caller[c] EXCEPT !.at = at].claims = caller[c].claims
      /\ [caller[c] EXCEPT !.at = at].inForce = caller[c].inForce
  BY <1>1 DEF Calls
<1>3. QED BY <1>1, <1>2 DEF Typed

LEMMA StopsIdle ==
  ASSUME Typed, NEW c \in Callers, Stops(c)
  PROVE  /\ caller' \in [Callers -> Calls] /\ caller'[c].at = "idle"
         /\ \A d \in Callers \ {c} : caller'[d] = caller[d]
  BY IdleType DEF Stops, Typed

(* Ending permits keeps the broker's types.                                 *)
LEMMA EndType ==
  ASSUME Typed, NEW P \in SUBSET active, End(P)
  PROVE  active' \subseteq Permits /\ tombs' \subseteq Claims
<1>1. Terminal(P) \subseteq Claims
  BY DEF Typed, Terminal, Permits
<1>2. tombs' \subseteq tombs \union Terminal(P)
  BY DEF End, Retained
<1>3. QED BY <1>1, <1>2 DEF End, Typed

LEMMA FailType ==
  ASSUME Typed, NEW c \in Callers, Fail(c) \/ RevokesOperation(c)
  PROVE  /\ active' \subseteq Permits /\ tombs' \subseteq Claims
         /\ caller' \in [Callers -> Calls] /\ caller'[c].at = "idle"
         /\ \A d \in Callers \ {c} : caller'[d] = caller[d]
<1>1. Own(c) \subseteq active /\ Operation(caller[c].claims.intent) \subseteq active
  BY DEF Own, Operation
<1>2. Stops(c) /\ \E P \in SUBSET active : End(P)
  BY <1>1 DEF Fail, RevokesOperation
<1>3. QED BY <1>2, EndType, StopsIdle

-----------------------------------------------------------------------------
(* Steps of the ledger.                                                     *)

(* No key is written or forgotten, and nothing is reserved.                 *)
KeysStay ==
    /\ ledger' \in [Mutations -> KeyStates]
    /\ \A i \in Mutations : /\ ledger'[i] = "none" <=> ledger[i] = "none"
                            /\ ledger'[i] = "reserved" => ledger[i] = "reserved"

LEMMA PrunedKeys ==
  ASSUME Typed, NEW E \in SUBSET Lapsed, NEW G \in SUBSET Ended
  PROVE  /\ Pruned(ledger, E, G) \in [Mutations -> KeyStates]
         /\ \A i \in Mutations : /\ Pruned(ledger, E, G)[i] = "none" <=> ledger[i] = "none"
                                 /\ Pruned(ledger, E, G)[i] = "reserved" => ledger[i] = "reserved"
  BY DEF Typed, Pruned, Lapsed, Ended, KeyStates

LEMMA FiniteParts ==
  ASSUME NEW I \in SUBSET Mutations
  PROVE  /\ IsFiniteSet(Used(I)) /\ IsFiniteSet(Reserved(I))
         /\ Cardinality(Used(I)) \in Nat /\ Cardinality(Reserved(I)) \in Nat
<1>1. IsFiniteSet(Mutations) /\ Used(I) \in SUBSET Mutations /\ Reserved(I) \in SUBSET Mutations
  BY DispatchAssumption DEF Used, Reserved
<1>2. IsFiniteSet(Used(I)) /\ IsFiniteSet(Reserved(I))
  BY <1>1, FS_Subset
<1>3. QED BY <1>2, FS_CardinalityType

LEMMA HeadroomStays == Typed /\ Headroom /\ KeysStay => Headroom'
<1> SUFFICES ASSUME Typed, Headroom, KeysStay PROVE Headroom'
  OBVIOUS
<1>1. ASSUME NEW I \in SUBSET Mutations
      PROVE  /\ Cardinality(Used(I))' <= Cardinality(Used(I))
             /\ Cardinality(Reserved(I))' <= Cardinality(Reserved(I))
             /\ Cardinality(Used(I))' \in Nat /\ Cardinality(Reserved(I))' \in Nat
  <2>1. Used(I)' \in SUBSET Used(I) /\ Reserved(I)' \in SUBSET Reserved(I)
    BY DEF KeysStay, Used, Reserved
  <2>2. /\ IsFiniteSet(Used(I)) /\ IsFiniteSet(Reserved(I))
    BY FiniteParts
  <2>3. /\ IsFiniteSet(Used(I)') /\ IsFiniteSet(Reserved(I)')
        /\ Cardinality(Used(I)') <= Cardinality(Used(I))
        /\ Cardinality(Reserved(I)') <= Cardinality(Reserved(I))
    BY <2>1, <2>2, FS_Subset
  <2>4. QED BY <2>3, FS_CardinalityType
<1>2. Orders \in SUBSET Mutations /\ Orders \union Reconciling \in SUBSET Mutations
  BY DEF Mutations
<1>3. /\ Cardinality(Used(Orders)) \in Nat /\ Cardinality(Reserved(Orders)) \in Nat
      /\ Cardinality(Used(Orders \union Reconciling)) \in Nat
      /\ Cardinality(Reserved(Orders \union Reconciling)) \in Nat
  BY <1>2, FiniteParts
<1>4. /\ Keys.base \in Nat /\ Keys.reconciliation \in Nat
      /\ Active.base \in Nat /\ Active.reconciliation \in Nat
  BY DispatchAssumption DEF Room
<1>5. /\ Cardinality(Used(Orders))' <= Keys.base
      /\ Cardinality(Reserved(Orders))' <= Active.base
  BY <1>1, <1>2, <1>3, <1>4 DEF Headroom
<1>6. /\ Cardinality(Used(Orders \union Reconciling))' <= Keys.base + Keys.reconciliation
      /\ Cardinality(Reserved(Orders \union Reconciling))' <= Active.base + Active.reconciliation
  BY <1>1, <1>2, <1>3, <1>4 DEF Headroom
<1>7. QED BY <1>5, <1>6 DEF Headroom

(* One element more stays within a limit that was not reached.              *)
LEMMA OneMore ==
  ASSUME NEW S, IsFiniteSet(S), NEW i, NEW T \in SUBSET (S \union {i}), NEW n \in Nat,
         Cardinality(S) < n
  PROVE  Cardinality(T) <= n
<1>1. /\ IsFiniteSet(S \union {i}) /\ Cardinality(S) \in Nat
      /\ Cardinality(S \union {i}) <= Cardinality(S) + 1
  BY FS_AddElement, FS_CardinalityType
<1>2. Cardinality(T) <= Cardinality(S \union {i}) /\ Cardinality(T) \in Nat
      /\ Cardinality(S \union {i}) \in Nat
  BY <1>1, FS_Subset, FS_CardinalityType
<1>3. QED BY <1>1, <1>2

(* A reservation within its limits leaves the headroom above it.            *)
LEMMA HeadroomKept ==
  ASSUME Typed, Headroom, NEW i \in Mutations, NEW rows \in [Mutations -> KeyStates],
         \A j \in Mutations : /\ rows[j] = "none" <=> ledger[j] = "none"
                              /\ rows[j] = "reserved" => ledger[j] = "reserved",
         MayReserve(rows, i), ledger' = [rows EXCEPT ![i] = "reserved"]
  PROVE  Headroom'
<1> DEFINE R == {j \in Mutations : rows[j] = "reserved"}
           K == {j \in Mutations : rows[j] # "none"}
<1>1. /\ IsFiniteSet(R) /\ IsFiniteSet(K) /\ Cardinality(R) < Limit(Active, i)
      /\ Cardinality(K) < Limit(Keys, i)
  <2>1. IsFiniteSet(Mutations) /\ R \in SUBSET Mutations /\ K \in SUBSET Mutations
    BY DispatchAssumption
  <2>2. QED BY <2>1, FS_Subset DEF MayReserve
<1>2. /\ Keys.base \in Nat /\ Keys.reconciliation \in Nat
      /\ Active.base \in Nat /\ Active.reconciliation \in Nat
  BY DispatchAssumption DEF Room
<1>3. \A j \in Mutations : ledger'[j] = IF j = i THEN "reserved" ELSE rows[j]
  OBVIOUS
<1>4. ASSUME NEW I \in SUBSET Mutations
      PROVE  /\ i \notin I => /\ Used(I)' \in SUBSET Used(I)
                              /\ Reserved(I)' \in SUBSET Reserved(I)
             /\ Used(I)' \in SUBSET (K \union {i})
             /\ Reserved(I)' \in SUBSET (R \union {i})
  BY <1>3 DEF Used, Reserved
<1>5. ASSUME NEW I \in SUBSET Mutations, NEW n \in Nat, NEW m \in Nat,
             Cardinality(Used(I)) <= n, Cardinality(Reserved(I)) <= m,
             i \in I => Limit(Keys, i) <= n /\ Limit(Active, i) <= m,
             i \in I => Limit(Keys, i) \in Nat /\ Limit(Active, i) \in Nat
      PROVE  Cardinality(Used(I))' <= n /\ Cardinality(Reserved(I))' <= m
  <2>1. CASE i \notin I
    <3>1. /\ IsFiniteSet(Used(I)) /\ IsFiniteSet(Reserved(I))
          /\ Cardinality(Used(I)) \in Nat /\ Cardinality(Reserved(I)) \in Nat
      BY FiniteParts
    <3>2. Used(I)' \in SUBSET Used(I) /\ Reserved(I)' \in SUBSET Reserved(I)
      BY <1>4, <2>1
    <3>3. /\ Cardinality(Used(I)') <= Cardinality(Used(I)) /\ Cardinality(Used(I)') \in Nat
          /\ Cardinality(Reserved(I)') <= Cardinality(Reserved(I)) /\ Cardinality(Reserved(I)') \in Nat
      BY <3>1, <3>2, FS_Subset, FS_CardinalityType
    <3>4. QED BY <1>5, <3>1, <3>3
  <2>2. CASE i \in I
    <3>1. Cardinality(K) < n /\ Cardinality(R) < m
      <4>1. Cardinality(K) \in Nat /\ Cardinality(R) \in Nat
        BY <1>1, FS_CardinalityType
      <4> HIDE DEF K, R
      <4>2. QED BY <1>1, <1>5, <2>2, <4>1
    <3>2. Used(I)' \in SUBSET (K \union {i}) /\ Reserved(I)' \in SUBSET (R \union {i})
      BY <1>4
    <3> HIDE DEF K, R
    <3>3. QED BY <1>1, <3>1, <3>2, OneMore
  <2>3. QED BY <2>1, <2>2
<1>6. i \in Orders => Limit(Keys, i) = Keys.base /\ Limit(Active, i) = Active.base
  BY DispatchAssumption DEF Limit
<1>7. i \in Reconciling \ Orders => /\ Limit(Keys, i) = Keys.base + Keys.reconciliation
                                    /\ Limit(Active, i) = Active.base + Active.reconciliation
  BY DEF Limit
<1>8. Orders \in SUBSET Mutations /\ Orders \union Reconciling \in SUBSET Mutations
  BY DEF Mutations
<1>9. /\ Cardinality(Used(Orders))' <= Keys.base
      /\ Cardinality(Reserved(Orders))' <= Active.base
  BY <1>2, <1>5, <1>6, <1>8 DEF Headroom
<1>10. /\ Cardinality(Used(Orders \union Reconciling))' <= Keys.base + Keys.reconciliation
       /\ Cardinality(Reserved(Orders \union Reconciling))' <= Active.base + Active.reconciliation
  <2>1. /\ Keys.base + Keys.reconciliation \in Nat /\ Active.base + Active.reconciliation \in Nat
        /\ i \in Orders \union Reconciling =>
              /\ Limit(Keys, i) <= Keys.base + Keys.reconciliation
              /\ Limit(Active, i) <= Active.base + Active.reconciliation
              /\ Limit(Keys, i) \in Nat /\ Limit(Active, i) \in Nat
    BY <1>2, <1>6, <1>7
  <2>2. QED BY <1>5, <1>8, <2>1 DEF Headroom
<1>11. QED BY <1>9, <1>10 DEF Headroom

-----------------------------------------------------------------------------
(* The invariant.                                                           *)

LEMMA Initially == Init => Inv
<1> SUFFICES ASSUME Init PROVE Inv
  OBVIOUS
<1>1. Typed
  BY DispatchAssumption, IdleType DEF Init, Typed, KeyStates
<1>2. \A c \in Callers : caller[c].at = "idle"
  BY IdleType DEF Init
<1>3. UnderWay /\ InForceBefore
  BY <1>2 DEF UnderWay, InForceBefore
<1>4. OneCarrier
  BY <1>2 DEF OneCarrier, Carries, Past, Init
<1>5. Headroom
  <2>1. /\ Used(Orders) = {} /\ Used(Orders \union Reconciling) = {}
        /\ Reserved(Orders) = {} /\ Reserved(Orders \union Reconciling) = {}
    BY DEF Used, Reserved, Init, Mutations
  <2>2. Cardinality({}) = 0
    BY FS_EmptySet
  <2>3. /\ Keys.base \in Nat /\ Keys.reconciliation \in Nat
        /\ Active.base \in Nat /\ Active.reconciliation \in Nat
    BY DispatchAssumption DEF Room
  <2>4. /\ Cardinality(Used(Orders)) = 0 /\ Cardinality(Used(Orders \union Reconciling)) = 0
        /\ Cardinality(Reserved(Orders)) = 0 /\ Cardinality(Reserved(Orders \union Reconciling)) = 0
    BY <2>1, <2>2, Zenon
  <2>5. QED BY <2>3, <2>4 DEF Headroom
<1>6. QED BY <1>1, <1>3, <1>4, <1>5 DEF Inv

(* A step of one call that neither reserves nor dispatches.                 *)
LEMMA CallMoves ==
  ASSUME Inv, NEW c \in Callers, caller' \in [Callers -> Calls],
         \A d \in Callers \ {c} : caller'[d] = caller[d],
         UNCHANGED <<auth, local, live, sent>>, KeysStay,
         active' \subseteq Permits, tombs' \subseteq Claims,
         caller'[c].at # "idle" =>
            /\ caller'[c].claims \in Claims /\ caller'[c].claims.rev <= auth.rev
            /\ caller'[c].at \in {"reserve", "recheck", "settle", "confirm"} =>
                  caller'[c].claims.intent \in Mutations,
         caller'[c].at \in Past /\ caller'[c].claims.intent \in Mutations =>
            caller[c].at \in Past /\ caller[c].claims = caller'[c].claims,
         caller'[c].at = "confirm" /\ Current(c)' => caller'[c].inForce,
         caller'[c].at = "dispatch" /\ caller'[c].claims.intent \in Mutations => caller'[c].inForce
  PROVE  Inv'
<1>1. Typed'
  BY DEF Inv, Typed, KeysStay
<1>2. UnderWay'
  BY DEF Inv, UnderWay
<1>3. OneCarrier'
  <2>1. \A d \in Callers, i \in Mutations : Carries(d, i)' => Carries(d, i)
    BY DEF Carries
  <2>2. QED BY <2>1 DEF Inv, OneCarrier, KeysStay
<1>4. InForceBefore'
  BY DEF Inv, InForceBefore, Current
<1>5. Headroom'
  BY HeadroomStays DEF Inv
<1>6. QED BY <1>1, <1>2, <1>3, <1>4, <1>5 DEF Inv

(* A call that fails leaves everything in order.                            *)
LEMMA CallFails ==
  ASSUME Inv, NEW c \in Callers, \/ Fail(c) \/ RevokesOperation(c)
         \/ (Stops(c) /\ UNCHANGED <<active, tombs>>),
         UNCHANGED <<auth, local, live, sent>>, KeysStay
  PROVE  Inv'
<1>1. /\ active' \subseteq Permits /\ tombs' \subseteq Claims
      /\ caller' \in [Callers -> Calls] /\ caller'[c].at = "idle"
      /\ \A d \in Callers \ {c} : caller'[d] = caller[d]
  BY FailType, StopsIdle DEF Inv, Typed
<1>2. QED BY <1>1, CallMoves DEF Past

LEMMA LedgerStays == Typed /\ UNCHANGED ledger => KeysStay
  BY DEF Typed, KeysStay

(* Steps that move no call.                                                 *)
LEMMA AroundTheCalls ==
  ASSUME Inv, \/ ChangeAuthorization \/ ChangeLocal \/ Revoke \/ PruneOwner \/ UNCHANGED vars
              \/ \E p \in active : DeadlinePasses(p)
              \/ \E i \in Mutations : ReservationLapses(i)
  PROVE  Inv'
<1>1. UNCHANGED <<caller, sent>>
  BY DEF ChangeAuthorization, ChangeLocal, Revoke, PruneOwner, vars, DeadlinePasses, ReservationLapses
<1>2. KeysStay
  <2>1. CASE UNCHANGED ledger
    BY <2>1, LedgerStays DEF Inv
  <2>2. CASE PruneOwner
    BY <2>2, PrunedKeys DEF Inv, PruneOwner, KeysStay
  <2>3. ASSUME NEW i \in Mutations, ReservationLapses(i) PROVE KeysStay
    BY <2>3 DEF Inv, Typed, ReservationLapses, KeysStay, KeyStates
  <2>4. QED
    BY <2>1, <2>2, <2>3 DEF ChangeAuthorization, ChangeLocal, Revoke, vars, DeadlinePasses
<1>3. /\ active' \subseteq Permits /\ tombs' \subseteq Claims
  <2>1. CASE UNCHANGED <<active, tombs>>
    BY <2>1 DEF Inv, Typed
  <2>2. CASE Revoke
    <3>1. \E P \in SUBSET active : End(P)
      BY <2>2 DEF Revoke, Operation
    <3>2. QED BY <3>1, EndType DEF Inv
  <2>3. ASSUME NEW p \in active, DeadlinePasses(p) PROVE active' \subseteq Permits /\ tombs' \subseteq Claims
    BY <2>3, EndType DEF Inv, DeadlinePasses
  <2>4. QED
    BY <2>1, <2>2, <2>3 DEF ChangeAuthorization, ChangeLocal, PruneOwner, vars, ReservationLapses
<1>4. /\ auth.rev \in 1 .. MaxRevision /\ auth' \in [rev : 1 .. MaxRevision, ok : BOOLEAN]
      /\ auth' = auth \/ auth'.rev = auth.rev + 1
  <2>1. auth \in [rev : 1 .. MaxRevision, ok : BOOLEAN]
    BY DEF Inv, Typed
  <2>2. CASE ChangeAuthorization
    <3>1. PICK ok \in BOOLEAN : auth' = [rev |-> auth.rev + 1, ok |-> ok]
      BY <2>2 DEF ChangeAuthorization
    <3>2. auth.rev + 1 \in 1 .. MaxRevision
      BY <2>1, <2>2, DispatchAssumption DEF ChangeAuthorization
    <3>3. QED BY <2>1, <3>1, <3>2
  <2>3. CASE UNCHANGED auth
    BY <2>1, <2>3
  <2>4. QED
    BY <2>2, <2>3 DEF ChangeLocal, Revoke, PruneOwner, vars, DeadlinePasses, ReservationLapses
<1>5. local' \in 0 .. MaxLocal /\ live' \in {"armed", "disarmed", "disabled"}
  <2>1. CASE ChangeLocal
    BY <2>1, DispatchAssumption DEF Inv, Typed, ChangeLocal
  <2>2. CASE UNCHANGED <<local, live>>
    BY <2>2 DEF Inv, Typed
  <2>3. QED
    BY <2>1, <2>2 DEF ChangeAuthorization, Revoke, PruneOwner, vars, DeadlinePasses, ReservationLapses
<1>6. Typed'
  BY <1>1, <1>2, <1>3, <1>4, <1>5 DEF Inv, Typed, KeysStay
<1>7. \A c \in Callers : caller[c].at # "idle" =>
          caller[c].claims.rev \in Nat /\ caller[c].claims.rev <= auth.rev
  BY DEF Inv, UnderWay, Claims
<1>8. UnderWay'
  BY <1>1, <1>4, <1>7, DispatchAssumption DEF Inv, UnderWay
<1>9. OneCarrier'
  BY <1>1, <1>2 DEF Inv, OneCarrier, Carries, KeysStay
<1>10. InForceBefore'
  <2>1. \A c \in Callers : caller[c].at = "confirm" /\ Current(c)' => Current(c)
    BY <1>1, <1>4, <1>7, DispatchAssumption DEF Current
  <2>2. QED BY <1>1, <2>1 DEF Inv, InForceBefore
<1>11. Headroom'
  BY <1>2, HeadroomStays DEF Inv
<1>12. QED BY <1>6, <1>8, <1>9, <1>10, <1>11 DEF Inv

LEMMA Crashed == Inv /\ Crash => Inv'
<1> SUFFICES ASSUME Inv, Crash PROVE Inv'
  OBVIOUS
<1>1. \A c \in Callers : caller'[c].at = "idle"
  BY IdleType DEF Crash
<1>2. Typed'
  BY IdleType DEF Crash, Inv, Typed
<1>3. UnderWay' /\ InForceBefore'
  BY <1>1 DEF UnderWay, InForceBefore
<1>4. OneCarrier'
  BY <1>1 DEF Crash, Inv, OneCarrier, Carries, Past
<1>5. Headroom'
  BY LedgerStays, HeadroomStays DEF Crash, Inv
<1>6. QED BY <1>2, <1>3, <1>4, <1>5 DEF Inv

(* A call that goes on without a reservation and without a dispatch.        *)
LEMMA CallGoesOn ==
  ASSUME Inv, NEW c \in Callers, NEW at \in Stages \ {"idle", "confirm"}, Goes(c, at),
         caller[c].at # "idle",
         UNCHANGED <<auth, local, live, sent, active, tombs, ledger>>,
         at \in Past /\ caller[c].claims.intent \in Mutations => caller[c].at \in Past,
         at \in {"reserve", "recheck", "settle"} => caller[c].claims.intent \in Mutations,
         at = "dispatch" /\ caller[c].claims.intent \in Mutations => caller[c].inForce
  PROVE  Inv'
<1>1. /\ caller' \in [Callers -> Calls]
      /\ caller'[c].at = at /\ caller'[c].claims = caller[c].claims
      /\ caller'[c].inForce = caller[c].inForce
      /\ \A d \in Callers \ {c} : caller'[d] = caller[d]
  BY GoesOn DEF Inv
<1>2. KeysStay /\ active' \subseteq Permits /\ tombs' \subseteq Claims
  BY LedgerStays DEF Inv, Typed
<1>3. /\ caller[c].claims \in Claims /\ caller[c].claims.rev <= auth.rev
  BY DEF Inv, UnderWay
<1>4. QED BY <1>1, <1>2, <1>3, CallMoves

LEMMA Loads == ASSUME Inv, NEW c \in Callers, NEW i \in Intents, Load(c, i) PROVE Inv'
<1> DEFINE claims == [intent |-> i, rev |-> auth.rev, local |-> 0]
           call == [at |-> "loaded", claims |-> claims, inForce |-> FALSE]
<1>1. auth.rev \in 1 .. MaxRevision
  BY DEF Inv, Typed
<1>2. claims \in Claims /\ claims.rev = auth.rev
  BY <1>1, DispatchAssumption DEF Claims
<1>3. caller' = [caller EXCEPT ![c] = call]
  BY DEF Load
<1>4. call \in Calls /\ call.at = "loaded" /\ call.claims = claims
  BY <1>2 DEF Calls, Stages
<1> HIDE DEF call, claims
<1>5. /\ caller' \in [Callers -> Calls] /\ caller'[c] = call
      /\ \A d \in Callers \ {c} : caller'[d] = caller[d]
  BY <1>3, <1>4 DEF Inv, Typed
<1>6. /\ KeysStay /\ active' \subseteq Permits /\ tombs' \subseteq Claims
      /\ UNCHANGED <<auth, local, live, sent>>
  BY LedgerStays DEF Load, Inv, Typed
<1>7. claims.rev <= auth.rev
  BY <1>1, <1>2
<1>8. QED BY <1>2, <1>4, <1>5, <1>6, <1>7, CallMoves DEF Past

LEMMA Issues == ASSUME Inv, NEW c \in Callers, Issue(c) PROVE Inv'
<1> DEFINE claims == [caller[c].claims EXCEPT !.local = local]
           at == IF claims.intent \in Reads THEN "ready" ELSE "reserve"
           call == [at |-> at, claims |-> claims, inForce |-> FALSE]
<1>1. /\ caller[c].at = "loaded" /\ UNCHANGED <<auth, local, live, tombs, ledger, sent>>
      /\ \/ /\ active' = active \union {[claims |-> claims, by |-> c]}
            /\ caller' = [caller EXCEPT ![c] = [at |-> at, claims |-> claims, inForce |-> FALSE]]
         \/ Stops(c) /\ UNCHANGED active
  BY DEF Issue
<1>2. KeysStay
  BY <1>1, LedgerStays DEF Inv
<1>3. CASE Stops(c) /\ UNCHANGED active
  BY <1>1, <1>2, <1>3, CallFails
<1>4. CASE /\ active' = active \union {[claims |-> claims, by |-> c]}
           /\ caller' = [caller EXCEPT ![c] = [at |-> at, claims |-> claims, inForce |-> FALSE]]
  <2>1. /\ caller[c].claims \in Claims /\ caller[c].claims.rev <= auth.rev
        /\ local \in 0 .. MaxLocal
    BY <1>1 DEF Inv, UnderWay, Typed
  <2>2. claims \in Claims /\ claims.rev = caller[c].claims.rev
    BY <2>1 DEF Claims
  <2>3. caller' = [caller EXCEPT ![c] = call]
    BY <1>4
  <2>4. /\ at \in {"ready", "reserve"} /\ claims.intent \in Intents
        /\ at = "ready" => claims.intent \notin Mutations
        /\ at = "reserve" => claims.intent \in Mutations
    BY <2>2, DispatchAssumption DEF Claims, Intents
  <2> HIDE DEF claims, at
  <2>5. call \in Calls /\ call.at = at /\ call.claims = claims
    BY <2>2, <2>4 DEF Calls, Stages
  <2> HIDE DEF call
  <2>6. /\ caller' \in [Callers -> Calls] /\ caller'[c] = call
        /\ \A d \in Callers \ {c} : caller'[d] = caller[d]
    BY <2>3, <2>5 DEF Inv, Typed
  <2>7. active' \subseteq Permits /\ tombs' \subseteq Claims
    BY <1>1, <1>4, <2>2 DEF Inv, Typed, Permits
  <2>8. QED BY <1>1, <1>2, <2>1, <2>2, <2>4, <2>5, <2>6, <2>7, CallMoves DEF Past
<1>5. QED BY <1>1, <1>3, <1>4

(* The reservation: the only step that makes a call carry an intent, which  *)
(* nobody carries yet as its key was not there.                             *)
LEMMA Reserves == ASSUME Inv, NEW c \in Callers, Reserve(c) PROVE Inv'
<1> DEFINE i == caller[c].claims.intent
<1>1. /\ caller[c].at = "reserve" /\ UNCHANGED <<auth, local, live, sent>>
      /\ i \in Mutations /\ Typed /\ caller[c].claims \in Claims /\ caller[c].claims.rev <= auth.rev
  BY DEF Reserve, Inv, UnderWay
<1>2. PICK E \in SUBSET Lapsed, G \in SUBSET Ended :
        \/ Known(i) /\ ledger' = Pruned(ledger, E, G) /\ Fail(c)
        \/ /\ ~Known(i) /\ MayReserve(Pruned(ledger, E, G), i)
           /\ ledger' = [Pruned(ledger, E, G) EXCEPT ![i] = "reserved"]
           /\ \/ Goes(c, "recheck") /\ UNCHANGED <<active, tombs>>
              \/ Fail(c)
  BY DEF Reserve
<1> DEFINE rows == Pruned(ledger, E, G)
<1>3. /\ rows \in [Mutations -> KeyStates]
      /\ \A j \in Mutations : /\ rows[j] = "none" <=> ledger[j] = "none"
                              /\ rows[j] = "reserved" => ledger[j] = "reserved"
  BY <1>1, PrunedKeys
<1> HIDE DEF rows, i
<1>4. CASE ledger' = rows /\ Fail(c)
  <2>1. KeysStay
    BY <1>3, <1>4 DEF KeysStay
  <2>2. QED BY <1>1, <1>4, <2>1, CallFails
<1>5. CASE /\ ledger[i] = "none" /\ MayReserve(rows, i)
           /\ ledger' = [rows EXCEPT ![i] = "reserved"]
           /\ (Goes(c, "recheck") /\ UNCHANGED <<active, tombs>>) \/ Fail(c)
  <2>1. /\ caller' \in [Callers -> Calls]
        /\ \A d \in Callers \ {c} : caller'[d] = caller[d]
        /\ \/ caller'[c].at = "idle"
           \/ caller'[c].at = "recheck" /\ caller'[c].claims = caller[c].claims
        /\ active' \subseteq Permits /\ tombs' \subseteq Claims
    <3>1. CASE Fail(c)
      BY <1>1, <3>1, FailType
    <3>2. CASE Goes(c, "recheck") /\ UNCHANGED <<active, tombs>>
      <4>1. "recheck" \in Stages
        BY DEF Stages
      <4>2. QED BY <1>1, <3>2, <4>1, GoesOn DEF Typed
    <3>3. QED BY <1>5, <3>1, <3>2
  <2>2. /\ ledger' \in [Mutations -> KeyStates]
        /\ \A j \in Mutations : ledger'[j] = "none" <=> j # i /\ ledger[j] = "none"
    BY <1>1, <1>3, <1>5 DEF KeyStates
  <2>3. Typed'
    BY <1>1, <2>1, <2>2 DEF Typed
  <2>4. UnderWay'
    BY <1>1, <2>1 DEF Inv, UnderWay, i
  <2>5. InForceBefore'
    BY <1>1, <2>1 DEF Inv, InForceBefore, Current
  <2>6. OneCarrier'
    <3>1. \A d \in Callers, j \in Mutations : Carries(d, j)' => Carries(d, j) \/ (d = c /\ j = i)
      BY <2>1 DEF Carries, Past, i
    <3>2. \A d \in Callers : ~Carries(d, i)
      BY <1>1, <1>5 DEF Inv, OneCarrier
    <3>3. \A j \in Mutations : ledger'[j] = "none" => ledger[j] = "none"
      BY <2>2
    <3>4. sent[i] = 0 /\ ledger'[i] # "none"
      BY <1>1, <1>5, <2>2 DEF Inv, OneCarrier
    <3>5. ASSUME NEW j \in Mutations
          PROVE  /\ \A d, e \in Callers : Carries(d, j)' /\ Carries(e, j)' => d = e
                 /\ \A d \in Callers : Carries(d, j)' => ledger'[j] # "none" /\ sent'[j] = 0
                 /\ ledger'[j] = "none" => sent'[j] = 0
                 /\ sent'[j] <= 1
      <4>1. CASE j = i
        BY <1>1, <3>1, <3>2, <3>4, <4>1
      <4>2. CASE j # i
        BY <1>1, <2>2, <3>1, <4>2 DEF Inv, OneCarrier
      <4>3. QED BY <4>1, <4>2
    <3>6. QED BY <3>5 DEF OneCarrier
  <2>7. Headroom'
    BY <1>1, <1>3, <1>5, HeadroomKept DEF Inv
  <2>8. QED BY <2>3, <2>4, <2>5, <2>6, <2>7 DEF Inv
<1>6. QED BY <1>2, <1>4, <1>5 DEF Known, rows

LEMMA Settles == ASSUME Inv, NEW c \in Callers, Settle(c) PROVE Inv'
<1> DEFINE i == caller[c].claims.intent
<1>1. /\ caller[c].at = "settle" /\ UNCHANGED <<auth, local, live, sent>>
      /\ i \in Mutations /\ Typed /\ caller[c].claims \in Claims /\ caller[c].claims.rev <= auth.rev
  BY DEF Settle, Inv, UnderWay
<1>2. ledger[i] # "none"
  BY <1>1 DEF Inv, OneCarrier, Carries, Past
<1>3. CASE ledger[i] \notin {"reserved", "late"} /\ Fail(c) /\ UNCHANGED ledger
  BY <1>1, <1>3, LedgerStays, CallFails
<1>4. CASE ledger[i] = "late" /\ ledger' = [ledger EXCEPT ![i] = "expired"] /\ Fail(c)
  <2>1. KeysStay
    BY <1>1, <1>4 DEF KeysStay, Typed, KeyStates
  <2>2. QED BY <1>1, <1>4, <2>1, CallFails
<1>5. ASSUME ledger[i] = "reserved",
             NEW E \in SUBSET Lapsed, NEW G \in SUBSET (Ended \union {i}),
             ledger' = Pruned([ledger EXCEPT ![i] = "consumed"], E, G),
             \/ /\ caller' = [caller EXCEPT ![c].at = "confirm", ![c].inForce = Current(c)]
                /\ UNCHANGED <<active, tombs>>
             \/ Fail(c)
      PROVE  Inv'
  <2>1. KeysStay
    BY <1>1, <1>5 DEF KeysStay, Typed, KeyStates, Pruned, Lapsed, Ended
  <2>2. CASE Fail(c)
    BY <1>1, <2>1, <2>2, CallFails
  <2>3. CASE /\ caller' = [caller EXCEPT ![c].at = "confirm", ![c].inForce = Current(c)]
             /\ UNCHANGED <<active, tombs>>
    <3> DEFINE ahead == [caller[c] EXCEPT !.at = "confirm"]
               call == [ahead EXCEPT !.inForce = Current(c)]
    <3>1. caller' = [caller EXCEPT ![c] = call]
      BY <2>3
    <3>2. ahead \in Calls /\ ahead.at = "confirm" /\ ahead.claims = caller[c].claims
      BY <1>1 DEF Typed, Calls, Stages
    <3>3. Current(c) \in BOOLEAN
      BY <1>1, Zenon DEF Current, Typed
    <3> HIDE DEF ahead
    <3>4. /\ call \in Calls /\ call.at = "confirm" /\ call.claims = caller[c].claims
          /\ call.inForce = Current(c)
      BY <3>2, <3>3 DEF Calls
    <3> HIDE DEF call
    <3>5. /\ caller' \in [Callers -> Calls] /\ caller'[c] = call
          /\ \A d \in Callers \ {c} : caller'[d] = caller[d]
      BY <1>1, <3>1, <3>4 DEF Typed
    <3>6. Current(c)' => caller'[c].inForce
      BY <1>1, <3>4, <3>5 DEF Current
    <3>7. /\ active' \subseteq Permits /\ tombs' \subseteq Claims
      BY <1>1, <2>3 DEF Typed
    <3>8. QED BY <1>1, <2>1, <3>4, <3>5, <3>6, <3>7, CallMoves DEF Past
  <2>4. QED BY <1>5, <2>2, <2>3
<1>6. QED BY <1>3, <1>4, <1>5 DEF Settle

LEMMA Confirms == ASSUME Inv, NEW c \in Callers, Confirm(c) PROVE Inv'
<1>1. /\ caller[c].at = "confirm" /\ UNCHANGED <<auth, local, live, ledger, sent>>
      /\ \/ Current(c) /\ Goes(c, "dispatch") /\ UNCHANGED <<active, tombs>>
         \/ RevokesOperation(c)
  BY DEF Confirm, StillCurrent
<1>2. CASE RevokesOperation(c)
  BY <1>1, <1>2, LedgerStays, CallFails DEF Inv
<1>3. CASE Current(c) /\ Goes(c, "dispatch") /\ UNCHANGED <<active, tombs>>
  <2>1. caller[c].inForce
    BY <1>1, <1>3 DEF Inv, InForceBefore
  <2>2. "dispatch" \in Stages \ {"idle", "confirm"}
    BY DEF Stages
  <2>3. QED BY <1>1, <1>3, <2>1, <2>2, CallGoesOn DEF Past
<1>4. QED BY <1>1, <1>2, <1>3

(* Stages that only read, or end.                                           *)
LEMMA ReadsOrEnds ==
  ASSUME Inv, NEW c \in Callers,
         Recheck(c) \/ Handoff(c) \/ HandoffRefused(c) \/ Abandon(c) \/ Begin(c) \/ StatementFails(c)
  PROVE  Inv'
<1>1. /\ UNCHANGED <<auth, local, live, ledger, sent>> /\ caller[c].at # "idle" /\ KeysStay
  BY LedgerStays DEF Recheck, Handoff, HandoffRefused, Abandon, Begin, StatementFails, Inv
<1>2. CASE Fail(c) \/ RevokesOperation(c) \/ (Stops(c) /\ UNCHANGED <<active, tombs>>)
  BY <1>1, <1>2, CallFails
<1>3. CASE /\ caller[c].at \in {"recheck", "ready"} /\ UNCHANGED <<active, tombs>>
           /\ Goes(c, "ready") \/ Goes(c, "handed")
  <2>1. {"ready", "handed"} \subseteq Stages \ {"idle", "confirm"}
    BY DEF Stages
  <2>2. QED BY <1>1, <1>3, <2>1, CallGoesOn DEF Past
<1>4. CASE /\ caller[c].at = "handed" /\ UNCHANGED <<active, tombs>>
           /\ Goes(c, IF caller[c].claims.intent \in Reads THEN "dispatch" ELSE "settle")
  <2> DEFINE at == IF caller[c].claims.intent \in Reads THEN "dispatch" ELSE "settle"
  <2>1. caller[c].claims \in Claims
    BY <1>4 DEF Inv, UnderWay
  <2>2. /\ at \in Stages \ {"idle", "confirm"}
        /\ at \in {"reserve", "recheck", "settle"} => caller[c].claims.intent \in Mutations
        /\ at = "dispatch" => caller[c].claims.intent \notin Mutations
    BY <2>1, DispatchAssumption DEF Stages, Claims, Intents
  <2>3. caller[c].at \in Past
    BY <1>4 DEF Past
  <2> HIDE DEF at
  <2>4. QED BY <1>1, <1>4, <2>2, <2>3, CallGoesOn DEF at
<1>5. CASE HandoffRefused(c) \/ Abandon(c) \/ StatementFails(c)
  BY <1>2, <1>5 DEF HandoffRefused, Abandon, StatementFails
<1>6. CASE Recheck(c) \/ Handoff(c)
  BY <1>2, <1>3, <1>6 DEF Recheck, Handoff
<1>7. CASE Begin(c)
  BY <1>2, <1>4, <1>7 DEF Begin
<1>8. QED BY <1>5, <1>6, <1>7

(* The dispatch: the call that carries the intent is at its end.            *)
LEMMA Dispatches == ASSUME Inv, NEW c \in Callers, Dispatch(c) PROVE Inv'
<1> DEFINE i == caller[c].claims.intent
<1>1. /\ caller[c].at = "dispatch" /\ Fail(c) /\ UNCHANGED <<auth, local, live, ledger>>
      /\ Typed
  BY DEF Dispatch, Inv
<1>2. CASE UNCHANGED sent
  BY <1>1, <1>2, LedgerStays, CallFails
<1>3. CASE sent' = [j \in Mutations |-> IF j = i THEN sent[j] + 1 ELSE sent[j]]
  <2>1. /\ active' \subseteq Permits /\ tombs' \subseteq Claims
        /\ caller' \in [Callers -> Calls] /\ caller'[c].at = "idle"
        /\ \A d \in Callers \ {c} : caller'[d] = caller[d]
    BY <1>1, FailType
  <2>2. Typed'
    BY <1>1, <1>3, <2>1 DEF Typed
  <2>3. UnderWay' /\ InForceBefore'
    BY <1>1, <2>1 DEF Inv, UnderWay, InForceBefore, Current
  <2>4. OneCarrier'
    <3>1. /\ \A d \in Callers, j \in Mutations : Carries(d, j)' => Carries(d, j) /\ d # c
          /\ Carries(c, i)
      BY <1>1, <2>1 DEF Carries, Past
    <3>2. ASSUME NEW j \in Mutations
          PROVE  /\ \A d, e \in Callers : Carries(d, j)' /\ Carries(e, j)' => d = e
                 /\ \A d \in Callers : Carries(d, j)' => ledger'[j] # "none" /\ sent'[j] = 0
                 /\ ledger'[j] = "none" => sent'[j] = 0
                 /\ sent'[j] <= 1
      <4>1. CASE j = i
        <5>1. /\ sent[j] = 0 /\ ledger[j] # "none" /\ \A d \in Callers : ~Carries(d, j)'
          BY <3>1, <4>1 DEF Inv, OneCarrier
        <5>2. sent'[j] = 1
          BY <1>3, <4>1, <5>1
        <5>3. QED BY <1>1, <5>1, <5>2
      <4>2. CASE j # i
        <5>1. sent'[j] = sent[j] /\ ledger'[j] = ledger[j]
          BY <1>1, <1>3, <4>2
        <5>2. QED BY <3>1, <5>1 DEF Inv, OneCarrier
      <4>3. QED BY <4>1, <4>2
    <3>3. QED BY <3>2 DEF OneCarrier
  <2>5. Headroom'
    BY <1>1, LedgerStays, HeadroomStays DEF Inv
  <2>6. QED BY <2>2, <2>3, <2>4, <2>5 DEF Inv
<1>4. QED BY <1>2, <1>3 DEF Dispatch

LEMMA Inductive == Inv /\ [Next]_vars => Inv'
  BY AroundTheCalls, Crashed, Loads, Issues, Reserves, Settles, Confirms, ReadsOrEnds, Dispatches DEF Next

LEMMA Invariant == Spec => []Inv
  BY Initially, Inductive, PTL DEF Spec

-----------------------------------------------------------------------------
(* Every variable keeps its type, and no order, and no reconciliation, uses *)
(* what the ledger keeps free for others, however many calls there are.     *)
THEOREM TypeCorrect == Spec => []DispatchTypeOK
<1>1. Inv => DispatchTypeOK
  BY DEF Inv, Typed, Headroom, DispatchTypeOK, Calls, Permits, KeyStates
<1>2. QED BY <1>1, Invariant, PTL

(* A signed mutation reaches the network at most once, for any number of    *)
(* calls, restarts, evictions and deletions.                                *)
THEOREM NeverTwice == Spec => []DispatchedOnce
<1>1. Inv => DispatchedOnce
  BY DEF Inv, OneCarrier, DispatchedOnce
<1>2. QED BY <1>1, Invariant, PTL

LEMMA FreshStep ==
  ASSUME Inv, [Next]_vars, NEW i \in Mutations, sent'[i] # sent[i]
  PROVE  /\ \E c \in Callers : /\ caller[c].claims.intent = i /\ caller[c].claims.local = local
                               /\ caller'[c].at = "idle" /\ caller[c].inForce
         /\ i \in Orders => live # "disabled"
         /\ i \in Orders \ Reducing => live = "armed"
<1>1. PICK c \in Callers : Dispatch(c)
  BY DEF Next, vars, ChangeAuthorization, ChangeLocal, Revoke, PruneOwner, Crash, DeadlinePasses,
     ReservationLapses, Load, Issue, Reserve, StatementFails, Recheck, Handoff, HandoffRefused,
     Abandon, Begin, Settle, Confirm
<1>2. /\ caller[c].at = "dispatch" /\ Fail(c) /\ caller[c].claims.intent = i
      /\ \E p \in Own(c) : Usable(p)
  BY <1>1 DEF Dispatch, Inv, Typed
<1>3. /\ caller[c].claims.local = local
      /\ i \in Orders => live # "disabled"
      /\ i \in Orders \ Reducing => live = "armed"
  BY <1>2 DEF Own, Usable, Allowed
<1>4. caller'[c].at = "idle"
  BY <1>2, FailType DEF Inv
<1>5. caller[c].inForce
  BY <1>2 DEF Inv, InForceBefore
<1>6. QED BY <1>2, <1>3, <1>4, <1>5

(* No request after a change the authority could have seen.                 *)
THEOREM NeverStale == Spec => NoStaleDispatch
<1>1. Inv /\ [Next]_vars =>
        [\A i \in Mutations : sent'[i] # sent[i] =>
           /\ \E c \in Callers : /\ caller[c].claims.intent = i /\ caller[c].claims.local = local
                                 /\ caller'[c].at = "idle" /\ caller[c].inForce
           /\ i \in Orders => live # "disabled"
           /\ i \in Orders \ Reducing => live = "armed"]_vars
  BY FreshStep
<1>2. QED BY <1>1, Invariant, PTL DEF Spec, NoStaleDispatch
=============================================================================
