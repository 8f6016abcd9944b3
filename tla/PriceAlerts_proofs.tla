---------------------------- MODULE PriceAlerts_proofs ----------------------------
(***************************************************************************)
(* Theorems about PriceAlerts, for any rules, owners, definitions, lanes   *)
(* and bounds: its tables stay well typed, an owner has one lease, and the *)
(* system implements CrossingAlerts.                                       *)
(***************************************************************************)
EXTENDS PriceAlerts, FiniteSetTheorems, SequenceTheorems, TLAPS

(* The invariant.                                                          *)
Entry == [def : Definitions, from : Bars, seen : Seq(Receipt), told : SUBSET Bars]
RuleRow == [status : {"none", "active", "disabled", "archived"}, auth : 0 .. MaxChanges,
            lease : Lanes \cup {None, Nobody}, live : BOOLEAN]
Claim == [at : {"idle", "claiming", "held"}, rule : Rules \cup {None}, rev : Nat,
          auth : 0 .. MaxChanges, row : Row \cup {None}]

Typed ==
    /\ rule \in [Rules -> RuleRow]
    /\ book \in [Rules -> Seq(Entry)]
    /\ state \in [Rules -> [Scopes -> Row \cup {None}]]
    /\ line \in Seq(Rules)
    /\ lane \in [Lanes -> Claim]
    /\ owner \in [Owners -> [auth : 0 .. MaxChanges, usable : BOOLEAN]]
    /\ clock \in Bars /\ changes \in 0 .. MaxChanges

\* Every change of an authorization is counted.
Counted == \A o \in Owners : owner[o].auth <= changes

\* A lane that has a claim has it on a rule.
Claiming == \A l \in Lanes : lane[l].at # "idle" => lane[l].rule \in Rules

\* The line holds active rules, each once.
Queued == IsInjective(line) /\ \A r \in ToSet(line) : rule[r].status = "active"

\* A lease is on an active rule, and no other rule of its owner has one.
Leases ==
    /\ \A r \in Rules : Leased(r) => rule[r].status = "active"
    /\ \A r, x \in Rules : Leased(r) /\ Leased(x) /\ OwnerOf[r] = OwnerOf[x] => r = x

\* A state row belongs to a revision that was made.
NotAhead ==
    \A r \in Rules, s \in Scopes : state[r][s] # None => state[r][s].rev <= Rev(r)

(* The state in force says what the revision in force has seen: its cursor  *)
(* is the last bar, its eligibility what that bar met, and it has triggered *)
(* just when the owner was told.                                            *)
Follows(r) ==
    LET now == book[r][Rev(r)]
        st  == StateInForce(state[r][Scope(r)], Rev(r))
        n   == Len(now.seen)
    IN  /\ n = 0 => st = Fresh
        /\ n # 0 => /\ st.cursor \in Bars /\ st.cursor = now.from + n - 1
                    /\ st.eligible = now.seen[n].met
        /\ st.triggered <=> now.told # {}

Kept == \A r \in Rules : rule[r].status # "none" => book[r] # <<>>

Journalled == \A r \in Rules : book[r] # <<>> => Follows(r)

Inv == Typed /\ Counted /\ Claiming /\ Queued /\ Leases /\ NotAhead /\ Kept /\ Journalled

-----------------------------------------------------------------------------
\* The line without r: what was there before, in its order, but r.
LEMMA WithoutRule ==
    ASSUME line \in Seq(Rules), IsInjective(line), NEW r \in Rules
    PROVE  /\ Without(r) \in Seq(Rules) /\ IsInjective(Without(r))
           /\ ToSet(Without(r)) = ToSet(line) \ {r}
<1>1. CASE r \notin ToSet(line)
    BY <1>1 DEF Without
<1>2. CASE r \in ToSet(line)
    <2> DEFINE i == CHOOSE j \in DOMAIN line : line[j] = r
               a == SubSeq(line, 1, i - 1)
               b == SubSeq(line, i + 1, Len(line))
    <2>1. i \in DOMAIN line /\ line[i] = r
        BY <1>2 DEF ToSet
    <2>2. i \in 1 .. Len(line) /\ Len(line) \in Nat /\ DOMAIN line = 1 .. Len(line)
        BY <2>1, LenProperties
    <2>3. Without(r) = a \o b
        BY <1>2 DEF Without, RemoveAt
    <2> HIDE DEF i
    <2>4. /\ a \in Seq(Rules) /\ Len(a) = i - 1
          /\ \A j \in 1 .. i - 1 : a[j] = line[j]
        <3>1. \A j \in 1 .. i - 1 : line[j] \in Rules
            BY <2>2
        <3>2. /\ a \in Seq(Rules) /\ Len(a) = IF 1 <= i - 1 THEN i - 1 - 1 + 1 ELSE 0
              /\ \A j \in 1 .. i - 1 - 1 + 1 : a[j] = line[1 + j - 1]
            BY <2>2, <3>1, SubSeqProperties
        <3> QED BY <2>2, <3>2
    <2>5. /\ b \in Seq(Rules) /\ Len(b) = Len(line) - i
          /\ \A j \in 1 .. Len(line) - i : b[j] = line[j + i]
        <3>1. \A j \in i + 1 .. Len(line) : line[j] \in Rules
            BY <2>2
        <3>2. /\ b \in Seq(Rules)
              /\ Len(b) = IF i + 1 <= Len(line) THEN Len(line) - (i + 1) + 1 ELSE 0
              /\ \A j \in 1 .. Len(line) - (i + 1) + 1 : b[j] = line[i + 1 + j - 1]
            BY <2>2, <3>1, SubSeqProperties
        <3>3. ASSUME NEW j \in 1 .. Len(line) - i PROVE b[j] = line[j + i]
            <4>1. j \in 1 .. Len(line) - (i + 1) + 1 /\ i + 1 + j - 1 = j + i
                BY <2>2
            <4> QED BY <3>2, <4>1
        <3>4. Len(b) = Len(line) - i
            <4> HIDE DEF b
            <4>1. Len(b) = IF i + 1 <= Len(line) THEN Len(line) - (i + 1) + 1 ELSE 0
                BY <3>2
            <4>2. i \in Nat /\ Len(line) \in Nat /\ i <= Len(line)
                BY <2>2
            <4> QED BY <4>1, <4>2
        <3> QED BY <3>2, <3>3, <3>4
    <2> HIDE DEF a, b
    <2>6. /\ a \o b \in Seq(Rules) /\ Len(a \o b) = Len(line) - 1
          /\ \A j \in 1 .. Len(line) - 1 : (a \o b)[j] = IF j < i THEN line[j] ELSE line[j + 1]
        <3>1. /\ a \o b \in Seq(Rules) /\ Len(a \o b) = Len(a) + Len(b)
              /\ \A j \in 1 .. Len(a) + Len(b) :
                    (a \o b)[j] = IF j <= Len(a) THEN a[j] ELSE b[j - Len(a)]
            BY <2>4, <2>5, ConcatProperties
        <3>2. Len(a) + Len(b) = Len(line) - 1
            BY <2>2, <2>4, <2>5
        <3>3. ASSUME NEW j \in 1 .. Len(line) - 1, j < i PROVE (a \o b)[j] = line[j]
            <4>1. j <= Len(a) /\ j \in 1 .. i - 1
                BY <2>2, <2>4, <3>3
            <4> QED BY <2>4, <3>1, <3>2, <4>1
        <3>4. ASSUME NEW j \in 1 .. Len(line) - 1, ~(j < i) PROVE (a \o b)[j] = line[j + 1]
            <4>1. /\ ~(j <= Len(a)) /\ j - Len(a) \in 1 .. Len(line) - i
                  /\ j - Len(a) + i = j + 1
                BY <2>2, <2>4, <3>4
            <4> QED BY <2>5, <3>1, <3>2, <4>1
        <3> QED BY <3>1, <3>2, <3>3, <3>4
    <2> DEFINE c == a \o b
    <2>7. DOMAIN c = 1 .. Len(line) - 1 /\ c \in Seq(Rules)
        BY <2>2, <2>6, LenProperties
    <2>8. \A j \in 1 .. Len(line) - 1 : c[j] = IF j < i THEN line[j] ELSE line[j + 1]
        BY <2>6
    <2> HIDE DEF c
    <2>9. IsInjective(c)
        <3> SUFFICES ASSUME NEW j \in 1 .. Len(line) - 1, NEW k \in 1 .. Len(line) - 1,
                            c[j] = c[k]
                     PROVE  j = k
            BY <2>7 DEF IsInjective
        <3> DEFINE from(x) == IF x < i THEN x ELSE x + 1
        <3>1. c[j] = line[from(j)] /\ c[k] = line[from(k)]
            BY <2>8
        <3>2. from(j) \in DOMAIN line /\ from(k) \in DOMAIN line
            BY <2>2
        <3>3. from(j) = from(k)
            <4> HIDE DEF from
            <4> QED BY <3>1, <3>2 DEF IsInjective
        <3> QED BY <2>2, <3>3
    <2>10. ToSet(c) = ToSet(line) \ {r}
        <3>1. ASSUME NEW j \in 1 .. Len(line), j # i PROVE line[j] \in ToSet(c)
            <4>1. CASE j < i
                BY <2>2, <2>7, <2>8, <4>1 DEF ToSet
            <4>2. CASE j > i
                <5>1. j - 1 \in 1 .. Len(line) - 1 /\ ~(j - 1 < i)
                    BY <2>2, <4>2
                <5>2. c[j - 1] = line[j]
                    BY <2>2, <2>8, <5>1
                <5> QED BY <2>7, <5>1, <5>2 DEF ToSet
            <4> QED BY <2>2, <3>1, <4>1, <4>2
        <3>2. ASSUME NEW j \in 1 .. Len(line) - 1 PROVE c[j] \in ToSet(line) \ {r}
            <4>1. \A x \in DOMAIN line : line[x] = r => x = i
                BY <2>1 DEF IsInjective
            <4> QED BY <2>2, <2>8, <4>1 DEF ToSet
        <3> QED BY <2>1, <2>2, <2>7, <3>1, <3>2 DEF ToSet
    <2> QED BY <2>3, <2>7, <2>9, <2>10 DEF c
<1> QED BY <1>1, <1>2

LEMMA AppendRule ==
    ASSUME NEW s \in Seq(Rules), IsInjective(s), NEW r \in Rules, r \notin ToSet(s)
    PROVE  /\ Append(s, r) \in Seq(Rules) /\ IsInjective(Append(s, r))
           /\ ToSet(Append(s, r)) = ToSet(s) \cup {r}
<1>1. /\ Append(s, r) \in Seq(Rules) /\ Len(Append(s, r)) = Len(s) + 1
      /\ \A i \in 1 .. Len(s) : Append(s, r)[i] = s[i]
      /\ Append(s, r)[Len(s) + 1] = r
    BY AppendProperties
<1>2. /\ Len(s) \in Nat /\ DOMAIN s = 1 .. Len(s)
      /\ DOMAIN Append(s, r) = 1 .. Len(s) + 1
    BY <1>1, LenProperties
<1> DEFINE t == Append(s, r)
<1> HIDE DEF t
<1>3. IsInjective(t)
    BY <1>1, <1>2 DEF IsInjective, ToSet, t
<1>4. ToSet(t) = ToSet(s) \cup {r}
    BY <1>1, <1>2 DEF ToSet, t
<1> QED BY <1>1, <1>3, <1>4 DEF t

-----------------------------------------------------------------------------
(* Sums of what the steps do: leases go, and books and states stay.         *)
LEMMA LeasesGo ==
    ASSUME Leases,
           \A r \in Rules : Leased(r)' => Leased(r) /\ rule'[r].status = rule[r].status
    PROVE  Leases'
BY DEF Leases

LEMMA BooksStay ==
    ASSUME NotAhead, Journalled, UNCHANGED <<book, state>>
    PROVE  NotAhead' /\ Journalled'
BY DEF NotAhead, Journalled, Follows, Rev, Scope, Def

LEMMA InitStep == Init => Inv
<1> SUFFICES ASSUME Init PROVE Inv
    OBVIOUS
<1> USE AlertsAssumption DEF Init
<1>1. Typed
    <2>1. NoRule \in RuleRow /\ Idle \in Claim
        BY DEF NoRule, RuleRow, Idle, Claim
    <2>2. <<>> \in Seq(Entry) /\ <<>> \in Seq(Rules)
        BY EmptySeq
    <2> QED BY <2>1, <2>2 DEF Typed, Bars
<1>2. Counted /\ Claiming
    BY DEF Counted, Claiming, Idle
<1>3. Queued
    BY DEF Queued, IsInjective, ToSet
<1>4. Leases /\ NotAhead /\ Kept /\ Journalled
    BY DEF Leases, Leased, NotAhead, Kept, Journalled, NoRule
<1> QED BY <1>1, <1>2, <1>3, <1>4 DEF Inv

-----------------------------------------------------------------------------
\* Owners, time and leases.
LEMMA ResubmitStep ==
    ASSUME Inv, NEW r \in Rules, Resubmit(r)
    PROVE  Inv'
<1>1. /\ rule' = [rule EXCEPT ![r].auth = owner[OwnerOf[r]].auth]
      /\ UNCHANGED <<book, state, line, lane, owner, clock, changes>>
    BY DEF Resubmit
<1>2. owner[OwnerOf[r]].auth \in 0 .. MaxChanges
    BY AlertsAssumption DEF Inv, Typed
<1>3. rule \in [Rules -> RuleRow] /\ rule[r] \in RuleRow
    BY DEF Inv, Typed
<1>4. [rule[r] EXCEPT !.auth = owner[OwnerOf[r]].auth] \in RuleRow
    BY <1>2, <1>3 DEF RuleRow
<1>5. /\ rule' \in [Rules -> RuleRow]
      /\ \A x \in Rules : rule'[x].status = rule[x].status /\ rule'[x].lease = rule[x].lease
    BY <1>1, <1>3, <1>4 DEF RuleRow
<1>6. Typed'
    BY <1>1, <1>5 DEF Inv, Typed
<1>7. Leases'
    BY <1>5, LeasesGo DEF Inv, Leased
<1>8. Queued' /\ Kept'
    <2>1. \A x \in ToSet(line) : x \in Rules
        BY DEF Inv, Typed, ToSet
    <2> QED BY <1>1, <1>5, <2>1 DEF Inv, Queued, Kept
<1> QED BY <1>1, <1>6, <1>7, <1>8, BooksStay DEF Inv, Counted, Claiming

LEMMA TransitionStep ==
    ASSUME Inv, NEW o \in Owners, Transition(o)
    PROVE  Inv'
<1>1. /\ changes < MaxChanges /\ changes' = changes + 1
      /\ UNCHANGED <<rule, book, state, line, lane, clock>>
    BY DEF Transition
<1>2. PICK u \in BOOLEAN : owner' = [owner EXCEPT ![o] = [auth |-> owner[o].auth + 1, usable |-> u]]
    BY DEF Transition
<1>3. owner[o].auth \in Nat /\ owner[o].auth <= changes /\ changes \in 0 .. MaxChanges
    BY DEF Inv, Typed, Counted
<1>4. changes' \in 0 .. MaxChanges /\ owner[o].auth + 1 \in 0 .. MaxChanges
    BY <1>1, <1>3, AlertsAssumption
<1>5. /\ owner' \in [Owners -> [auth : 0 .. MaxChanges, usable : BOOLEAN]]
      /\ owner'[o].auth = owner[o].auth + 1
      /\ \A p \in Owners : p # o => owner'[p] = owner[p]
    BY <1>2, <1>4 DEF Inv, Typed
<1>6. Typed'
    BY <1>1, <1>4, <1>5 DEF Inv, Typed
<1>7. Counted'
    <2>1. ASSUME NEW p \in Owners PROVE owner'[p].auth <= changes'
        <3>1. owner[p].auth \in Nat /\ owner[p].auth <= changes
            BY DEF Inv, Typed, Counted
        <3> QED BY <1>1, <1>3, <1>5, <3>1
    <2> QED BY <2>1 DEF Counted
<1>8. Leases'
    BY <1>1, LeasesGo DEF Inv, Leased
<1> QED BY <1>1, <1>6, <1>7, <1>8, BooksStay DEF Inv, Claiming, Queued, Kept

LEMMA BarClosesStep ==
    ASSUME Inv, BarCloses
    PROVE  Inv'
<1>1. /\ clock < MaxBar /\ clock' = clock + 1
      /\ UNCHANGED <<rule, book, state, line, lane, owner, changes>>
    BY DEF BarCloses
<1>2. clock' \in Bars
    BY <1>1, AlertsAssumption DEF Inv, Typed, Bars
<1>3. Typed'
    BY <1>1, <1>2 DEF Inv, Typed
<1>4. Leases'
    BY <1>1, LeasesGo DEF Inv, Leased
<1> QED BY <1>1, <1>3, <1>4, BooksStay DEF Inv, Counted, Claiming, Queued, Kept

LEMMA ComesDueStep ==
    ASSUME Inv, NEW r \in Rules, ComesDue(r)
    PROVE  Inv'
<1>1. /\ rule[r].status = "active" /\ r \notin ToSet(line) /\ line' = Append(line, r)
      /\ UNCHANGED <<rule, book, state, lane, owner, clock, changes>>
    BY DEF ComesDue
<1>2. /\ line' \in Seq(Rules) /\ IsInjective(line')
      /\ ToSet(line') = ToSet(line) \cup {r}
    BY <1>1, AppendRule DEF Inv, Typed, Queued
<1>3. Typed'
    BY <1>1, <1>2 DEF Inv, Typed
<1>4. Queued'
    BY <1>1, <1>2 DEF Inv, Queued
<1>5. Leases'
    BY <1>1, LeasesGo DEF Inv, Leased
<1> QED BY <1>1, <1>3, <1>4, <1>5, BooksStay DEF Inv, Counted, Claiming, Kept

LEMMA LeaseExpiresStep ==
    ASSUME Inv, NEW r \in Rules, LeaseExpires(r)
    PROVE  Inv'
<1>1. /\ rule' = [rule EXCEPT ![r].live = FALSE]
      /\ UNCHANGED <<book, state, line, lane, owner, clock, changes>>
    BY DEF LeaseExpires
<1>3. rule \in [Rules -> RuleRow] /\ rule[r] \in RuleRow
    BY DEF Inv, Typed
<1>4. [rule[r] EXCEPT !.live = FALSE] \in RuleRow
    BY <1>3 DEF RuleRow
<1>5. /\ rule' \in [Rules -> RuleRow]
      /\ \A x \in Rules : rule'[x].status = rule[x].status /\ rule'[x].lease = rule[x].lease
    BY <1>1, <1>3, <1>4 DEF RuleRow
<1>6. Typed'
    BY <1>1, <1>5 DEF Inv, Typed
<1>7. Leases'
    BY <1>5, LeasesGo DEF Inv, Leased
<1>8. Queued' /\ Kept'
    <2>1. \A x \in ToSet(line) : x \in Rules
        BY DEF Inv, Typed, ToSet
    <2> QED BY <1>1, <1>5, <2>1 DEF Inv, Queued, Kept
<1> QED BY <1>1, <1>6, <1>7, <1>8, BooksStay DEF Inv, Counted, Claiming

LEMMA RecoverStep ==
    ASSUME Inv, RecoverExpiredLeases
    PROVE  Inv'
<1>1. /\ rule' = [r \in Rules |-> IF Recoverable(r)
                    THEN [rule[r] EXCEPT !.lease = None] ELSE rule[r]]
      /\ UNCHANGED <<book, state, line, lane, owner, clock, changes>>
    BY DEF RecoverExpiredLeases
<1>2. ASSUME NEW x \in Rules
      PROVE  /\ rule'[x] \in RuleRow /\ rule'[x].status = rule[x].status
             /\ rule'[x].lease \in {rule[x].lease, None}
    <2>1. rule[x] \in RuleRow
        BY DEF Inv, Typed
    <2>2. /\ [rule[x] EXCEPT !.lease = None] \in RuleRow
          /\ [rule[x] EXCEPT !.lease = None].status = rule[x].status
          /\ [rule[x] EXCEPT !.lease = None].lease = None
        BY <2>1 DEF RuleRow
    <2> QED BY <1>1, <2>1, <2>2
<1>3. rule' \in [Rules -> RuleRow]
    BY <1>1, <1>2
<1>6. Typed'
    BY <1>1, <1>3 DEF Inv, Typed
<1>7. Leases'
    BY <1>2, LeasesGo DEF Inv, Leased
<1>8. Queued' /\ Kept'
    <2>1. \A x \in ToSet(line) : x \in Rules
        BY DEF Inv, Typed, ToSet
    <2> QED BY <1>1, <1>2, <2>1 DEF Inv, Queued, Kept
<1> QED BY <1>1, <1>6, <1>7, <1>8, BooksStay DEF Inv, Counted, Claiming

-----------------------------------------------------------------------------
\* The lanes.

(* A rule that is or was active has a revision in force.                    *)
LEMMA InForceEntry ==
    ASSUME Inv, NEW r \in Rules, rule[r].status # "none"
    PROVE  /\ book[r] \in Seq(Entry) /\ Rev(r) \in Nat \ {0} /\ Rev(r) \in 1 .. Len(book[r])
           /\ book[r][Rev(r)] \in Entry /\ Def(r) \in Definitions /\ Scope(r) \in Scopes
           /\ state[r][Scope(r)] \in Row \cup {None} /\ Follows(r)
<1>1. book[r] \in Seq(Entry) /\ book[r] # <<>>
    BY DEF Inv, Typed, Kept
<1>2. Rev(r) \in Nat \ {0} /\ Rev(r) \in 1 .. Len(book[r])
    BY <1>1, EmptySeq DEF Rev
<1>3. book[r][Rev(r)] \in Entry
    BY <1>1, <1>2, ElementOfSeq
<1>4. Def(r) \in Definitions /\ Scope(r) \in Scopes
    BY <1>3 DEF Def, Entry, Scope, Scopes
<1>5. state[r][Scope(r)] \in Row \cup {None} /\ Follows(r)
    BY <1>1, <1>4 DEF Inv, Typed, Journalled
<1> QED BY <1>1, <1>2, <1>3, <1>4, <1>5

LEMMA NoClaim == Idle \in Claim /\ Idle.at = "idle"
BY AlertsAssumption DEF Idle, Claim

LEMMA ClaimBeginsStep ==
    ASSUME Inv, NEW l \in Lanes, ClaimBegins(l)
    PROVE  Inv'
<1>1. UNCHANGED <<rule, book, state, line, owner, clock, changes>>
    BY DEF ClaimBegins
<1>2. PICK r \in Rules :
        /\ OwnerHead(r)
        /\ lane' = [lane EXCEPT ![l] = [at |-> "claiming", rule |-> r, rev |-> Rev(r),
               auth |-> owner[OwnerOf[r]].auth, row |-> state[r][Scope(r)]]]
    BY DEF ClaimBegins
<1> DEFINE claim == [at |-> "claiming", rule |-> r, rev |-> Rev(r),
                     auth |-> owner[OwnerOf[r]].auth, row |-> state[r][Scope(r)]]
<1>3. rule[r].status = "active"
    BY <1>2 DEF OwnerHead, Claimable
<1>4. claim \in Claim /\ claim.at = "claiming" /\ claim.rule = r
    <2>1. owner[OwnerOf[r]].auth \in 0 .. MaxChanges
        BY AlertsAssumption DEF Inv, Typed
    <2> QED BY <1>3, <2>1, InForceEntry DEF Claim
<1> HIDE DEF claim
<1>5. /\ lane' \in [Lanes -> Claim] /\ lane'[l] = claim
      /\ \A m \in Lanes : m # l => lane'[m] = lane[m]
    BY <1>2, <1>4 DEF Inv, Typed, claim
<1>6. Typed' /\ Claiming'
    BY <1>1, <1>4, <1>5 DEF Inv, Typed, Claiming
<1>7. Leases'
    BY <1>1, LeasesGo DEF Inv, Leased
<1> QED BY <1>1, <1>6, <1>7, BooksStay DEF Inv, Counted, Queued, Kept

LEMMA ClaimsNothingStep ==
    ASSUME Inv, NEW l \in Lanes, ClaimsNothing(l)
    PROVE  Inv'
<1>1. /\ lane' = [lane EXCEPT ![l] = Idle]
      /\ UNCHANGED <<rule, book, state, line, owner, clock, changes>>
    BY DEF ClaimsNothing
<1>2. Typed' /\ Claiming'
    BY <1>1, NoClaim DEF Inv, Typed, Claiming
<1>3. Leases'
    BY <1>1, LeasesGo DEF Inv, Leased
<1> QED BY <1>1, <1>2, <1>3, BooksStay DEF Inv, Counted, Queued, Kept

\* The claim takes the one lease of the owner, whatever its snapshot.
LEMMA ClaimEndsStep ==
    ASSUME Inv, NEW l \in Lanes, ClaimEnds(l)
    PROVE  Inv'
<1> DEFINE r == lane[l].rule
<1>1. /\ lane[l].at = "claiming" /\ rule[r].status = "active" /\ IndexAdmits(r)
      /\ UNCHANGED <<book, state, line, owner, clock, changes>>
      /\ \/ lane' = [lane EXCEPT ![l].at = "held"]
         \/ lane' = [lane EXCEPT ![l] = Idle]
      /\ \E holder \in {l, Nobody} :
           rule' = [rule EXCEPT ![r].lease = holder, ![r].live = TRUE, ![r].auth = lane[l].auth]
    BY DEF ClaimEnds
<1>2. r \in Rules
    BY <1>1 DEF Inv, Claiming
<1>3. lane[l] \in Claim /\ rule[r] \in RuleRow
    BY <1>2 DEF Inv, Typed
<1>4. PICK holder \in {l, Nobody} :
        rule' = [rule EXCEPT ![r].lease = holder, ![r].live = TRUE, ![r].auth = lane[l].auth]
    BY <1>1
<1>5. lane[l].auth \in 0 .. MaxChanges
    BY <1>3 DEF Claim
<1>6. /\ [lane[l] EXCEPT !.at = "held"] \in Claim
      /\ [lane[l] EXCEPT !.at = "held"].rule = r
    BY <1>3 DEF Claim
<1> HIDE DEF r
<1>7. /\ rule' \in [Rules -> RuleRow] /\ rule'[r].status = "active"
      /\ \A x \in Rules : x # r => rule'[x] = rule[x]
    <2>1. rule \in [Rules -> RuleRow]
        BY DEF Inv, Typed
    <2>2. [rule[r] EXCEPT !.lease = holder, !.live = TRUE, !.auth = lane[l].auth] \in RuleRow
        BY <1>3, <1>5 DEF RuleRow
    <2>3. [rule[r] EXCEPT !.lease = holder, !.live = TRUE, !.auth = lane[l].auth].status = "active"
        BY <1>1, <1>3 DEF RuleRow
    <2>4. rule' = [rule EXCEPT ![r] =
                [rule[r] EXCEPT !.lease = holder, !.live = TRUE, !.auth = lane[l].auth]]
        BY <1>2, <1>4, <2>1
    <2> QED BY <1>2, <2>1, <2>2, <2>3, <2>4
<1>8. lane' \in [Lanes -> Claim] /\ Claiming'
    <2>1. CASE lane' = [lane EXCEPT ![l] = Idle]
        BY <2>1, NoClaim DEF Inv, Typed, Claiming
    <2>2. CASE lane' = [lane EXCEPT ![l].at = "held"]
        BY <1>2, <1>6, <2>2 DEF Inv, Typed, Claiming
    <2> QED BY <1>1, <2>1, <2>2
<1>9. Typed'
    BY <1>1, <1>7, <1>8 DEF Inv, Typed
<1>10. Leases'
    <2>1. \A x \in Rules : OwnerOf[x] = OwnerOf[r] /\ x # r => ~Leased(x)
        BY <1>1 DEF IndexAdmits, Of
    <2>2. \A x \in Rules : x # r => (Leased(x)' <=> Leased(x)) /\ rule'[x].status = rule[x].status
        BY <1>7 DEF Leased
    <2> QED BY <1>2, <1>7, <2>1, <2>2 DEF Inv, Leases
<1>11. Queued' /\ Kept'
    <2>1. \A x \in ToSet(line) : x \in Rules
        BY DEF Inv, Typed, ToSet
    <2>2. \A x \in Rules : rule'[x].status = rule[x].status
        BY <1>1, <1>7
    <2> QED BY <1>1, <2>1, <2>2 DEF Inv, Queued, Kept
<1> QED BY <1>1, <1>8, <1>9, <1>10, <1>11, BooksStay DEF Inv, Counted

\* A lane that drops its claim.
LEMMA DroppedRules ==
    ASSUME Inv, NEW l \in Lanes, rule' = Dropped(l)
    PROVE  /\ rule' \in [Rules -> RuleRow]
           /\ \A x \in Rules : rule'[x].status = rule[x].status /\ (Leased(x)' <=> Leased(x))
<1>1. ASSUME NEW x \in Rules
      PROVE  /\ rule'[x] \in RuleRow /\ rule'[x].status = rule[x].status
             /\ Leased(x)' <=> Leased(x)
    <2>1. rule[x] \in RuleRow
        BY DEF Inv, Typed
    <2>2. /\ [rule[x] EXCEPT !.lease = Nobody] \in RuleRow
          /\ [rule[x] EXCEPT !.lease = Nobody].status = rule[x].status
          /\ [rule[x] EXCEPT !.lease = Nobody].lease = Nobody
        BY <2>1 DEF RuleRow
    <2>3. rule'[x] = IF rule[x].lease = l THEN [rule[x] EXCEPT !.lease = Nobody] ELSE rule[x]
        BY DEF Dropped
    <2> QED BY <2>1, <2>2, <2>3, AlertsAssumption DEF Leased
<1>2. rule' = [x \in Rules |-> rule'[x]]
    BY DEF Dropped
<1> QED BY <1>1, <1>2

LEMMA ForgetStep ==
    ASSUME Inv, NEW l \in Lanes, Forget(l)
    PROVE  Inv'
<1>1. /\ rule' = Dropped(l) /\ lane' = [lane EXCEPT ![l] = Idle]
      /\ UNCHANGED <<book, state, line, owner, clock, changes>>
    BY DEF Forget
<1>2. /\ rule' \in [Rules -> RuleRow]
      /\ \A x \in Rules : rule'[x].status = rule[x].status /\ (Leased(x)' <=> Leased(x))
    BY <1>1, DroppedRules
<1>3. Typed' /\ Claiming'
    BY <1>1, <1>2, NoClaim DEF Inv, Typed, Claiming
<1>4. Leases'
    BY <1>2, LeasesGo DEF Inv
<1>5. Queued' /\ Kept'
    <2>1. \A x \in ToSet(line) : x \in Rules
        BY DEF Inv, Typed, ToSet
    <2> QED BY <1>1, <1>2, <2>1 DEF Inv, Queued, Kept
<1> QED BY <1>1, <1>3, <1>4, <1>5, BooksStay DEF Inv, Counted

LEMMA PutOffStep ==
    ASSUME Inv, NEW l \in Lanes, PutOff(l)
    PROVE  Inv'
<1> DEFINE r == lane[l].rule
<1>1. /\ lane[l].at = "held" /\ lane' = [lane EXCEPT ![l] = Idle]
      /\ UNCHANGED <<book, state, owner, clock, changes>>
      /\ \/ rule' = [rule EXCEPT ![r].lease = None, ![r].live = FALSE] /\ line' = Without(r)
         \/ rule' = Dropped(l) /\ UNCHANGED line
    BY DEF PutOff
<1>2. r \in Rules
    BY <1>1 DEF Inv, Claiming
<1> HIDE DEF r
<1>3. /\ rule' \in [Rules -> RuleRow]
      /\ \A x \in Rules : rule'[x].status = rule[x].status /\ (Leased(x)' => Leased(x))
    <2>1. CASE rule' = Dropped(l)
        BY <2>1, DroppedRules
    <2>2. CASE rule' = [rule EXCEPT ![r].lease = None, ![r].live = FALSE]
        <3>1. rule \in [Rules -> RuleRow] /\ rule[r] \in RuleRow
            BY <1>2 DEF Inv, Typed
        <3>2. /\ [rule[r] EXCEPT !.lease = None, !.live = FALSE] \in RuleRow
              /\ [rule[r] EXCEPT !.lease = None, !.live = FALSE].status = rule[r].status
              /\ [rule[r] EXCEPT !.lease = None, !.live = FALSE].lease = None
            BY <3>1 DEF RuleRow
        <3>3. rule' = [rule EXCEPT ![r] = [rule[r] EXCEPT !.lease = None, !.live = FALSE]]
            BY <1>2, <2>2, <3>1
        <3> QED BY <1>2, <3>1, <3>2, <3>3 DEF Leased
    <2> QED BY <1>1, <2>1, <2>2
<1>4. line' \in Seq(Rules) /\ IsInjective(line') /\ ToSet(line') \subseteq ToSet(line)
    BY <1>1, <1>2, WithoutRule DEF Inv, Typed, Queued
<1>5. Typed' /\ Claiming'
    BY <1>1, <1>3, <1>4, NoClaim DEF Inv, Typed, Claiming
<1>6. Leases'
    BY <1>3, LeasesGo DEF Inv
<1>7. Queued' /\ Kept'
    <2>1. \A x \in ToSet(line) : x \in Rules
        BY DEF Inv, Typed, ToSet
    <2> QED BY <1>1, <1>3, <1>4, <2>1 DEF Inv, Queued, Kept
<1> QED BY <1>1, <1>5, <1>6, <1>7, BooksStay DEF Inv, Counted

-----------------------------------------------------------------------------
\* The owner's edits.

(* An edit drops the lease and takes the rule from the line.                *)
LEMMA ArchiveStep ==
    ASSUME Inv, NEW r \in Rules, Archive(r)
    PROVE  Inv'
<1>1. /\ rule[r].status \in {"active", "disabled"}
      /\ rule' = [rule EXCEPT ![r] = Edited(r, "archived")] /\ line' = Without(r)
      /\ UNCHANGED <<book, state, lane, owner, clock, changes>>
    BY DEF Archive
<1>2. owner[OwnerOf[r]].auth \in 0 .. MaxChanges
    BY AlertsAssumption DEF Inv, Typed
<1>3. /\ Edited(r, "archived") \in RuleRow /\ Edited(r, "archived").status = "archived"
      /\ Edited(r, "archived").lease = None
    BY <1>2 DEF Edited, RuleRow
<1>4. /\ rule' \in [Rules -> RuleRow] /\ rule'[r].status = "archived" /\ rule'[r].lease = None
      /\ \A x \in Rules : x # r => rule'[x] = rule[x]
    BY <1>1, <1>3 DEF Inv, Typed
<1>5. line' \in Seq(Rules) /\ IsInjective(line') /\ ToSet(line') = ToSet(line) \ {r}
    BY <1>1, WithoutRule DEF Inv, Typed, Queued
<1>6. Typed'
    BY <1>1, <1>4, <1>5 DEF Inv, Typed
<1>7. Leases'
    BY <1>4, LeasesGo DEF Inv, Leased
<1>8. Queued' /\ Kept'
    <2>1. \A x \in ToSet(line) : x \in Rules
        BY DEF Inv, Typed, ToSet
    <2> QED BY <1>1, <1>4, <1>5, <2>1 DEF Inv, Queued, Kept
<1> QED BY <1>1, <1>6, <1>7, <1>8, BooksStay DEF Inv, Counted, Claiming

(* A new revision starts with nothing seen, in the book and in the state.   *)
LEMMA ReviseStep ==
    ASSUME Inv, NEW r \in Rules, NEW d \in Definitions, Revise(r, d),
           state' \in [Rules -> [Scopes -> Row \cup {None}]],
           \A x \in Rules : x # r => state'[x] = state[x],
           \A s \in Scopes : state'[r][s] # None => state'[r][s].rev <= Rev(r) + 1,
           StateInForce(state'[r][ScopeOf[d]], Rev(r) + 1) = Fresh
    PROVE  Inv'
<1> DEFINE status == IF d \in Enabled THEN "active" ELSE "disabled"
<1>1. /\ changes < MaxChanges /\ changes' = changes + 1
      /\ book' = [book EXCEPT ![r] = Append(book[r], NewRevision(d))]
      /\ rule' = [rule EXCEPT ![r] = Edited(r, status)]
      /\ line' = IF d \in Enabled THEN Append(Without(r), r) ELSE Without(r)
      /\ UNCHANGED <<lane, owner, clock>>
    BY DEF Revise
<1>2. owner[OwnerOf[r]].auth \in 0 .. MaxChanges
    BY AlertsAssumption DEF Inv, Typed
<1>3. /\ Edited(r, status) \in RuleRow /\ Edited(r, status).status = status
      /\ Edited(r, status).lease = None
    BY <1>2 DEF Edited, RuleRow
<1>4. /\ rule' \in [Rules -> RuleRow] /\ rule'[r].status = status /\ rule'[r].lease = None
      /\ \A x \in Rules : x # r => rule'[x] = rule[x]
    BY <1>1, <1>3 DEF Inv, Typed
<1>5. /\ line' \in Seq(Rules) /\ IsInjective(line')
      /\ ToSet(line') = IF d \in Enabled THEN (ToSet(line) \ {r}) \cup {r} ELSE ToSet(line) \ {r}
    <2>1. /\ Without(r) \in Seq(Rules) /\ IsInjective(Without(r))
          /\ ToSet(Without(r)) = ToSet(line) \ {r}
        BY WithoutRule DEF Inv, Typed, Queued
    <2>2. r \notin ToSet(Without(r))
        BY <2>1
    <2> QED BY <1>1, <2>1, <2>2, AppendRule
<1>6. NewRevision(d) \in Entry
    <2>1. <<>> \in Seq(Receipt)
        BY EmptySeq
    <2> QED BY <2>1 DEF NewRevision, Entry, Inv, Typed
<1>7. /\ book' \in [Rules -> Seq(Entry)] /\ book'[r] # <<>>
      /\ Len(book[r]) \in Nat /\ Len(book'[r]) = Len(book[r]) + 1
      /\ book'[r][Len(book[r]) + 1] = NewRevision(d)
      /\ \A x \in Rules : x # r => book'[x] = book[x]
    <2>1. book[r] \in Seq(Entry)
        BY DEF Inv, Typed
    <2>2. /\ Append(book[r], NewRevision(d)) \in Seq(Entry)
          /\ Append(book[r], NewRevision(d)) # <<>>
          /\ Len(Append(book[r], NewRevision(d))) = Len(book[r]) + 1
          /\ Append(book[r], NewRevision(d))[Len(book[r]) + 1] = NewRevision(d)
        BY <1>6, <2>1, AppendProperties
    <2>3. Len(book[r]) \in Nat
        BY <2>1, LenProperties
    <2> QED BY <1>1, <2>2, <2>3 DEF Inv, Typed
<1>8. changes' \in 0 .. MaxChanges
    BY <1>1, AlertsAssumption DEF Inv, Typed
<1>9. Typed'
    BY <1>1, <1>4, <1>5, <1>7, <1>8 DEF Inv, Typed
<1>10. Counted'
    BY <1>1 DEF Inv, Typed, Counted
<1>11. Leases'
    <2>1. ASSUME NEW x \in Rules, Leased(x)' PROVE Leased(x) /\ rule'[x].status = rule[x].status
        BY <1>4, <2>1 DEF Leased
    <2> QED BY <2>1, LeasesGo DEF Inv
<1>12. Queued'
    <2>1. \A x \in ToSet(line) : x \in Rules
        BY DEF Inv, Typed, ToSet
    <2> QED BY <1>4, <1>5, <2>1 DEF Inv, Queued
<1>13. Kept'
    BY <1>4, <1>7 DEF Inv, Kept
<1>14. NotAhead'
    BY <1>7 DEF Inv, NotAhead, Rev
<1>15. Journalled'
    <2>1. ASSUME NEW x \in Rules, x # r, book'[x] # <<>> PROVE Follows(x)'
        <3>1. book'[x] = book[x] /\ state'[x] = state[x]
            BY <1>7, <2>1
        <3>2. Follows(x)
            BY <2>1, <3>1 DEF Inv, Journalled
        <3> QED BY <3>1, <3>2 DEF Follows, Rev, Scope, Def
    <2>2. Follows(r)'
        <3>1. Rev(r)' = Rev(r) + 1 /\ book'[r][Rev(r)'] = NewRevision(d)
            BY <1>7 DEF Rev
        <3>2. NewRevision(d).def = d /\ NewRevision(d).seen = <<>> /\ NewRevision(d).told = {}
            BY DEF NewRevision
        <3>3. Scope(r)' = ScopeOf[d]
            BY <3>1, <3>2 DEF Scope, Def
        <3>4. Fresh.triggered = FALSE
            BY DEF Fresh
        <3>5. Len(NewRevision(d).seen) = 0
            BY <3>2
        <3>6. StateInForce(state[r][Scope(r)], Rev(r))' = Fresh
            BY <3>1, <3>3 DEF StateInForce
        <3> QED BY <3>1, <3>2, <3>4, <3>5, <3>6 DEF Follows
    <2> QED BY <2>1, <2>2 DEF Journalled
<1> QED BY <1>1, <1>9, <1>10, <1>11, <1>12, <1>13, <1>14, <1>15 DEF Inv, Claiming

LEMMA EditStep ==
    ASSUME Inv, NEW r \in Rules, NEW d \in Definitions, Create(r, d) \/ Update(r, d)
    PROVE  Inv'
<1>1. Revise(r, d) /\ UNCHANGED state
    BY DEF Create, Update
<1>2. Rev(r) \in Nat
    BY LenProperties DEF Inv, Typed, Rev
<1>3. \A s \in Scopes : state[r][s] # None => state[r][s].rev \in Nat /\ state[r][s].rev <= Rev(r)
    BY DEF Inv, Typed, NotAhead, Row
<1>4. ScopeOf[d] \in Scopes
    BY DEF Scopes
<1>5. StateInForce(state[r][ScopeOf[d]], Rev(r) + 1) = Fresh
    BY <1>2, <1>3, <1>4 DEF StateInForce
<1>6. \A s \in Scopes : state[r][s] # None => state[r][s].rev <= Rev(r) + 1
    BY <1>2, <1>3
<1>7. state \in [Rules -> [Scopes -> Row \cup {None}]]
    BY DEF Inv, Typed
<1> QED BY <1>1, <1>5, <1>6, <1>7, ReviseStep

LEMMA RearmStep ==
    ASSUME Inv, NEW r \in Rules, Rearm(r)
    PROVE  Inv'
<1> DEFINE s == Scope(r)
           row == Rearmed(r, state[r][s])
<1>1. /\ rule[r].status # "none" /\ Revise(r, Def(r))
      /\ state' = [state EXCEPT ![r][s] = row]
    BY DEF Rearm
<1>2. /\ Rev(r) \in Nat \ {0} /\ Def(r) \in Definitions /\ s \in Scopes
      /\ state[r][s] \in Row \cup {None}
    BY <1>1, InForceEntry
<1>3. row \in Row /\ row.rev = Rev(r) + 1 /\ row.is = Fresh
    <2>1. Fresh \in [cursor : Bars \cup {None}, eligible : BOOLEAN, triggered : BOOLEAN]
        BY DEF Fresh
    <2>2. (IF state[r][s] = None THEN 1 ELSE state[r][s].ver + 1) \in Nat \ {0}
        BY <1>2 DEF Row
    <2>3. Rev(r) + 1 \in Nat \ {0}
        BY <1>2
    <2> QED BY <2>1, <2>2, <2>3 DEF Rearmed, Row
<1> HIDE DEF row
<1>4. state \in [Rules -> [Scopes -> Row \cup {None}]]
    BY DEF Inv, Typed
<1>5. /\ state' \in [Rules -> [Scopes -> Row \cup {None}]] /\ state'[r][s] = row
      /\ \A x \in Rules : x # r => state'[x] = state[x]
      /\ \A t \in Scopes : t # s => state'[r][t] = state[r][t]
    BY <1>1, <1>2, <1>3, <1>4
<1>6. \A t \in Scopes : state'[r][t] # None => state'[r][t].rev <= Rev(r) + 1
    <2>1. ASSUME NEW t \in Scopes, t # s, state[r][t] # None
          PROVE  state[r][t].rev \in Nat /\ state[r][t].rev <= Rev(r)
        BY <1>4, <2>1 DEF Inv, NotAhead, Row
    <2> QED BY <1>2, <1>3, <1>5, <2>1
<1>7. StateInForce(state'[r][ScopeOf[Def(r)]], Rev(r) + 1) = Fresh
    <2>1. row # None
        BY <1>3, AlertsAssumption
    <2> QED BY <1>2, <1>3, <1>5, <2>1 DEF StateInForce, Scope
<1> QED BY <1>1, <1>2, <1>5, <1>6, <1>7, ReviseStep

-----------------------------------------------------------------------------
(* A completion goes by the durable state, whatever the lane had claimed:   *)
(* it is of the revision in force, which has told its owner nothing yet,    *)
(* and adds its next bar, with a trigger just when that bar crosses.        *)
LEMMA Completion ==
    ASSUME Inv, NEW l \in Lanes, NEW met \in BOOLEAN, Complete(l, met)
    PROVE  LET r   == lane[l].rule
               v   == Rev(r)
               now == book[r][v]
               n   == Len(now.seen)
           IN  /\ r \in Rules /\ InForce(r) /\ rule[r].status = "active"
               /\ v = lane[l].rev /\ v \in 1 .. Len(book[r]) /\ now \in Entry /\ now.told = {}
               /\ Scope(r) \in Scopes /\ state[r][Scope(r)] \in Row \cup {None}
               /\ now.from + n \in Bars /\ n \in Nat
               /\ Evaluated(r, StateInForce(lane[l].row, lane[l].rev), met) =
                    [cursor |-> now.from + n, eligible |-> met,
                     triggered |-> n # 0 /\ ~now.seen[n].met /\ met]
<1> SUFFICES ASSUME
        NEW r, r = lane[l].rule, NEW v, v = Rev(r), NEW now, now = book[r][v],
        NEW n, n = Len(now.seen)
        PROVE  /\ r \in Rules /\ InForce(r) /\ rule[r].status = "active"
               /\ v = lane[l].rev /\ v \in 1 .. Len(book[r]) /\ now \in Entry /\ now.told = {}
               /\ Scope(r) \in Scopes /\ state[r][Scope(r)] \in Row \cup {None}
               /\ now.from + n \in Bars /\ n \in Nat
               /\ Evaluated(r, StateInForce(lane[l].row, lane[l].rev), met) =
                    [cursor |-> now.from + n, eligible |-> met,
                     triggered |-> n # 0 /\ ~now.seen[n].met /\ met]
    OBVIOUS
<1> DEFINE row == state[r][Scope(r)]
           st == StateInForce(row, v)
           claimed == StateInForce(lane[l].row, lane[l].rev)
<1>1. /\ lane[l].at = "held" /\ rule[r].status = "active" /\ v = lane[l].rev
      /\ owner[OwnerOf[r]].usable
    BY DEF Complete, Accepts, FenceHolds
<1>2. r \in Rules
    BY <1>1 DEF Inv, Claiming
<1>3. /\ v \in 1 .. Len(book[r]) /\ now \in Entry /\ Scope(r) \in Scopes
      /\ state[r][Scope(r)] \in Row \cup {None} /\ Follows(r)
    BY <1>1, <1>2, InForceEntry
<1>4. /\ ~st.triggered /\ NextBar(r, claimed) < clock
      /\ Evaluated(r, claimed, met) = Evaluated(r, st, met)
    BY <1>1 DEF Complete, Accepts
<1>5. /\ n = 0 => st = Fresh
      /\ n # 0 => /\ st.cursor \in Bars /\ st.cursor = now.from + n - 1
                  /\ st.eligible = now.seen[n].met
      /\ st.triggered <=> now.told # {}
    BY <1>3 DEF Follows
<1>6. /\ now.from \in Bars /\ now.seen \in Seq(Receipt) /\ n \in Nat
      /\ n # 0 => now.seen[n] \in Receipt
    <2>1. now.from \in Bars /\ now.seen \in Seq(Receipt)
        BY <1>3 DEF Entry
    <2>2. n \in Nat
        BY <2>1, LenProperties
    <2> QED BY <2>1, <2>2, ElementOfSeq
<1> HIDE DEF st, claimed
<1>7. NextBar(r, st) = now.from + n
    <2>1. CASE n = 0
        BY <1>5, <1>6, <2>1 DEF NextBar, Fresh, Bars
    <2>2. CASE n # 0
        <3>1. st.cursor # None /\ st.cursor = now.from + n - 1
            BY <1>5, <2>2, AlertsAssumption
        <3>2. NextBar(r, st) = st.cursor + 1
            BY <3>1 DEF NextBar
        <3>3. now.from \in Int /\ n \in Int
            BY <1>6 DEF Bars
        <3>4. \A i, j \in Int : i + j - 1 + 1 = i + j
            OBVIOUS
        <3>5. now.from + n - 1 + 1 = now.from + n
            BY <3>3, <3>4
        <3>6. NextBar(r, st) = now.from + n - 1 + 1
            BY <3>1, <3>2
        <3> QED BY <3>5, <3>6
    <2> QED BY <2>1, <2>2
<1>8. (st.cursor # None /\ ~st.eligible /\ met) = (n # 0 /\ ~now.seen[n].met /\ met)
    <2>1. CASE n = 0
        BY <1>5, <2>1 DEF Fresh
    <2>2. CASE n # 0
        BY <1>5, <2>2, AlertsAssumption
    <2> QED BY <2>1, <2>2
<1>9. Evaluated(r, st, met) = [cursor |-> now.from + n, eligible |-> met,
                               triggered |-> n # 0 /\ ~now.seen[n].met /\ met]
    BY <1>7, <1>8 DEF Evaluated
<1>10. NextBar(r, claimed) = now.from + n
    <2>1. Evaluated(r, claimed, met).cursor = NextBar(r, claimed)
        BY DEF Evaluated
    <2> QED BY <1>4, <1>9, <2>1
<1>11. now.from + n \in Bars
    <2>1. now.from + n < clock
        BY <1>4, <1>10
    <2>2. now.from \in 0 .. MaxBar /\ clock \in 0 .. MaxBar /\ MaxBar \in Nat
        BY <1>6, AlertsAssumption DEF Bars, Inv, Typed
    <2>3. \A i, j \in Nat : i + j < clock => i + j \in 0 .. MaxBar
        BY <2>2
    <2>4. now.from \in Nat
        BY <2>2
    <2> QED BY <1>6, <2>1, <2>3, <2>4 DEF Bars
<1>12. now.told = {} /\ InForce(r)
    BY <1>1, <1>4, <1>5 DEF InForce
<1> QED BY <1>1, <1>2, <1>3, <1>4, <1>6, <1>9, <1>11, <1>12 DEF claimed

LEMMA CompleteStep ==
    ASSUME Inv, NEW l \in Lanes, NEW met \in BOOLEAN, Complete(l, met)
    PROVE  Inv'
<1> SUFFICES ASSUME NEW r, r = lane[l].rule, NEW s, s = Scope(r), NEW v, v = Rev(r)
             PROVE  Inv'
    OBVIOUS
<1> DEFINE now == book[r][v]
           n == Len(now.seen)
           next == Evaluated(r, StateInForce(lane[l].row, lane[l].rev), met)
           receipt == [bar |-> next.cursor, met |-> met]
           row == [rev |-> lane[l].rev, ver |-> Version(state[r][s]) + 1, is |-> next]
           told == IF next.triggered THEN now.told \cup {next.cursor} ELSE now.told
           entry == [now EXCEPT !.seen = Append(now.seen, receipt), !.told = told]
           status == IF next.triggered THEN "disabled" ELSE "active"
<1>1. /\ state' = [state EXCEPT ![r][s] = row]
      /\ book' = [book EXCEPT ![r][v] = entry]
      /\ rule' = [rule EXCEPT ![r].lease = None, ![r].live = FALSE, ![r].status = status]
      /\ line' = IF ~next.triggered /\ next.cursor + 1 < clock
                 THEN Append(Without(r), r) ELSE Without(r)
      /\ lane' = [lane EXCEPT ![l] = Idle]
      /\ UNCHANGED <<owner, clock, changes>>
    <2>1. state' = [state EXCEPT ![r][s] = row]
        BY DEF Complete
    <2>2. book' = [book EXCEPT ![r][v] = entry]
        BY DEF Complete
    <2>3. rule' = [rule EXCEPT ![r].lease = None, ![r].live = FALSE, ![r].status = status]
        BY DEF Complete
    <2>4. line' = IF ~next.triggered /\ next.cursor + 1 < clock
                  THEN Append(Without(r), r) ELSE Without(r)
        BY DEF Complete
    <2> QED BY <2>1, <2>2, <2>3, <2>4 DEF Complete
<1> HIDE DEF now, n, next, receipt, row, told, entry, status
<1>2. /\ r \in Rules /\ rule[r].status = "active"
      /\ v = lane[l].rev /\ v \in 1 .. Len(book[r]) /\ now \in Entry /\ now.told = {}
      /\ s \in Scopes /\ state[r][s] \in Row \cup {None}
      /\ now.from + n \in Bars /\ n \in Nat
      /\ next = [cursor |-> now.from + n, eligible |-> met,
                 triggered |-> n # 0 /\ ~now.seen[n].met /\ met]
    BY Completion DEF now, n, next
<1>3. /\ next \in [cursor : Bars \cup {None}, eligible : BOOLEAN, triggered : BOOLEAN]
      /\ next.cursor = now.from + n /\ next.eligible = met /\ next.triggered \in BOOLEAN
    BY <1>2
<1>4. receipt \in Receipt
    BY <1>2, <1>3 DEF Receipt, receipt
<1>5. row \in Row /\ row.rev = v /\ row.is = next
    <2>1. Version(state[r][s]) + 1 \in Nat \ {0}
        BY <1>2 DEF Version, Row
    <2>2. v \in Nat \ {0}
        BY <1>2
    <2> QED BY <1>2, <1>3, <2>1, <2>2 DEF Row, row
<1>6. /\ entry \in Entry /\ entry.from = now.from /\ entry.def = now.def
      /\ Len(entry.seen) = n + 1 /\ entry.seen[n + 1].met = met
      /\ entry.told # {} <=> next.triggered
    <2>1. now.seen \in Seq(Receipt) /\ now.told \subseteq Bars
        BY <1>2 DEF Entry
    <2>2. /\ Append(now.seen, receipt) \in Seq(Receipt)
          /\ Len(Append(now.seen, receipt)) = n + 1
          /\ Append(now.seen, receipt)[n + 1] = receipt
        BY <1>4, <2>1, AppendProperties DEF n
    <2>3. told \subseteq Bars
        BY <1>2, <1>3 DEF told
    <2>4. /\ entry.seen = Append(now.seen, receipt) /\ entry.from = now.from
          /\ entry.def = now.def
          /\ entry.told = told
          /\ entry \in Entry
        BY <1>2, <2>2, <2>3 DEF Entry, entry
    <2>5. told # {} <=> next.triggered
        BY <1>2, <1>3 DEF told
    <2>6. receipt.met = met
        BY DEF receipt
    <2> QED BY <2>2, <2>4, <2>5, <2>6
<1>7. /\ book' \in [Rules -> Seq(Entry)] /\ book'[r][v] = entry
      /\ Len(book'[r]) = Len(book[r]) /\ book'[r] # <<>>
      /\ \A x \in Rules : x # r => book'[x] = book[x]
    <2>1. book \in [Rules -> Seq(Entry)] /\ book[r] \in Seq(Entry)
        BY <1>2 DEF Inv, Typed
    <2>2. /\ [book[r] EXCEPT ![v] = entry] \in Seq(Entry)
          /\ Len([book[r] EXCEPT ![v] = entry]) = Len(book[r])
          /\ \A j \in 1 .. Len(book[r]) :
                [book[r] EXCEPT ![v] = entry][j] = IF j = v THEN entry ELSE book[r][j]
        BY <1>2, <1>6, <2>1, ExceptSeq
    <2>3. book' = [book EXCEPT ![r] = [book[r] EXCEPT ![v] = entry]]
        BY <1>1
    <2>4. Len(book[r]) \in Nat /\ Len(book[r]) # 0
        BY <1>2, <2>1, LenProperties
    <2>5. book'[r] = [book[r] EXCEPT ![v] = entry]
        BY <1>2, <2>1, <2>3
    <2>6. book'[r] # <<>>
        BY <2>2, <2>4, <2>5, EmptySeq
    <2> QED BY <1>2, <2>1, <2>2, <2>3, <2>5, <2>6
<1>8. /\ state' \in [Rules -> [Scopes -> Row \cup {None}]] /\ state'[r][s] = row
      /\ \A x \in Rules : x # r => state'[x] = state[x]
      /\ \A t \in Scopes : t # s => state'[r][t] = state[r][t]
    BY <1>1, <1>2, <1>5 DEF Inv, Typed
<1>9. /\ rule' \in [Rules -> RuleRow] /\ rule'[r].lease = None /\ rule'[r].status = status
      /\ \A x \in Rules : x # r => rule'[x] = rule[x]
    <2>1. rule \in [Rules -> RuleRow] /\ rule[r] \in RuleRow
        BY <1>2 DEF Inv, Typed
    <2> DEFINE after == [rule[r] EXCEPT !.lease = None, !.live = FALSE, !.status = status]
    <2>2. after \in RuleRow /\ after.lease = None /\ after.status = status
        BY <2>1 DEF RuleRow, status
    <2>3. rule' = [rule EXCEPT ![r] = after]
        BY <1>1, <1>2, <2>1
    <2> QED BY <1>2, <2>1, <2>2, <2>3
<1>10. /\ line' \in Seq(Rules) /\ IsInjective(line')
       /\ ToSet(line') \subseteq ToSet(line) \cup {r}
       /\ next.triggered => r \notin ToSet(line')
    <2>1. /\ Without(r) \in Seq(Rules) /\ IsInjective(Without(r))
          /\ ToSet(Without(r)) = ToSet(line) \ {r}
        BY <1>2, WithoutRule DEF Inv, Typed, Queued
    <2>2. /\ Append(Without(r), r) \in Seq(Rules) /\ IsInjective(Append(Without(r), r))
          /\ ToSet(Append(Without(r), r)) = ToSet(Without(r)) \cup {r}
        BY <1>2, <2>1, AppendRule
    <2> QED BY <1>1, <2>1, <2>2
<1>11. Typed' /\ Claiming'
    BY <1>1, <1>7, <1>8, <1>9, <1>10, NoClaim DEF Inv, Typed, Claiming
<1>12. Leases'
    <2>1. ASSUME NEW x \in Rules, Leased(x)' PROVE Leased(x) /\ rule'[x].status = rule[x].status
        BY <1>9, <2>1 DEF Leased
    <2> QED BY <2>1, LeasesGo DEF Inv
<1>13. Queued'
    <2>1. \A x \in ToSet(line) : x \in Rules
        BY DEF Inv, Typed, ToSet
    <2> QED BY <1>2, <1>9, <1>10, <2>1 DEF Inv, Queued, status
<1>14. Kept'
    BY <1>2, <1>7, <1>9 DEF Inv, Kept
<1>15. \A x \in Rules : Rev(x)' = Rev(x)
    BY <1>7 DEF Rev
<1>16. NotAhead'
    <2>1. ASSUME NEW x \in Rules, NEW t \in Scopes, state'[x][t] # None
          PROVE  state'[x][t].rev <= Rev(x)
        <3>1. CASE x = r /\ t = s
            <4>1. state'[x][t].rev = v /\ Rev(x) = v
                BY <1>5, <1>8, <3>1
            <4> QED BY <1>2, <4>1
        <3>2. CASE ~(x = r /\ t = s)
            BY <1>8, <2>1, <3>2 DEF Inv, NotAhead
        <3> QED BY <3>1, <3>2
    <2> QED BY <1>15, <2>1 DEF NotAhead
<1>17. Journalled'
    <2>1. ASSUME NEW x \in Rules, x # r, book'[x] # <<>> PROVE Follows(x)'
        <3>1. book'[x] = book[x] /\ state'[x] = state[x]
            BY <1>7, <1>8, <2>1
        <3>2. Follows(x)
            BY <2>1, <3>1 DEF Inv, Journalled
        <3> QED BY <3>1, <3>2 DEF Follows, Rev, Scope, Def
    <2>2. Follows(r)'
        <3>1. Rev(r)' = v /\ book'[r][Rev(r)'] = entry
            BY <1>2, <1>7, <1>15
        <3>2. Scope(r)' = s
            BY <1>6, <3>1 DEF Scope, Def, now
        <3>3. StateInForce(state[r][Scope(r)], Rev(r))' = next
            <4>1. row # None /\ ~(row.rev < v)
                BY <1>2, <1>5, AlertsAssumption
            <4> QED BY <1>5, <1>8, <3>1, <3>2, <4>1 DEF StateInForce
        <3>4. n + 1 # 0 /\ entry.from + (n + 1) - 1 = now.from + n
            BY <1>2, <1>6 DEF Bars
        <3> QED BY <1>2, <1>3, <1>6, <3>1, <3>3, <3>4 DEF Follows
    <2> QED BY <2>1, <2>2 DEF Journalled
<1> QED BY <1>1, <1>11, <1>12, <1>13, <1>14, <1>16, <1>17 DEF Inv, Counted

-----------------------------------------------------------------------------
LEMMA Inductive == Inv /\ [Next]_vars => Inv'
<1> SUFFICES ASSUME Inv, [Next]_vars PROVE Inv'
    OBVIOUS
<1>1. ASSUME UNCHANGED vars PROVE Inv'
    <2>1. UNCHANGED <<rule, book, state, line, lane, owner, clock, changes>>
        BY <1>1 DEF vars
    <2>2. Leases'
        BY <2>1, LeasesGo DEF Inv, Leased
    <2> QED BY <2>1, <2>2, BooksStay DEF Inv, Typed, Counted, Claiming, Queued, Kept
<1>2. ASSUME NEW r \in Rules, NEW d \in Definitions, Create(r, d) \/ Update(r, d) PROVE Inv'
    BY <1>2, EditStep
<1>3. ASSUME NEW r \in Rules,
             Resubmit(r) \/ Rearm(r) \/ Archive(r) \/ ComesDue(r) \/ LeaseExpires(r)
      PROVE  Inv'
    BY <1>3, ResubmitStep, RearmStep, ArchiveStep, ComesDueStep, LeaseExpiresStep
<1>4. ASSUME NEW o \in Owners, Transition(o) PROVE Inv'
    BY <1>4, TransitionStep
<1>5. ASSUME BarCloses \/ RecoverExpiredLeases PROVE Inv'
    BY <1>5, BarClosesStep, RecoverStep
<1>6. ASSUME NEW l \in Lanes,
             ClaimBegins(l) \/ ClaimEnds(l) \/ ClaimsNothing(l) \/ Forget(l) \/ PutOff(l)
      PROVE  Inv'
    BY <1>6, ClaimBeginsStep, ClaimEndsStep, ClaimsNothingStep, ForgetStep, PutOffStep
<1>7. ASSUME NEW l \in Lanes, NEW met \in BOOLEAN, Complete(l, met) PROVE Inv'
    BY <1>7, CompleteStep
<1> QED BY <1>1, <1>2, <1>3, <1>4, <1>5, <1>6, <1>7 DEF Next

LEMMA Invariant == Spec => []Inv
<1>1. Init => Inv
    BY InitStep
<1>2. Inv /\ [Next]_vars => Inv'
    BY Inductive
<1> QED BY <1>1, <1>2, PTL DEF Spec

(* The tables and lanes are always well typed, only active rules wait or   *)
(* are leased, and however claims cross and expire an owner has one lease. *)
THEOREM TypeCorrect == Spec => []AlertsTypeOK
<1>1. Inv => AlertsTypeOK
    <2> SUFFICES ASSUME Inv PROVE AlertsTypeOK
        OBVIOUS
    <2>1. ASSUME NEW r \in Rules, NEW v \in DOMAIN book[r]
          PROVE  /\ book[r][v].def \in Definitions /\ book[r][v].from \in Bars
                 /\ ToSet(book[r][v].seen) \subseteq Receipt /\ book[r][v].told \subseteq Bars
        <3>1. book[r] \in Seq(Entry)
            BY DEF Inv, Typed
        <3>2. book[r][v] \in Entry
            BY <2>1, <3>1, LenProperties, ElementOfSeq
        <3>3. book[r][v].seen \in Seq(Receipt)
            BY <3>2 DEF Entry
        <3>4. \A n \in DOMAIN book[r][v].seen : book[r][v].seen[n] \in Receipt
            BY <3>3, LenProperties, ElementOfSeq
        <3> QED BY <3>2, <3>4 DEF Entry, ToSet
    <2>2. ASSUME NEW o \in Owners PROVE Cardinality({r \in Of(o) : Leased(r)}) <= 1
        <3> DEFINE held == {r \in Of(o) : Leased(r)}
        <3>1. CASE held = {}
            <4>1. Cardinality(held) = 0
                BY <3>1, FS_EmptySet
            <4> QED BY <4>1
        <3>2. CASE held # {}
            <4>1. PICK r \in held : TRUE
                BY <3>2
            <4>2. held = {r}
                BY <4>1 DEF Of, Inv, Leases
            <4>3. Cardinality(held) = 1
                BY <4>2, FS_Singleton
            <4> QED BY <4>3
        <3> QED BY <3>1, <3>2
    <2>3. rule \in [Rules -> [status : {"none", "active", "disabled", "archived"},
                              auth : 0 .. MaxChanges, lease : Lanes \cup {None, Nobody},
                              live : BOOLEAN]]
        BY DEF Inv, Typed, RuleRow
    <2>4. \A l \in Lanes : lane[l].at \in {"idle", "claiming", "held"}
        BY DEF Inv, Typed, Claim
    <2> QED BY <2>1, <2>2, <2>3, <2>4 DEF AlertsTypeOK, Inv, Typed, Queued, Leases
<1> QED BY <1>1, Invariant, PTL

-----------------------------------------------------------------------------
(* The book as CrossingAlerts shows it: its revisions without what they    *)
(* watch.                                                                  *)
Page == [from : Bars, seen : Seq(Receipt), told : SUBSET Bars]
Shown(e) == [from |-> e.from, seen |-> e.seen, told |-> e.told]
Pages(b) == [v \in DOMAIN b |-> Shown(b[v])]
Journal == [r \in Rules |-> Pages(book[r])]
Working == {r \in Rules : InForce(r)}

LEMMA PageExcept ==
    ASSUME NEW e, NEW seen, NEW told
    PROVE  [Shown(e) EXCEPT !.seen = seen, !.told = told]
             = [from |-> e.from, seen |-> seen, told |-> told]
<1> DEFINE one == [Shown(e) EXCEPT !.seen = seen]
<1>1. one = [from |-> e.from, seen |-> seen, told |-> e.told]
    BY DEF Shown
<1>2. [Shown(e) EXCEPT !.seen = seen, !.told = told] = [one EXCEPT !.told = told]
    OBVIOUS
<1> HIDE DEF one
<1>3. [one EXCEPT !.told = told] = [from |-> e.from, seen |-> seen, told |-> told]
    BY <1>1
<1> QED BY <1>2, <1>3

LEMMA PagesOfBook ==
    ASSUME NEW b \in Seq(Entry)
    PROVE  /\ Pages(b) \in Seq(Page) /\ Len(Pages(b)) = Len(b)
           /\ \A v \in 1 .. Len(b) : Pages(b)[v] = Shown(b[v])
<1>1. Len(b) \in Nat /\ DOMAIN b = 1 .. Len(b) /\ \A v \in 1 .. Len(b) : b[v] \in Entry
    BY LenProperties, ElementOfSeq
<1>2. \A v \in 1 .. Len(b) : Shown(b[v]) \in Page
    BY <1>1 DEF Shown, Entry, Page
<1>3. Pages(b) \in [1 .. Len(b) -> Page]
    BY <1>1, <1>2 DEF Pages
<1>4. Pages(b) \in Seq(Page)
    BY <1>1, <1>3
<1>5. Len(Pages(b)) = Len(b)
    <2> DEFINE p == Pages(b)
    <2> HIDE DEF p
    <2>1. DOMAIN p = 1 .. Len(p) /\ Len(p) \in Nat
        BY <1>4, LenProperties DEF p
    <2>2. DOMAIN p = 1 .. Len(b)
        BY <1>3 DEF p
    <2>3. \A i, j \in Nat : 1 .. i = 1 .. j => i = j
        <3> SUFFICES ASSUME NEW i \in Nat, NEW j \in Nat, 1 .. i = 1 .. j, i < j PROVE FALSE
            OBVIOUS
        <3>1. j \in 1 .. j /\ j \notin 1 .. i
            OBVIOUS
        <3> QED BY <3>1
    <2>4. Len(p) = Len(b)
        BY <1>1, <2>1, <2>2, <2>3
    <2> QED BY <2>4 DEF p
<1> QED BY <1>1, <1>4, <1>5 DEF Pages

LEMMA PagesGrow ==
    ASSUME NEW b \in Seq(Entry), NEW e \in Entry
    PROVE  Pages(Append(b, e)) = Append(Pages(b), Shown(e))
<1>1. /\ Append(b, e) \in Seq(Entry) /\ Len(Append(b, e)) = Len(b) + 1
      /\ \A v \in 1 .. Len(b) : Append(b, e)[v] = b[v]
      /\ Append(b, e)[Len(b) + 1] = e
      /\ Len(b) \in Nat
    BY AppendProperties, LenProperties
<1>2. /\ Pages(b) \in Seq(Page) /\ Len(Pages(b)) = Len(b)
      /\ \A v \in 1 .. Len(b) : Pages(b)[v] = Shown(b[v])
    BY PagesOfBook
<1>3. /\ Pages(Append(b, e)) \in Seq(Page) /\ Len(Pages(Append(b, e))) = Len(b) + 1
      /\ \A v \in 1 .. Len(b) + 1 : Pages(Append(b, e))[v] = Shown(Append(b, e)[v])
    BY <1>1, PagesOfBook
<1>4. Shown(e) \in Page
    BY DEF Shown, Entry, Page
<1>5. /\ Append(Pages(b), Shown(e)) \in Seq(Page)
      /\ Len(Append(Pages(b), Shown(e))) = Len(b) + 1
      /\ \A v \in 1 .. Len(b) : Append(Pages(b), Shown(e))[v] = Pages(b)[v]
      /\ Append(Pages(b), Shown(e))[Len(b) + 1] = Shown(e)
    BY <1>2, <1>4, AppendProperties
<1>6. \A v \in 1 .. Len(b) + 1 : Pages(Append(b, e))[v] = Append(Pages(b), Shown(e))[v]
    <2>1. ASSUME NEW v \in 1 .. Len(b)
          PROVE  Pages(Append(b, e))[v] = Append(Pages(b), Shown(e))[v]
        <3>1. v \in 1 .. Len(b) + 1
            BY <1>1
        <3> QED BY <1>1, <1>2, <1>3, <1>5, <3>1
    <2>2. Pages(Append(b, e))[Len(b) + 1] = Append(Pages(b), Shown(e))[Len(b) + 1]
        BY <1>1, <1>3, <1>5
    <2>3. \A v \in 1 .. Len(b) + 1 : v \in 1 .. Len(b) \/ v = Len(b) + 1
        BY <1>1
    <2> QED BY <2>1, <2>2, <2>3
<1> QED BY <1>3, <1>5, <1>6, SeqEqual

LEMMA PageChanges ==
    ASSUME NEW b \in Seq(Entry), NEW v \in 1 .. Len(b), NEW e \in Entry
    PROVE  Pages([b EXCEPT ![v] = e]) = [Pages(b) EXCEPT ![v] = Shown(e)]
<1>1. DOMAIN b = 1 .. Len(b)
    BY LenProperties
<1> QED BY <1>1 DEF Pages

-----------------------------------------------------------------------------
\* A new revision is an arming with the bar that is forming.
LEMMA ReviseArms ==
    ASSUME Inv, NEW r \in Rules, NEW d \in Definitions, Revise(r, d)
    PROVE  Promise!Arm(r)
<1>1. book' = [book EXCEPT ![r] = Append(book[r], NewRevision(d))] /\ clock \in Bars
    BY DEF Revise, Inv, Typed
<1>2. NewRevision(d) \in Entry /\ Shown(NewRevision(d)) = Promise!Revision(clock)
    <2>1. <<>> \in Seq(Receipt)
        BY EmptySeq
    <2> QED BY <1>1, <2>1 DEF NewRevision, Entry, Shown, Promise!Revision
<1>3. book \in [Rules -> Seq(Entry)] /\ book[r] \in Seq(Entry)
    BY DEF Inv, Typed
<1>4. Pages(Append(book[r], NewRevision(d))) = Append(Pages(book[r]), Promise!Revision(clock))
    BY <1>2, <1>3, PagesGrow
<1>5. book' = [x \in Rules |-> IF x = r THEN Append(book[r], NewRevision(d)) ELSE book[x]]
    BY <1>1, <1>3
<1>6. Journal' = [Journal EXCEPT ![r] = Append(Journal[r], Promise!Revision(clock))]
    <2>1. Journal' = [x \in Rules |-> Pages(book'[x])]
        BY DEF Journal, Pages
    <2>2. Journal[r] = Pages(book[r])
        BY DEF Journal
    <2>3. \A x \in Rules : Pages(book'[x]) =
            IF x = r THEN Append(Journal[r], Promise!Revision(clock)) ELSE Pages(book[x])
        BY <1>4, <1>5, <2>2
    <2> QED BY <2>1, <2>3 DEF Journal
<1> QED BY <1>1, <1>6 DEF Promise!Arm, Journal, Pages, Shown

(* The revision of r in force looks at its next bar, and tells the owner    *)
(* just when that bar crosses.                                              *)
Looks(r, met) ==
    LET v == Rev(r)
        now == book[r][v]
        n == Len(now.seen)
        bar == now.from + n
        crosses == n # 0 /\ ~now.seen[n].met /\ met
    IN  /\ InForce(r) /\ v \in 1 .. Len(book[r]) /\ now \in Entry
        /\ now.told = {} /\ bar \in Bars
        /\ book' = [book EXCEPT ![r][v] =
              [now EXCEPT !.seen = Append(now.seen, [bar |-> bar, met |-> met]),
                          !.told = IF crosses THEN {bar} ELSE {}]]

LEMMA CompleteLooks ==
    ASSUME Inv, NEW l \in Lanes, NEW met \in BOOLEAN, Complete(l, met)
    PROVE  lane[l].rule \in Rules /\ Looks(lane[l].rule, met)
<1> DEFINE r == lane[l].rule
           v == Rev(r)
           now == book[r][v]
           n == Len(now.seen)
           bar == now.from + n
           crosses == n # 0 /\ ~now.seen[n].met /\ met
           next == Evaluated(r, StateInForce(lane[l].row, lane[l].rev), met)
           seen == Append(now.seen, [bar |-> bar, met |-> met])
<1>1. /\ r \in Rules /\ InForce(r) /\ v \in 1 .. Len(book[r]) /\ now \in Entry /\ now.told = {}
      /\ bar \in Bars
      /\ next = [cursor |-> bar, eligible |-> met, triggered |-> crosses]
    BY Completion
<1>2. book' = [book EXCEPT ![r][v] =
         [now EXCEPT !.seen = Append(now.seen, [bar |-> next.cursor, met |-> met]),
              !.told = IF next.triggered THEN now.told \cup {next.cursor} ELSE now.told]]
    BY DEF Complete
<1> HIDE DEF now, bar, crosses, next
<1>3. next.cursor = bar /\ next.triggered = crosses
    BY <1>1
<1>4. (IF next.triggered THEN now.told \cup {next.cursor} ELSE now.told)
        = IF crosses THEN {bar} ELSE {}
    BY <1>1, <1>3
<1>5. book' = [book EXCEPT ![r][v] = [now EXCEPT !.seen = seen,
                                                 !.told = IF crosses THEN {bar} ELSE {}]]
    BY <1>2, <1>3, <1>4
<1> QED BY <1>1, <1>5 DEF Looks, now, bar, crosses

\* A completion is an observation of the revision's next bar.
LEMMA CompleteObserves ==
    ASSUME Inv, NEW l \in Lanes, NEW met \in BOOLEAN, Complete(l, met)
    PROVE  \E r \in Rules : Promise!Observe(r, met)
<1> DEFINE r == lane[l].rule
           v == Rev(r)
           now == book[r][v]
           n == Len(now.seen)
           bar == now.from + n
           crosses == n # 0 /\ ~now.seen[n].met /\ met
           receipt == [bar |-> bar, met |-> met]
           entry == [now EXCEPT !.seen = Append(now.seen, receipt),
                                !.told = IF crosses THEN {bar} ELSE {}]
<1>1. /\ r \in Rules /\ InForce(r) /\ v \in 1 .. Len(book[r]) /\ now \in Entry /\ now.told = {}
      /\ bar \in Bars
    BY CompleteLooks DEF Looks
<1>2. book' = [book EXCEPT ![r][v] = entry]
    BY CompleteLooks DEF Looks
<1> HIDE DEF r, v, n, now, bar, crosses, receipt, entry
<1>3. /\ book \in [Rules -> Seq(Entry)] /\ book[r] \in Seq(Entry) /\ now.seen \in Seq(Receipt)
      /\ n \in Nat /\ n = Len(now.seen)
    <2>1. book \in [Rules -> Seq(Entry)] /\ book[r] \in Seq(Entry) /\ now.seen \in Seq(Receipt)
        BY <1>1 DEF Inv, Typed, Entry
    <2> QED BY <2>1, LenProperties DEF n
<1>4. entry \in Entry /\ Shown(entry) = [Shown(now) EXCEPT !.seen = Append(Shown(now).seen, receipt),
                                                     !.told = IF crosses THEN {bar} ELSE {}]
    <2>1. receipt \in Receipt
        BY <1>1 DEF receipt, Receipt
    <2>2. Append(now.seen, receipt) \in Seq(Receipt)
        BY <1>3, <2>1, AppendProperties
    <2>3. (IF crosses THEN {bar} ELSE {}) \in SUBSET Bars
        BY <1>1
    <2> DEFINE seen == Append(now.seen, receipt)
               told == IF crosses THEN {bar} ELSE {}
    <2>4. entry = [now EXCEPT !.seen = seen, !.told = told] /\ now \in Entry
          /\ seen \in Seq(Receipt) /\ told \in SUBSET Bars
        BY <1>1, <2>2, <2>3 DEF entry
    <2> HIDE DEF seen, told
    <2>5. /\ entry \in Entry /\ entry.from = now.from /\ entry.seen = seen /\ entry.told = told
        BY <2>4 DEF Entry
    <2>6. Shown(now).seen = now.seen
        BY DEF Shown
    <2>7. Shown(entry) = [Shown(now) EXCEPT !.seen = seen, !.told = told]
        <3>1. Shown(entry) = [from |-> now.from, seen |-> seen, told |-> told]
            BY <2>5 DEF Shown
        <3>2. [Shown(now) EXCEPT !.seen = seen, !.told = told]
                = [from |-> now.from, seen |-> seen, told |-> told]
            BY PageExcept
        <3> QED BY <3>1, <3>2
    <2> QED BY <2>5, <2>6, <2>7 DEF seen, told
<1>5. Pages([book[r] EXCEPT ![v] = entry]) = [Pages(book[r]) EXCEPT ![v] = Shown(entry)]
    BY <1>1, <1>3, <1>4, PageChanges
<1>6. /\ Journal[r] = Pages(book[r]) /\ Len(Journal[r]) = v /\ Journal[r][v] = Shown(now)
    <2>1. Journal[r] = Pages(book[r])
        BY <1>1 DEF Journal
    <2> QED BY <1>1, <1>3, <2>1, PagesOfBook DEF Rev, v, now
<1>7. Journal' = [Journal EXCEPT ![r][v] = Shown(entry)]
    <2>1. Journal' = [x \in Rules |-> Pages(book'[x])]
        BY DEF Journal, Pages
    <2>2. \A x \in Rules : book'[x] = IF x = r THEN [book[r] EXCEPT ![v] = entry] ELSE book[x]
        BY <1>2, <1>3
    <2>3. \A x \in Rules : Pages(book'[x]) =
            IF x = r THEN [Journal[r] EXCEPT ![v] = Shown(entry)] ELSE Pages(book[x])
        BY <1>5, <1>6, <2>2
    <2> QED BY <2>1, <2>3 DEF Journal
<1>8. crosses <=> Promise!Crosses(Shown(now).seen, met)
    <2>1. Shown(now).seen = now.seen
        BY DEF Shown
    <2>2. now.seen # <<>> <=> n # 0
        BY <1>3, EmptySeq
    <2> QED BY <1>3, <2>1, <2>2 DEF Promise!Crosses, crosses
<1>9. Shown(now).from + Len(Shown(now).seen) = bar /\ Shown(now).told = {}
    BY <1>1, <1>3 DEF Shown, bar, now
<1>10. Journal' = [Journal EXCEPT ![r][v] =
           [Shown(now) EXCEPT !.seen = Append(Shown(now).seen, [bar |-> bar, met |-> met]),
                !.told = IF Promise!Crosses(Shown(now).seen, met) THEN {bar} ELSE {}]]
    BY <1>4, <1>7, <1>8 DEF receipt
<1>11. PICK x \in Rules :
       LET w == Len(Journal[x])
           page == Journal[x][w]
           at == page.from + Len(page.seen)
       IN  /\ x \in Working
           /\ page.told = {}
           /\ Journal' = [Journal EXCEPT ![x][w] =
                [page EXCEPT !.seen = Append(page.seen, [bar |-> at, met |-> met]),
                    !.told = IF Promise!Crosses(page.seen, met) THEN {at} ELSE {}]]
    BY <1>1, <1>6, <1>9, <1>10 DEF Working
<1>12. Promise!Observe(x, met)
    BY <1>11 DEF Promise!Observe, Journal, Pages, Shown, Working
<1> QED BY <1>12

\* No other step touches a book.
LEMMA PromiseStep == Inv /\ [Next]_vars => [Promise!PromiseNext]_<<Journal, Working>>
<1> SUFFICES ASSUME Inv, [Next]_vars PROVE [Promise!PromiseNext]_<<Journal, Working>>
    OBVIOUS
<1>1. Working' \in SUBSET Rules
    BY DEF Working
<1>2. ASSUME \/ UNCHANGED Journal
             \/ \E r \in Rules : Promise!Arm(r)
             \/ \E r \in Rules, met \in BOOLEAN : Promise!Observe(r, met)
      PROVE  Promise!PromiseNext
    BY <1>1, <1>2 DEF Promise!PromiseNext, Journal, Pages, Shown, Working
<1>3. ASSUME UNCHANGED book PROVE Promise!PromiseNext
    <2>1. UNCHANGED Journal
        BY <1>3 DEF Journal, Pages
    <2> QED BY <1>2, <2>1
<1>4. ASSUME NEW r \in Rules, NEW d \in Definitions, Revise(r, d) PROVE Promise!PromiseNext
    <2>1. Promise!Arm(r)
        BY <1>4, ReviseArms
    <2> QED BY <1>2, <2>1
<1>5. ASSUME UNCHANGED vars PROVE UNCHANGED book
    BY <1>5 DEF vars
<1>6. ASSUME NEW r \in Rules, NEW d \in Definitions, Create(r, d) \/ Update(r, d)
      PROVE  Promise!PromiseNext
    BY <1>4, <1>6 DEF Create, Update
<1>7. ASSUME NEW r \in Rules, Rearm(r) PROVE Promise!PromiseNext
    <2>1. Def(r) \in Definitions
        BY <1>7, InForceEntry DEF Rearm
    <2> QED BY <1>4, <1>7, <2>1 DEF Rearm
<1>8. ASSUME NEW r \in Rules, Resubmit(r) \/ Archive(r) \/ ComesDue(r) \/ LeaseExpires(r)
      PROVE  UNCHANGED book
    BY <1>8 DEF Resubmit, Archive, ComesDue, LeaseExpires
<1>9. ASSUME NEW o \in Owners, Transition(o) PROVE UNCHANGED book
    BY <1>9 DEF Transition
<1>10. ASSUME BarCloses \/ RecoverExpiredLeases PROVE UNCHANGED book
    BY <1>10 DEF BarCloses, RecoverExpiredLeases
<1>11. ASSUME NEW l \in Lanes,
              ClaimBegins(l) \/ ClaimEnds(l) \/ ClaimsNothing(l) \/ Forget(l) \/ PutOff(l)
       PROVE  UNCHANGED book
    BY <1>11 DEF ClaimBegins, ClaimEnds, ClaimsNothing, Forget, PutOff
<1>12. ASSUME NEW l \in Lanes, NEW met \in BOOLEAN, Complete(l, met) PROVE Promise!PromiseNext
    <2>1. \E r \in Rules : Promise!Observe(r, met)
        BY <1>12, CompleteObserves
    <2> QED BY <1>2, <2>1
<1>13. CASE UNCHANGED vars
    BY <1>3, <1>5, <1>13
<1>14. CASE Next
    BY <1>3, <1>6, <1>7, <1>8, <1>9, <1>10, <1>11, <1>12, <1>14 DEF Next
<1> QED BY <1>13, <1>14

(* Whatever lane takes over whose lease, however stale its snapshot, and    *)
(* whenever its owner edits, rearms or loses authorization: each revision   *)
(* sees its bars in order from the one it was armed at and none twice, its  *)
(* owner is told of its first crossing and of no other, and a revision once *)
(* replaced sees no more.                                                   *)
THEOREM ImplementsPromise == Spec => KeepsWatch
<1>1. Init => Promise!PromiseInit
    <2> SUFFICES ASSUME Init PROVE Promise!PromiseInit
        OBVIOUS
    <2>1. Working = {}
        BY DEF Init, NoRule, Working, InForce
    <2>2. Journal = [r \in Rules |-> <<>>]
        BY DEF Init, Journal, Pages
    <2> QED BY <2>1, <2>2 DEF Promise!PromiseInit, Journal, Pages, Shown, Working
<1>2. Spec => [][Promise!PromiseNext]_<<Journal, Working>>
    BY PromiseStep, Invariant, PTL DEF Spec
<1> QED BY <1>1, <1>2, PTL
    DEF Spec, KeepsWatch, Promise!PromiseSpec, Journal, Pages, Shown, Working

-----------------------------------------------------------------------------
(* What becomes of the books: nothing, a new revision, or a look.           *)
LEMMA BookMoves ==
    ASSUME Inv, [Next]_vars
    PROVE  \/ UNCHANGED book
           \/ /\ clock \in Bars
              /\ \E r \in Rules, d \in Definitions :
                   book' = [book EXCEPT ![r] = Append(book[r], NewRevision(d))]
           \/ \E r \in Rules, met \in BOOLEAN : Looks(r, met)
<1>1. CASE UNCHANGED vars
    BY <1>1 DEF vars
<1>2. ASSUME NEW r \in Rules, NEW d \in Definitions, Revise(r, d)
      PROVE  clock \in Bars /\ book' = [book EXCEPT ![r] = Append(book[r], NewRevision(d))]
    BY <1>2 DEF Revise, Inv, Typed
<1>3. ASSUME NEW r \in Rules, Rearm(r) PROVE Def(r) \in Definitions /\ Revise(r, Def(r))
    BY <1>3, InForceEntry DEF Rearm
<1>4. CASE \E r \in Rules : Resubmit(r) \/ Archive(r) \/ ComesDue(r) \/ LeaseExpires(r)
    BY <1>4 DEF Resubmit, Archive, ComesDue, LeaseExpires
<1>5. CASE (\E o \in Owners : Transition(o)) \/ BarCloses \/ RecoverExpiredLeases
    BY <1>5 DEF Transition, BarCloses, RecoverExpiredLeases
<1>6. CASE \E l \in Lanes :
             ClaimBegins(l) \/ ClaimEnds(l) \/ ClaimsNothing(l) \/ Forget(l) \/ PutOff(l)
    BY <1>6 DEF ClaimBegins, ClaimEnds, ClaimsNothing, Forget, PutOff
<1>7. CASE \E l \in Lanes, met \in BOOLEAN : Complete(l, met)
    BY <1>7, CompleteLooks
<1>8. CASE \E r \in Rules, d \in Definitions : Create(r, d) \/ Update(r, d)
    BY <1>2, <1>8 DEF Create, Update
<1>9. CASE \E r \in Rules : Rearm(r)
    BY <1>2, <1>3, <1>9
<1> QED BY <1>1, <1>4, <1>5, <1>6, <1>7, <1>8, <1>9 DEF Next

(* A revision that has crossed nothing and looks at its next bar.           *)
LEMMA WatchedLooks ==
    ASSUME NEW e \in Entry, Watched(e), e.told = {}, NEW met \in BOOLEAN,
           NEW n, n = Len(e.seen), NEW bar, bar = e.from + n, bar \in Bars,
           NEW crosses, crosses = (n # 0 /\ ~e.seen[n].met /\ met)
    PROVE  Watched([e EXCEPT !.seen = Append(e.seen, [bar |-> bar, met |-> met]),
                             !.told = IF crosses THEN {bar} ELSE {}])
<1> DEFINE receipt == [bar |-> bar, met |-> met]
           seen == Append(e.seen, receipt)
           told == IF crosses THEN {bar} ELSE {}
           next == [e EXCEPT !.seen = seen, !.told = told]
<1>1. /\ n \in Nat /\ e.from \in Nat
      /\ Len(seen) = n + 1 /\ seen[n + 1] = receipt
      /\ \A i \in 1 .. n : seen[i] = e.seen[i]
    <2>1. e.seen \in Seq(Receipt) /\ receipt \in Receipt /\ e.from \in Nat
        BY DEF Entry, Receipt, Bars
    <2> QED BY <2>1, AppendProperties, LenProperties
<1>2. next.seen = seen /\ next.told = told /\ next.from = e.from
    BY DEF Entry
<1>3. receipt.bar = bar /\ receipt.met = met
    OBVIOUS
<1> HIDE DEF receipt, seen, told, next
<1>4. \A i \in 1 .. n + 1 : seen[i].bar = e.from + i - 1
    <2>1. \A i \in 1 .. n : seen[i].bar = e.from + i - 1
        BY <1>1 DEF Watched
    <2>2. seen[n + 1].bar = e.from + (n + 1) - 1
        BY <1>1, <1>3
    <2> QED BY <1>1, <2>1, <2>2
<1>5. \A i \in 2 .. n : ~Crossed(seen, i)
    <2>1. \A i \in 2 .. n : ~Crossed(e.seen, i)
        BY DEF Watched
    <2>2. \A i \in 2 .. n : i \in 1 .. n /\ i - 1 \in 1 .. n
        BY <1>1
    <2> QED BY <1>1, <2>1, <2>2 DEF Crossed
<1>6. n + 1 \in 2 .. n + 1 => (Crossed(seen, n + 1) <=> crosses)
    <2> SUFFICES ASSUME n # 0 PROVE Crossed(seen, n + 1) <=> crosses
        BY <1>1
    <2>1. (n + 1) - 1 = n /\ n \in 1 .. n
        BY <1>1
    <2>2. seen[(n + 1) - 1] = e.seen[n] /\ seen[n + 1].met = met
        BY <1>1, <1>3, <2>1
    <2>3. Crossed(seen, n + 1) <=> ~e.seen[n].met /\ met
        BY <2>2 DEF Crossed
    <2> QED BY <2>3
<1>7. n + 1 \in 2 .. n + 1 <=> n # 0
    BY <1>1
<1>8. \A i \in 2 .. n + 1 : Crossed(seen, i) => i = n + 1 /\ crosses
    BY <1>1, <1>5, <1>6
<1>9. told = {seen[i].bar : i \in {j \in 2 .. n + 1 : Crossed(seen, j)}}
    <2>1. CASE crosses
        <3>1. {j \in 2 .. n + 1 : Crossed(seen, j)} = {n + 1}
            BY <1>6, <1>7, <1>8, <2>1
        <3> QED BY <1>1, <1>3, <2>1, <3>1 DEF told
    <2>2. CASE ~crosses
        <3>1. {j \in 2 .. n + 1 : Crossed(seen, j)} = {}
            BY <1>8, <2>2
        <3> QED BY <2>2, <3>1 DEF told
    <2> QED BY <2>1, <2>2
<1>10. Watched(next)
    BY <1>1, <1>2, <1>4, <1>8, <1>9 DEF Watched
<1> QED BY <1>10 DEF next, told, seen, receipt

LEMMA WatchedInductive ==
    ASSUME Inv, ToldOfFirstCrossing, [Next]_vars
    PROVE  ToldOfFirstCrossing'
<1> SUFFICES ASSUME NEW x \in Rules, NEW w \in 1 .. Len(book'[x]) PROVE Watched(book'[x][w])
    BY DEF ToldOfFirstCrossing, Rev, Watched, Crossed
<1>1. book \in [Rules -> Seq(Entry)] /\ \A r \in Rules : Len(book[r]) \in Nat
    BY LenProperties DEF Inv, Typed
<1>2. \A v \in 1 .. Len(book[x]) : Watched(book[x][v])
    BY DEF ToldOfFirstCrossing, Rev
<1>3. CASE UNCHANGED book
    BY <1>2, <1>3
<1>4. ASSUME NEW r \in Rules, NEW d \in Definitions, clock \in Bars,
             book' = [book EXCEPT ![r] = Append(book[r], NewRevision(d))]
      PROVE  Watched(book'[x][w])
    <2>1. CASE x # r
        BY <1>1, <1>2, <1>4, <2>1
    <2>2. CASE x = r
        <3>1. NewRevision(d) \in Entry /\ Watched(NewRevision(d))
            <4>1. <<>> \in Seq(Receipt) /\ Len(<<>>) = 0
                BY EmptySeq
            <4> QED BY <1>4, <4>1 DEF NewRevision, Entry, Watched
        <3>2. book'[x] = Append(book[x], NewRevision(d)) /\ book[x] \in Seq(Entry)
            BY <1>1, <1>4, <2>2
        <3>3. /\ Len(book'[x]) = Len(book[x]) + 1
              /\ \A v \in 1 .. Len(book[x]) : book'[x][v] = book[x][v]
              /\ book'[x][Len(book[x]) + 1] = NewRevision(d)
            BY <3>1, <3>2, AppendProperties
        <3>4. w \in 1 .. Len(book[x]) \/ w = Len(book[x]) + 1
            BY <1>1, <3>3
        <3> QED BY <1>2, <3>1, <3>3, <3>4
    <2> QED BY <2>1, <2>2
<1>5. ASSUME NEW r \in Rules, NEW met \in BOOLEAN, Looks(r, met) PROVE Watched(book'[x][w])
    <2> DEFINE v == Rev(r)
               now == book[r][v]
               n == Len(now.seen)
               bar == now.from + n
               crosses == n # 0 /\ ~now.seen[n].met /\ met
               next == [now EXCEPT !.seen = Append(now.seen, [bar |-> bar, met |-> met]),
                                   !.told = IF crosses THEN {bar} ELSE {}]
    <2>1. /\ v \in 1 .. Len(book[r]) /\ now \in Entry /\ now.told = {} /\ bar \in Bars
          /\ book' = [book EXCEPT ![r][v] = next]
        BY <1>5 DEF Looks
    <2>2. Watched(now)
        BY <2>1 DEF ToldOfFirstCrossing, Rev
    <2>3. Watched(next)
        <3> HIDE DEF now
        <3>1. QED
            BY <2>1, <2>2, WatchedLooks
    <2> HIDE DEF next, v
    <2>4. /\ \A y \in Rules : y # r => book'[y] = book[y]
          /\ book'[r] = [book[r] EXCEPT ![v] = next]
        BY <1>1, <2>1
    <2>5. DOMAIN book[r] = 1 .. Len(book[r])
        BY <1>1, LenProperties
    <2>6. CASE x # r
        BY <1>2, <2>4, <2>6
    <2>7. CASE x = r
        <3>1. Len(book'[r]) = Len(book[r])
            BY <2>4, <1>1, <2>5
        <3>2. book'[r][w] = IF w = v THEN next ELSE book[r][w]
            BY <2>4, <2>5, <2>7, <3>1
        <3> QED BY <1>2, <2>3, <2>7, <3>1, <3>2
    <2> QED BY <2>6, <2>7
<1> QED BY <1>3, <1>4, <1>5, BookMoves

(* However claims cross, expire and complete late, and whatever the owner   *)
(* edits meanwhile: no bar is left out or looked at twice by a revision, and*)
(* its owner is told of its first crossing and of nothing else.             *)
THEOREM FirstCrossingTold == Spec => []ToldOfFirstCrossing
<1>1. Init => ToldOfFirstCrossing
    <2> SUFFICES ASSUME Init, NEW r \in Rules PROVE 1 .. Rev(r) = {}
        BY DEF ToldOfFirstCrossing
    <2>1. Rev(r) = 0
        BY EmptySeq DEF Init, Rev
    <2> QED BY <2>1
<1>2. Inv /\ ToldOfFirstCrossing /\ [Next]_vars => ToldOfFirstCrossing'
    BY WatchedInductive
<1> QED BY <1>1, <1>2, Invariant, PTL DEF Spec

(* A claim made before an edit, or before its owner lost the right to act,  *)
(* adds nothing to what was replaced or suspended.                          *)
THEOREM ReplacedSeesNoMore == Spec => OnlyInForceSees
<1> DEFINE A == \A r \in Rules :
                   /\ Len(book'[r]) >= Rev(r)
                   /\ \A v \in 1 .. Rev(r) :
                         book'[r][v] # book[r][v] =>
                            v = Rev(r) /\ v = Len(book'[r]) /\ InForce(r)
<1>1. ASSUME Inv, [Next]_vars PROVE A
    <2> SUFFICES ASSUME NEW x \in Rules
                 PROVE  /\ Len(book'[x]) >= Rev(x)
                        /\ \A v \in 1 .. Rev(x) :
                              book'[x][v] # book[x][v] =>
                                 v = Rev(x) /\ v = Len(book'[x]) /\ InForce(x)
        OBVIOUS
    <2>1. book \in [Rules -> Seq(Entry)] /\ Len(book[x]) \in Nat /\ book[x] \in Seq(Entry)
        BY <1>1, LenProperties DEF Inv, Typed
    <2>2. CASE book'[x] = book[x]
        BY <2>1, <2>2 DEF Rev
    <2>3. ASSUME NEW d \in Definitions, clock \in Bars,
                 book'[x] = Append(book[x], NewRevision(d))
          PROVE  /\ Len(book'[x]) >= Rev(x)
                 /\ \A v \in 1 .. Rev(x) : book'[x][v] = book[x][v]
        <3>1. NewRevision(d) \in Entry
            <4>1. <<>> \in Seq(Receipt)
                BY EmptySeq
            <4> QED BY <2>3, <4>1 DEF NewRevision, Entry
        <3> QED BY <2>1, <2>3, <3>1, AppendProperties DEF Rev
    <2>4. ASSUME NEW e, InForce(x), Rev(x) \in 1 .. Len(book[x]),
                 book'[x] = [book[x] EXCEPT ![Rev(x)] = e]
          PROVE  /\ Len(book'[x]) >= Rev(x)
                 /\ \A v \in 1 .. Rev(x) :
                       book'[x][v] # book[x][v] =>
                          v = Rev(x) /\ v = Len(book'[x]) /\ InForce(x)
        <3>1. DOMAIN book[x] = 1 .. Len(book[x])
            BY <2>1, LenProperties
        <3>2. Len(book'[x]) = Len(book[x])
            <4>1. book[x] \in Seq(Entry \cup {e}) /\ e \in Entry \cup {e}
                BY <2>1, SeqMonotonic
            <4>2. Rev(x) \in 1 .. Len(book[x])
                BY <2>4 DEF Rev
            <4>3. Len([book[x] EXCEPT ![Rev(x)] = e]) = Len(book[x])
                BY <4>1, <4>2, ExceptSeq
            <4> QED BY <2>4, <4>3
        <3>3. \A v \in 1 .. Rev(x) : v # Rev(x) => book'[x][v] = book[x][v]
            BY <2>4, <3>1 DEF Rev
        <3>4. Rev(x) = Len(book'[x]) /\ Len(book'[x]) >= Rev(x)
            BY <2>1, <3>2 DEF Rev
        <3> QED BY <2>4, <3>3, <3>4
    <2>5. ASSUME NEW r \in Rules, NEW d \in Definitions,
                 book' = [book EXCEPT ![r] = Append(book[r], NewRevision(d))]
          PROVE  book'[x] = book[x] \/ book'[x] = Append(book[x], NewRevision(d))
        BY <2>1, <2>5
    <2>6. ASSUME NEW r \in Rules, NEW met \in BOOLEAN, Looks(r, met)
          PROVE  \/ book'[x] = book[x]
                 \/ /\ InForce(x) /\ Rev(x) \in 1 .. Len(book[x])
                    /\ \E e : book'[x] = [book[x] EXCEPT ![Rev(x)] = e]
        <3>1. InForce(r) /\ Rev(r) \in 1 .. Len(book[r]) /\ \E e : book' = [book EXCEPT ![r][Rev(r)] = e]
            BY <2>6 DEF Looks
        <3> QED BY <2>1, <3>1
    <2> QED BY <1>1, <2>2, <2>3, <2>4, <2>5, <2>6, BookMoves
<1> HIDE DEF A
<1>2. Spec => [][A]_vars
    BY <1>1, Invariant, PTL DEF Spec
<1> QED BY <1>2 DEF A, OnlyInForceSees
=============================================================================
