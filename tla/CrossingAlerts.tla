---------------------------- MODULE CrossingAlerts ----------------------------
(***************************************************************************)
(* What a price alert promises its owner (docs/ALERTS.md, "Closed-candle    *)
(* semantics"): each revision of a rule looks at every closed bar from the  *)
(* one it was armed in, in order and once, and its owner is notified at the *)
(* first bar that crosses the threshold and at no other.  PriceAlerts       *)
(* implements this.                                                         *)
(***************************************************************************)
EXTENDS Naturals, Sequences

CONSTANTS Rules, Bars

VARIABLES
    journal,   \* journal[r]: the revisions of r, each with the bars it looked at
    inForce    \* the rules that are active and whose owner may act

Revision(b) == [from |-> b, seen |-> <<>>, told |-> {}]

\* The threshold is met after a bar that did not meet it.
Crosses(seen, met) == seen # <<>> /\ ~seen[Len(seen)].met /\ met

PromiseInit == journal = [r \in Rules |-> <<>>] /\ inForce = {}

\* An edit or a rearm starts afresh; the revisions before it are closed.
Arm(r) ==
    \E b \in Bars : journal' = [journal EXCEPT ![r] = Append(@, Revision(b))]

Observe(r, met) ==
    LET v   == Len(journal[r])
        now == journal[r][v]
        bar == now.from + Len(now.seen)
    IN  /\ r \in inForce
        /\ now.told = {}
        /\ journal' = [journal EXCEPT ![r][v] =
               [now EXCEPT !.seen = Append(@, [bar |-> bar, met |-> met]),
                           !.told = IF Crosses(now.seen, met) THEN {bar} ELSE {}]]

PromiseNext ==
    /\ inForce' \in SUBSET Rules
    /\ \/ UNCHANGED journal
       \/ \E r \in Rules : Arm(r) \/ \E met \in BOOLEAN : Observe(r, met)

PromiseSpec == PromiseInit /\ [][PromiseNext]_<<journal, inForce>>
=============================================================================
