--------------------------- MODULE CommandPromise ---------------------------
(***************************************************************************)
(* What the executor queue promises the client of a command, with no queue, *)
(* lease, fence or receipt in sight (docs/adr/0001, docs/PAPER_PORTFOLIOS): *)
(* every accepted command is answered once and for good; a mutation takes   *)
(* effect at most once for its owner and idempotency key, and only while    *)
(* its command awaits an answer; "applied" means the effect is in place;    *)
(* "rejected" means it is not and never will be; "exhausted" says only that *)
(* the executor gave up.                                                    *)
(***************************************************************************)
CONSTANTS Commands, Slots, None

VARIABLES
    slot,    \* slot[c]: the owner and idempotency key command c was accepted for
    mutates, \* mutates[c]: whether c is a mutation, or only reads
    answer,  \* answer[c]: what the client of c can read
    done     \* the commands whose mutation took effect

vars == <<slot, mutates, answer, done>>

Init ==
    /\ slot = [c \in Commands |-> None]
    /\ mutates = [c \in Commands |-> FALSE]
    /\ answer = [c \in Commands |-> "none"]
    /\ done = {}

Accept(c, s, m) ==
    /\ answer[c] = "none"
    /\ slot' = [slot EXCEPT ![c] = s]
    /\ mutates' = [mutates EXCEPT ![c] = m]
    /\ answer' = [answer EXCEPT ![c] = "pending"]
    /\ UNCHANGED done

TakeEffect(c) ==
    /\ answer[c] = "pending" /\ mutates[c]
    /\ \A d \in done : slot[d] # slot[c]
    /\ done' = done \cup {c}
    /\ UNCHANGED <<slot, mutates, answer>>

Answer(c, a) ==
    /\ answer[c] = "pending"
    /\ a = "applied" => (mutates[c] => c \in done)
    /\ a = "rejected" => c \notin done
    /\ answer' = [answer EXCEPT ![c] = a]
    /\ UNCHANGED <<slot, mutates, done>>

(* The executor may give up several commands at once.                       *)
GiveUp(S) ==
    /\ \A c \in S : answer[c] = "pending"
    /\ answer' = [c \in Commands |-> IF c \in S THEN "exhausted" ELSE answer[c]]
    /\ UNCHANGED <<slot, mutates, done>>

Next ==
    \/ \E c \in Commands :
          \/ \E s \in Slots, m \in BOOLEAN : Accept(c, s, m)
          \/ TakeEffect(c)
          \/ \E a \in {"applied", "rejected"} : Answer(c, a)
    \/ \E S \in SUBSET Commands : GiveUp(S)

Spec == Init /\ [][Next]_vars
=============================================================================
