---------------------------- MODULE ExecutorBridge --------------------------
(***************************************************************************)
(* The fenced executor: the command table of ExecutorRows, the singleton    *)
(* FencedExecutorBridge that claims, reconciles, authorizes, applies and    *)
(* acknowledges (backend/src/database/executorBridge.ts), and the SQLite    *)
(* receipts that paperPortfolioCommandHandler and paperPortfolioStore write *)
(* in the transaction of the mutation itself.  The process may crash        *)
(* between any two steps, either store's answer may be lost, a lease may    *)
(* run out while a callback is still at work, and an owner's authorization  *)
(* may be revoked at any moment.                                            *)
(*                                                                          *)
(* A command is a portfolio mutation, applied by one SQLite transaction, or *)
(* a read, which leaves no receipt.  Robot actions, whose runtime effect    *)
(* precedes the receipt, are not mutations in this sense.                   *)
(***************************************************************************)
EXTENDS ExecutorRows

CONSTANTS
    Reads,        \* the request hashes whose payload is a read
    Telegram,     \* the request hashes of commands of Telegram origin
    MaxReceipts,  \* PAPER_MUTATION_RECEIPT_LIMIT_PER_OWNER
    MaxEpoch,     \* bound on an owner's authorization revision and epoch
    MaxCrashes    \* bound on process crashes

(* A row of paper_portfolio_mutations.                                      *)
Receipt == [id : Commands, hash : Hashes, status : Terminal]

ASSUME BridgeAssumption ==
    /\ None \notin Receipt
    /\ Reads \subseteq Hashes /\ Telegram \subseteq Hashes
    /\ MaxReceipts \in Nat /\ MaxEpoch \in Nat /\ MaxCrashes \in Nat

VARIABLES
    bridge,   \* the pump: its phase and the claim it is executing
    receipts, \* receipts[<<o, k>>]: table paper_portfolio_mutations
    effects,  \* effects[c]: how often a mutation of c was committed (history)
    auth,     \* auth[o]: the owner's current authorization
    crashes   \* how often the process has crashed

vars == <<row, arrivals, endings, bridge, receipts, effects, auth, crashes>>

Slots == Owners \X Keys

Executing == {"probe", "authorize", "apply", "committed", "decided"}

Bridge == [pc       : Executing \cup {"down", "idle", "claiming"},
           cmd      : Commands \cup {None},
           gen      : 0 .. MaxAttempts,
           lost     : BOOLEAN,                  \* leaseState.lost, and the abort
           decision : Terminal \cup {None}]

At(phase) == [pc |-> phase, cmd |-> None, gen |-> 0, lost |-> FALSE, decision |-> None]

Permission == [revision : 0 .. MaxEpoch, epoch : 0 .. MaxEpoch]

BridgeTypeOK ==
    /\ RowsTypeOK
    /\ bridge \in Bridge
    /\ receipts \in [Slots -> Receipt \cup {None}]
    /\ effects \in [Commands -> Nat]
    /\ auth \in [Owners -> Permission]
    /\ crashes \in 0 .. MaxCrashes

Init ==
    /\ RowsInit
    /\ bridge = At("down")
    /\ receipts = [s \in Slots |-> None]
    /\ effects = [c \in Commands |-> 0]
    /\ auth = [o \in Owners |-> NoAuth]
    /\ crashes = 0

-----------------------------------------------------------------------------
Slot(c) == <<row[c].owner, row[c].key>>

IsRead(c) == row[c].hash \in Reads

ReceiptOf(c, status) == [id |-> c, hash |-> row[c].hash, status |-> status]

(* probeAppliedReceipt: an applied receipt of exactly this owner, key,      *)
(* command and request hash.  Mutant: only owner and key are compared.      *)
ProbeByKey(c) == receipts[Slot(c)] # None /\ receipts[Slot(c)].status = "applied"

ProbeFinds(c) == receipts[Slot(c)] = ReceiptOf(c, "applied")

(* No mutation was ever recorded for the owner and key.  Mutant: only a     *)
(* receipt of the same command identifier counts.                           *)
UnrecordedById(c) == receipts[Slot(c)] # None => receipts[Slot(c)].id # c

Unrecorded(c) == receipts[Slot(c)] = None

(* The revision and epoch that submitted c are still current.  A Telegram   *)
(* principal has no epoch: only its revision is compared.                   *)
(* Mutant: an owner whose revision has advanced passes.                     *)
AuthorizedOnce(c) == auth[row[c].owner].revision >= row[c].auth.revision

Authorized(c) ==
    /\ row[c].auth.revision = auth[row[c].owner].revision
    /\ row[c].hash \in Telegram \/ row[c].auth.epoch = auth[row[c].owner].epoch

(* Any process enqueues a command under the authorization of the moment; a  *)
(* principal authenticated before a change submits, in effect, before it.   *)
Submit(o, k, h, t) ==
    /\ Enqueue(o, k, h, auth[o], t)
    /\ UNCHANGED <<bridge, receipts, effects, auth, crashes>>

(* A change of role, status or password, or the end of the session: it is   *)
(* durable.  In this process it begins with MoveEpoch, whose transition     *)
(* refuses the owner; other processes revoke with no notice.                *)
Revoke(o) ==
    /\ auth[o].revision < MaxEpoch
    /\ auth' = [auth EXCEPT ![o].revision = @ + 1]
    /\ UNCHANGED <<row, arrivals, endings, bridge, receipts, effects, crashes>>

(* beginAuthorizationTransition, which a mere logout elsewhere also starts. *)
MoveEpoch(o) ==
    /\ auth[o].epoch < MaxEpoch
    /\ auth' = [auth EXCEPT ![o].epoch = @ + 1]
    /\ UNCHANGED <<row, arrivals, endings, bridge, receipts, effects, crashes>>

LeaseRunsOut(c) ==
    /\ ExpireLease(c)
    /\ UNCHANGED <<bridge, receipts, effects, auth, crashes>>

-----------------------------------------------------------------------------
(* startInternal: recover exhausted leases, then run the pump loop.         *)
Boot ==
    /\ bridge.pc = "down"
    /\ RecoverExpiredLeases
    /\ bridge' = At("idle")
    /\ UNCHANGED <<receipts, effects, auth, crashes>>

(* claim() starts with the same recovery, in a statement of its own.        *)
PumpRecover ==
    /\ bridge.pc = "idle"
    /\ RecoverExpiredLeases
    /\ bridge' = At("claiming")
    /\ UNCHANGED <<receipts, effects, auth, crashes>>

Claimed(c) ==
    [At(IF row[c].attempt > 0 THEN "probe" ELSE "authorize")
        EXCEPT !.cmd = c, !.gen = row[c].attempt + 1]

PumpClaim ==
    /\ bridge.pc = "claiming"
    /\ \E c \in Commands : /\ FirstClaimable(c, Commands)
                           /\ row' = Granted(c)
                           /\ bridge' = Claimed(c)
    /\ UNCHANGED <<arrivals, endings, receipts, effects, auth, crashes>>

(* Nothing to claim, the owner's advisory lock was busy, or the query       *)
(* failed before it committed.                                              *)
PumpNothing ==
    /\ bridge.pc = "claiming"
    /\ bridge' = At("idle")
    /\ UNCHANGED <<row, arrivals, endings, receipts, effects, auth, crashes>>

(* The claim committed and its answer was lost: nobody holds the lease.     *)
ClaimAnswerLost ==
    /\ bridge.pc = "claiming"
    /\ \E c \in Commands : FirstClaimable(c, Commands) /\ row' = Granted(c)
    /\ bridge' = At("idle")
    /\ UNCHANGED <<arrivals, endings, receipts, effects, auth, crashes>>

-----------------------------------------------------------------------------
Reach(phase)   == bridge' = [bridge EXCEPT !.pc = phase]
Conclude(kind) == bridge' = [bridge EXCEPT !.pc = "decided", !.decision = kind]

(* A reclaimed command is first reconciled with its receipt: an exact       *)
(* applied receipt decides it without any authorization.                    *)
Probe ==
    /\ bridge.pc = "probe"
    /\ IF ProbeFinds(bridge.cmd) THEN Conclude("applied") ELSE Reach("authorize")
    /\ UNCHANGED <<row, arrivals, endings, receipts, effects, auth, crashes>>

Authorize ==
    /\ bridge.pc = "authorize"
    /\ IF Authorized(bridge.cmd) THEN Reach("apply") ELSE Conclude("rejected")
    /\ UNCHANGED <<row, arrivals, endings, receipts, effects, auth, crashes>>

(* The apply callback.  It refuses to begin once aborted; a read or an      *)
(* exact applied receipt needs no transaction.                              *)
ApplyWithoutEffect ==
    /\ bridge.pc = "apply" /\ ~bridge.lost
    /\ IsRead(bridge.cmd) \/ ProbeFinds(bridge.cmd)
    /\ Reach("committed")
    /\ UNCHANGED <<row, arrivals, endings, receipts, effects, auth, crashes>>

ReceiptRoom(o) ==
    Cardinality({k \in Keys : receipts[<<o, k>>] # None}) < MaxReceipts

(* runMutation: the mutation and its applied receipt in one transaction.    *)
ApplyMutation ==
    LET c == bridge.cmd
    IN  /\ bridge.pc = "apply" /\ ~bridge.lost
        /\ ~IsRead(c)
        /\ Unrecorded(c)
        /\ ReceiptRoom(row[c].owner)
        /\ receipts' = [receipts EXCEPT ![Slot(c)] = ReceiptOf(c, "applied")]
        /\ effects' = [effects EXCEPT ![c] = @ + 1]
        /\ Reach("committed")
        /\ UNCHANGED <<row, arrivals, endings, auth, crashes>>

(* The domain refuses: the transaction rolls back and a rejected receipt is *)
(* kept, unless the table is full, the refusal came before the transaction  *)
(* or an enclosing one took it away; an earlier receipt that is rejected or *)
(* belongs to another command refuses as well.                              *)
ApplyRefused ==
    LET c == bridge.cmd
    IN  /\ bridge.pc = "apply" /\ ~bridge.lost
        /\ IsRead(c) \/ ~ProbeFinds(c)
        /\ \/ UNCHANGED receipts
           \/ /\ ~IsRead(c)
              /\ Unrecorded(c)
              /\ ReceiptRoom(row[c].owner)
              /\ receipts' = [receipts EXCEPT ![Slot(c)] = ReceiptOf(c, "rejected")]
        /\ Conclude("rejected")
        /\ UNCHANGED <<row, arrivals, endings, effects, auth, crashes>>

(* The second abort check, after the commit.                                *)
ApplyReturns ==
    /\ bridge.pc = "committed" /\ ~bridge.lost
    /\ Conclude("applied")
    /\ UNCHANGED <<row, arrivals, endings, receipts, effects, auth, crashes>>

(* maintainLease: a renewal fails, or is refused because the lease ran out. *)
LoseLease ==
    /\ bridge.pc \in Executing /\ ~bridge.lost
    /\ bridge' = [bridge EXCEPT !.lost = TRUE]
    /\ UNCHANGED <<row, arrivals, endings, receipts, effects, auth, crashes>>

(* A callback throws, the lease was lost, or the acknowledgement never      *)
(* reached PostgreSQL: the pump moves on and leaves the lease to run out.   *)
GiveUp ==
    /\ bridge.pc \in Executing
    /\ bridge' = At("idle")
    /\ UNCHANGED <<row, arrivals, endings, receipts, effects, auth, crashes>>

(* The fenced acknowledgement; one that matches no row changes nothing.     *)
Acknowledge ==
    LET c == bridge.cmd
        g == bridge.gen
    IN  /\ bridge.pc = "decided" /\ ~bridge.lost
        /\ \/ bridge.decision = "applied" /\ \E r \in Receipts : AckApplied(c, g, r)
           \/ bridge.decision = "rejected" /\ AckRejected(c, g)
           \/ ~FenceHolds(c, g) /\ UNCHANGED <<row, arrivals, endings>>
        /\ bridge' = At("idle")
        /\ UNCHANGED <<receipts, effects, auth, crashes>>

(* The process dies; both databases keep what they committed, and epochs    *)
(* start again.                                                             *)
Crash ==
    /\ bridge.pc # "down" /\ crashes < MaxCrashes
    /\ crashes' = crashes + 1
    /\ bridge' = At("down")
    /\ auth' = [o \in Owners |-> [auth[o] EXCEPT !.epoch = 0]]
    /\ UNCHANGED <<row, arrivals, endings, receipts, effects>>

-----------------------------------------------------------------------------
Callback == Probe \/ Authorize \/ ApplyWithoutEffect \/ ApplyMutation
              \/ ApplyRefused \/ ApplyReturns \/ GiveUp \/ Acknowledge

Next ==
    \/ \E o \in Owners, k \in Keys, h \in Hashes, t \in 0 .. endings : Submit(o, k, h, t)
    \/ \E o \in Owners : Revoke(o) \/ MoveEpoch(o)
    \/ \E c \in Commands : LeaseRunsOut(c)
    \/ Boot \/ PumpRecover \/ PumpClaim \/ PumpNothing \/ ClaimAnswerLost
    \/ Callback \/ LoseLease \/ Crash

(* The supervisor restarts the process, the pump loop polls for ever, a     *)
(* callback settles (shutdown apart), and an abandoned lease is not         *)
(* renewed.  Strong fairness of PumpClaim: PumpNothing may pass over a      *)
(* command while an enqueue transaction holds the owner's lock, but those   *)
(* transactions are short.                                                  *)
Abandoned(c) == ~(bridge.pc \in Executing /\ bridge.cmd = c)

Fairness ==
    /\ WF_vars(Boot) /\ WF_vars(PumpRecover) /\ WF_vars(PumpNothing)
    /\ SF_vars(PumpClaim)
    /\ WF_vars(Callback)
    /\ \A c \in Commands : WF_vars(Abandoned(c) /\ LeaseRunsOut(c))

Spec == Init /\ [][Next]_vars /\ Fairness

-----------------------------------------------------------------------------
(* A mutation takes effect at most once for an owner and idempotency key,   *)
(* through crashes, lost answers, reclaims, retention and resubmission.     *)
EffectAtMostOnce ==
    /\ \A c \in Commands : effects[c] <= 1
    /\ \A c, d \in Commands :
          c # d /\ effects[c] > 0 /\ effects[d] > 0 => Slot(c) # Slot(d)

(* SQLite holds the applied receipt of exactly this command.                *)
HasReceipt(c) ==
    LET r == receipts[Slot(c)]
    IN  r # None /\ r.status = "applied" /\ r.id = c /\ r.hash = row[c].hash

(* PostgreSQL never says "applied" of a mutation SQLite does not hold an    *)
(* exact applied receipt of.                                                *)
AppliedHasReceipt ==
    \A c \in Commands :
        row[c].status = "applied" /\ ~IsRead(c) => HasReceipt(c)

(* A rejection the executor itself acknowledged is the truth, then and for  *)
(* ever: the mutation has not been applied and never will be.               *)
RejectedByExecutorNeverApplied ==
    \A c \in Commands :
        row[c].status = "rejected" /\ row[c].code = "executor" => effects[c] = 0

(* While the executor works on a command the table still shows its claim:   *)
(* only time, never another statement, can take the fence from it.          *)
ClaimUndisturbed ==
    bridge.pc \in Executing =>
        row[bridge.cmd].status = "applying" /\ row[bridge.cmd].attempt = bridge.gen

(* Once an owner's durable authorization has moved on, a command submitted  *)
(* under the old one that is not already being applied never is: not by a   *)
(* reclaim, a retry, or a restart, which brings old epochs back.            *)
Stale(c) ==
    /\ row[c].status \in Active
    /\ auth[row[c].owner].revision # row[c].auth.revision
    /\ ~(bridge.pc \in {"apply", "committed"} /\ bridge.cmd = c)
    /\ effects[c] = 0

RevokedNeverApplies ==
    [][\A c \in Commands : Stale(c) /\ row'[c].status \in Active => Stale(c)']_vars

(* Every accepted command is answered: no crash, lost answer or revoked     *)
(* authorization leaves one queued or applying for ever.                    *)
Answered == \A c \in Commands : row[c].status \in Active ~> row[c].status \notin Active

(* What docs/adr/0001 says of a lost acknowledgement: the existing result,  *)
(* an applied receipt, is what the command ends up acknowledged with.       *)
LostAcknowledgementReconciled ==
    \A c \in Commands : row[c].status = "rejected" => ~HasReceipt(c)

(* What a client can tell of its command: the slot it was accepted for,     *)
(* whether it is a mutation, and the answer so far, which outlives the row. *)
PromisedSlot(c) == IF row[c].status = "none" THEN None ELSE Slot(c)

Mutates(c) == row[c].status # "none" /\ ~IsRead(c)

Verdict(code) == CASE code = "exhausted" -> "exhausted"
                   [] code = "executor"  -> "rejected"
                   [] OTHER              -> "applied"

AnswerOf(c) == CASE row[c].status = "none"   -> "none"
                 [] row[c].status \in Active -> "pending"
                 [] OTHER                    -> Verdict(row[c].code)

(* The executor implements the promise made to its clients.                 *)
Promise == INSTANCE CommandPromise WITH
    slot    <- [c \in Commands |-> PromisedSlot(c)],
    mutates <- [c \in Commands |-> Mutates(c)],
    answer  <- [c \in Commands |-> AnswerOf(c)],
    done    <- {c \in Commands : effects[c] > 0}

KeepsPromise == Promise!Spec
=============================================================================
