---------------------------- MODULE ExecutorRows ----------------------------
(***************************************************************************)
(* The PostgreSQL table executor_commands and the single-statement          *)
(* transactions PostgresExecutorCommandRepository runs on it                *)
(* (backend/src/database/executorCommands.ts).                              *)
(*                                                                          *)
(* Abstractions.  A lease is a Boolean: leased holds while                  *)
(* lease_expires_at lies in the future of the database clock, and           *)
(* ExpireLease is the passing of that instant.  The CHECK constraint        *)
(* lease_generation = attempt makes one number serve for both, and a token  *)
(* drawn afresh by every claim is as distinct as the generation it comes    *)
(* with, so a fence is the pair <<command, attempt>>.  created_at and       *)
(* terminal_at are ranks: only their order among rows is ever read.         *)
(***************************************************************************)
EXTENDS Naturals, FiniteSets

CONSTANTS
    Commands,     \* command identifiers randomUUID may draw
    Owners, Keys, \* owner_user_id and idempotency_key
    Hashes,       \* request_hash: the digest of the validated request
    Receipts,     \* digests an executor may report as sqlite_receipt_hash
    None,         \* SQL NULL
    MaxAttempts,  \* max_attempts, fixed when the row is inserted
    MaxActive,    \* options.maxActivePerOwner
    MaxTerminal,  \* options.maxTerminalPerOwner
    RecoverBatch  \* EXHAUSTED_RECOVERY_BATCH_SIZE

Codes == {"executor", "exhausted"}  \* error_code of a rejected row

ASSUME RowsAssumption ==
    /\ IsFiniteSet(Commands)
    /\ MaxAttempts \in Nat \ {0}
    /\ MaxActive \in Nat \ {0}
    /\ MaxTerminal \in Nat
    /\ RecoverBatch \in Nat \ {0}
    /\ None \notin Owners \cup Keys \cup Hashes \cup Receipts \cup Codes

VARIABLES
    row,      \* row[c]: the row of command c; status "none" before it is
              \* inserted and "pruned" once retention has deleted it
    arrivals, \* the latest created_at handed out
    endings   \* the latest terminal_at handed out

Active   == {"queued", "applying"}
Terminal == {"applied", "rejected"}
Stored   == Active \cup Terminal

(* authorization_revision, which is durable, and authorization_epoch, which *)
(* lives in the process that issued it.                                     *)
Authorization == [revision : Nat, epoch : Nat]

NoAuth == [revision |-> 0, epoch |-> 0]

Row == [status   : Stored \cup {"none", "pruned"},
        owner    : Owners \cup {None},
        key      : Keys \cup {None},
        hash     : Hashes \cup {None},
        auth     : Authorization,    \* of the principal that submitted it
        attempt  : 0 .. MaxAttempts, \* attempt = lease_generation
        leased   : BOOLEAN,
        created  : Nat,
        ended    : Nat,
        receipt  : Receipts \cup {None},
        code     : Codes \cup {None}]

NoRow == [status |-> "none", owner |-> None, key |-> None, hash |-> None,
          auth |-> NoAuth, attempt |-> 0, leased |-> FALSE, created |-> 0,
          ended |-> 0, receipt |-> None, code |-> None]

RowsTypeOK == row \in [Commands -> Row] /\ arrivals \in Nat /\ endings \in Nat

RowsInit == row = [c \in Commands |-> NoRow] /\ arrivals = 0 /\ endings = 0

RowsOf(o, S) == {c \in Commands : row[c].owner = o /\ row[c].status \in S}

-----------------------------------------------------------------------------
(* Retention: the terminal rows of o that ended at or before the cut t      *)
(* (older than terminalRetentionMs), and those with MaxTerminal newer ones. *)
(* A batch that is full leaves the youngest of the old, as a lower cut does;*)
(* it exceeds what an owner can finish between two enqueues.                *)
PruneVictims(o, t) ==
    LET done == RowsOf(o, Terminal)
    IN  {c \in done :
           \/ row[c].ended <= t
           \/ Cardinality({d \in done : row[d].ended > row[c].ended}) >= MaxTerminal}

(* A deleted row leaves only what properties recall of it.                  *)
Remembered(r) ==
    [NoRow EXCEPT !.status = "pruned", !.owner = r.owner, !.key = r.key,
                  !.hash = r.hash, !.code = r.code, !.receipt = r.receipt]

AfterPrune(o, t) ==
    [c \in Commands |-> IF c \in PruneVictims(o, t)
                        THEN Remembered(row[c]) ELSE row[c]]

Prune(o, t) == row' = AfterPrune(o, t) /\ UNCHANGED <<arrivals, endings>>

(* One enqueue transaction: prune, then replay the row stored under the     *)
(* same key and hash, or insert under the capacity.  A key stored with      *)
(* another hash, or a full owner, rolls the whole transaction back.         *)
StoredUnder(o, k, kept) ==
    {c \in Commands : kept[c].owner = o /\ kept[c].key = k /\ kept[c].status \in Stored}

QueuedRow(o, k, h, a, now) ==
    [NoRow EXCEPT !.status = "queued", !.owner = o, !.key = k, !.hash = h,
                  !.auth = a, !.created = now]

Insert(o, k, h, a, t) ==
    LET kept == AfterPrune(o, t)
    IN  /\ StoredUnder(o, k, kept) = {}
        /\ Cardinality(RowsOf(o, Active)) < MaxActive
        /\ arrivals' = arrivals + 1
        /\ \E c \in Commands :
              /\ row[c].status = "none"
              /\ row' = [kept EXCEPT ![c] = QueuedRow(o, k, h, a, arrivals + 1)]
        /\ UNCHANGED endings

Replay(o, k, h, t) ==
    LET kept == AfterPrune(o, t)
    IN  /\ \E c \in StoredUnder(o, k, kept) : kept[c].hash = h
        /\ row' = kept
        /\ UNCHANGED <<arrivals, endings>>

Enqueue(o, k, h, a, t) == Insert(o, k, h, a, t) \/ Replay(o, k, h, t)

-----------------------------------------------------------------------------
(* Claiming: expired applications first, then queued commands of owners     *)
(* with nothing applying, oldest first.                                     *)
Expired(c) == row[c].status = "applying" /\ ~row[c].leased

(* Mutants: no attempt limit; an expired application is not reclaimed.      *)
ClaimableWithoutLimit(c) ==
    \/ Expired(c)
    \/ row[c].status = "queued" /\ RowsOf(row[c].owner, {"applying"}) = {}

ClaimableOnce(c) ==
    /\ row[c].attempt < MaxAttempts
    /\ row[c].status = "queued" /\ RowsOf(row[c].owner, {"applying"}) = {}

Claimable(c) ==
    /\ row[c].attempt < MaxAttempts
    /\ \/ Expired(c)
       \/ row[c].status = "queued" /\ RowsOf(row[c].owner, {"applying"}) = {}

Before(c, d) ==
    \/ row[c].status = "applying" /\ row[d].status = "queued"
    \/ row[c].status = row[d].status /\ row[c].created < row[d].created

FirstClaimable(c, free) ==
    /\ c \in free
    /\ Claimable(c)
    /\ \A d \in free \ {c} : Claimable(d) => Before(c, d)

Granted(c) == [row EXCEPT ![c].status = "applying",
                          ![c].attempt = @ + 1,
                          ![c].leased = TRUE]

ExpireLease(c) ==
    /\ row[c].leased
    /\ row' = [row EXCEPT ![c].leased = FALSE]
    /\ UNCHANGED <<arrivals, endings>>

-----------------------------------------------------------------------------
(* Deciding a claimed command.  The UPDATE matches only the row that still  *)
(* carries the presented fence under an unexpired lease.                    *)
(* Mutants: the generation is not compared; only the generation is.         *)
FenceWithoutGeneration(c, g) == row[c].status = "applying" /\ row[c].leased
FenceByGenerationOnly(c, g)  == row[c].attempt = g

FenceHolds(c, g) == row[c].status = "applying" /\ row[c].attempt = g /\ row[c].leased

AckApplied(c, g, r) ==
    /\ FenceHolds(c, g)
    /\ endings' = endings + 1
    /\ UNCHANGED arrivals
    /\ row' = [row EXCEPT ![c].status = "applied", ![c].receipt = r,
                          ![c].leased = FALSE, ![c].ended = endings + 1]

AckRejected(c, g) ==
    /\ FenceHolds(c, g)
    /\ endings' = endings + 1
    /\ UNCHANGED arrivals
    /\ row' = [row EXCEPT ![c].status = "rejected", ![c].code = "executor",
                          ![c].leased = FALSE, ![c].ended = endings + 1]

(* acknowledgeApplied with receipt r, and acknowledgeRejected for r = None. *)
Decide(c, g, r) == IF r = None THEN AckRejected(c, g) ELSE AckApplied(c, g, r)

(* recoverExpiredLeases: expired leases with no attempt left are rejected,  *)
(* at most RecoverBatch of them in one statement.                           *)
Exhausted(c) == Expired(c) /\ row[c].attempt >= MaxAttempts

RecoverExhausted(S) ==
    /\ endings' = endings + 1
    /\ UNCHANGED arrivals
    /\ row' = [c \in Commands |->
                 IF c \in S
                 THEN [row[c] EXCEPT !.status = "rejected", !.code = "exhausted",
                                     !.ended = endings + 1]
                 ELSE row[c]]

RecoverExpiredLeases ==
    LET due == {c \in Commands : Exhausted(c)}
    IN  \/ due = {} /\ UNCHANGED <<row, arrivals, endings>>
        \/ \E S \in SUBSET due :
              /\ S # {}
              /\ Cardinality(S) <= RecoverBatch
              /\ S # due => Cardinality(S) = RecoverBatch
              /\ RecoverExhausted(S)
=============================================================================
