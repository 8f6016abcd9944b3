----------------------- MODULE ExecutorBridge_proofs ------------------------
(***************************************************************************)
(* Proofs about the fenced executor for any number of commands, owners,     *)
(* keys, crashes, revocations and attempts.  The argument: an effect and    *)
(* its applied receipt are one transaction, so a command has taken effect   *)
(* exactly when SQLite holds its receipt (EffectsRecorded); a claim that is *)
(* not the first is reconciled with that receipt before anything else, so a *)
(* command being authorized or applied has not taken effect (FreshApply),   *)
(* and a decision to acknowledge is backed by the receipt or by its absence *)
(* (DecisionBacked).                                                        *)
(***************************************************************************)
EXTENDS ExecutorBridge, ExecutorQueue_proofs

(* The shape of a row at each stage of its life.                            *)
RowsSane ==
    \A c \in Commands :
        /\ row[c].status # "none" => Slot(c) \in Slots /\ row[c].hash \in Hashes
        /\ row[c].status = "queued" => row[c].attempt = 0
        /\ row[c].status = "applying" => row[c].attempt > 0
        /\ row[c].status \in Active =>
              row[c].auth.revision <= auth[row[c].owner].revision /\ row[c].code = None

(* A receipt names a command that was accepted for its owner and key.       *)
ReceiptsSane ==
    \A s \in Slots :
        receipts[s] # None =>
            LET c == receipts[s].id
            IN  row[c].status # "none" /\ Slot(c) = s /\ row[c].hash = receipts[s].hash

(* A command has taken effect exactly when SQLite holds its receipt.        *)
Done(c) == row[c].status # "none" /\ HasReceipt(c)

EffectsRecorded ==
    \A c \in Commands : effects[c] = IF Done(c) THEN 1 ELSE 0

(* Only a claimed mutation takes effect.                                    *)
EffectsClaimed ==
    \A c \in Commands : Done(c) => row[c].status # "queued" /\ ~IsRead(c)

(* A command about to be authorized or applied has not taken effect.        *)
FreshApply == bridge.pc \in {"authorize", "apply"} => effects[bridge.cmd] = 0

(* A decision is backed by the receipt, or by its absence.                  *)
DecisionBacked ==
    /\ \/ bridge.pc = "committed"
       \/ bridge.pc = "decided" /\ bridge.decision = "applied"
       => IsRead(bridge.cmd) \/ HasReceipt(bridge.cmd)
    /\ bridge.pc = "decided" /\ bridge.decision = "rejected" => effects[bridge.cmd] = 0
    /\ bridge.pc = "decided" => bridge.decision \in Terminal

ExecutingCommand == bridge.pc \in Executing => bridge.cmd \in Commands

IInv ==
    /\ BridgeTypeOK
    /\ LeasedApplies
    /\ RowsSane
    /\ ReceiptsSane
    /\ EffectsRecorded
    /\ EffectsClaimed
    /\ ExecutingCommand
    /\ ClaimUndisturbed
    /\ FreshApply
    /\ DecisionBacked
    /\ AppliedHasReceipt
    /\ RejectedByExecutorNeverApplied

-----------------------------------------------------------------------------
(* An owner's authorization is one a row can carry.                         *)
LEMMA PermissionType ==
  ASSUME auth \in [Owners -> Permission]
  PROVE  \A o \in Owners : auth[o] \in Authorization /\ auth[o].revision \in 0 .. MaxEpoch
  BY BridgeAssumption DEF Permission, Authorization

(* Durable revisions only advance, whatever happens to the epochs.          *)
LEMMA AuthMoves ==
  ASSUME auth \in [Owners -> Permission],
         (\E o \in Owners : Revoke(o) \/ MoveEpoch(o)) \/ Crash
  PROVE  /\ auth' \in [Owners -> Permission]
         /\ \A p \in Owners : auth[p].revision <= auth'[p].revision
<1>0. MaxEpoch \in Nat
  BY BridgeAssumption
<1>1. ASSUME NEW o \in Owners, Revoke(o)
      PROVE  /\ auth' \in [Owners -> Permission]
             /\ \A p \in Owners : auth[p].revision <= auth'[p].revision
  <2> DEFINE new == [auth[o] EXCEPT !.revision = @ + 1]
  <2>1. auth' = [auth EXCEPT ![o] = new] /\ auth[o].revision < MaxEpoch
    BY <1>1 DEF Revoke
  <2>2. new \in Permission /\ auth[o].revision <= new.revision
    BY <1>0, <2>1 DEF Permission
  <2>3. \A p \in Owners : auth[p].revision <= auth[p].revision
    BY <1>0 DEF Permission
  <2> HIDE DEF new
  <2>4. QED BY <2>1, <2>2, <2>3
<1>2. ASSUME NEW o \in Owners, MoveEpoch(o)
      PROVE  /\ auth' \in [Owners -> Permission]
             /\ \A p \in Owners : auth[p].revision <= auth'[p].revision
  <2> DEFINE new == [auth[o] EXCEPT !.epoch = @ + 1]
  <2>1. auth' = [auth EXCEPT ![o] = new] /\ auth[o].epoch < MaxEpoch
    BY <1>2 DEF MoveEpoch
  <2>2. new \in Permission /\ auth[o].revision <= new.revision
    BY <1>0, <2>1 DEF Permission
  <2>3. \A p \in Owners : auth[p].revision <= auth[p].revision
    BY <1>0 DEF Permission
  <2> HIDE DEF new
  <2>4. QED BY <2>1, <2>2, <2>3
<1>3. CASE Crash
  <2>1. auth' = [o \in Owners |-> [auth[o] EXCEPT !.epoch = 0]]
    BY <1>3 DEF Crash
  <2>2. \A o \in Owners : /\ [auth[o] EXCEPT !.epoch = 0] \in Permission
                           /\ auth[o].revision <= [auth[o] EXCEPT !.epoch = 0].revision
    BY <1>0 DEF Permission
  <2>3. QED BY <2>1, <2>2
<1>4. QED BY <1>1, <1>2, <1>3

-----------------------------------------------------------------------------
(* The phases of the pump.                                                  *)
LEMMA AtType ==
  ASSUME NEW p \in {"down", "idle", "claiming"}
  PROVE  At(p) \in Bridge /\ At(p).pc = p
  BY RowsAssumption DEF At, Bridge

(* A phase reached without a decision keeps the claim.                      *)
LEMMA ReachType ==
  ASSUME bridge \in Bridge, NEW p \in Executing, Reach(p)
  PROVE  /\ bridge' \in Bridge /\ bridge'.pc = p
         /\ bridge'.cmd = bridge.cmd /\ bridge'.gen = bridge.gen
         /\ bridge'.decision = bridge.decision
  BY DEF Reach, Bridge

(* A decision keeps the claim it is about.                                  *)
LEMMA ConcludeType ==
  ASSUME bridge \in Bridge, NEW d \in Terminal, Conclude(d)
  PROVE  /\ bridge' \in Bridge /\ bridge'.pc = "decided" /\ bridge'.decision = d
         /\ bridge'.cmd = bridge.cmd /\ bridge'.gen = bridge.gen
  BY DEF Conclude, Bridge, Executing

(* The state after a claim: a first claim is authorized, a reclaim probed.  *)
LEMMA ClaimedType ==
  ASSUME NEW c \in Commands, row[c].attempt \in 0 .. MaxAttempts, row[c].attempt < MaxAttempts
  PROVE  /\ Claimed(c) \in Bridge
         /\ Claimed(c).pc = IF row[c].attempt > 0 THEN "probe" ELSE "authorize"
         /\ Claimed(c).cmd = c /\ Claimed(c).gen = row[c].attempt + 1
<1> DEFINE a == At(IF row[c].attempt > 0 THEN "probe" ELSE "authorize")
<1>1. a \in Bridge /\ a.pc = IF row[c].attempt > 0 THEN "probe" ELSE "authorize"
  BY RowsAssumption DEF At, Bridge, Executing
<1>2. row[c].attempt + 1 \in 0 .. MaxAttempts
  BY RowsAssumption
<1>3. Claimed(c) = [a EXCEPT !.cmd = c, !.gen = row[c].attempt + 1]
  BY DEF Claimed
<1> HIDE DEF a
<1>4. QED BY <1>1, <1>2, <1>3 DEF Bridge

-----------------------------------------------------------------------------
(* No statement ever changes whose command a row is.                        *)
Kept(d) ==
    /\ row[d].status # "none" =>
          /\ row'[d].status # "none"
          /\ row'[d].owner = row[d].owner /\ row'[d].key = row[d].key
          /\ row'[d].hash = row[d].hash
    /\ row[d].status = "none" => row'[d].status \in {"none", "queued"}
    /\ row'[d].status = "queued" => row[d].status \in {"none", "queued"}

(* An accepted command has an owner and an idempotency key.                 *)
LEMMA SlotIn ==
  ASSUME RowsSane, NEW c \in Commands, row[c].status # "none"
  PROVE  Slot(c) \in Slots
  BY DEF RowsSane

(* What holds of the two stores survives any statement on the rows alone.   *)
LEMMA TablesKept ==
  ASSUME RowsSane, ReceiptsSane, EffectsRecorded, receipts \in [Slots -> Receipt \cup {None}],
         RowsSane', \A d \in Commands : Kept(d), UNCHANGED <<receipts, effects>>
  PROVE  /\ ReceiptsSane' /\ EffectsRecorded'
         /\ \A c \in Commands : Done(c)' <=> Done(c)
         /\ \A c \in Commands : row[c].status # "none" => (HasReceipt(c)' <=> HasReceipt(c))
         /\ \A c \in Commands : row[c].status # "none" => (IsRead(c)' <=> IsRead(c))
<1>1. ReceiptsSane'
  <2> SUFFICES ASSUME NEW s \in Slots, receipts[s] # None
               PROVE  LET c == receipts[s].id
                      IN  row'[c].status # "none" /\ Slot(c)' = s /\ row'[c].hash = receipts[s].hash
    BY DEF ReceiptsSane
  <2>1. receipts[s].id \in Commands
    BY DEF Receipt
  <2>2. /\ row[receipts[s].id].status # "none" /\ Slot(receipts[s].id) = s
        /\ row[receipts[s].id].hash = receipts[s].hash
    BY DEF ReceiptsSane
  <2>3. QED BY <2>1, <2>2 DEF Kept, Slot
<1>2. ASSUME NEW c \in Commands, row[c].status # "none"
      PROVE  /\ HasReceipt(c)' <=> HasReceipt(c)
             /\ IsRead(c)' <=> IsRead(c)
             /\ row'[c].status # "none"
  BY <1>2 DEF Kept, HasReceipt, Slot, IsRead
<1>3. ASSUME NEW c \in Commands, row[c].status = "none"
      PROVE  ~Done(c)' /\ ~Done(c)
  <2>1. SUFFICES ASSUME row'[c].status # "none", HasReceipt(c)' PROVE FALSE
    BY <1>3 DEF Done
  <2>2. Slot(c)' \in Slots
    BY <2>1 DEF RowsSane
  <2>3. receipts[Slot(c)'] # None /\ receipts[Slot(c)'].id = c
    BY <2>1 DEF HasReceipt, Slot
  <2>4. QED BY <1>3, <2>2, <2>3 DEF ReceiptsSane
<1>4. \A c \in Commands : Done(c)' <=> Done(c)
  BY <1>2, <1>3 DEF Done
<1>5. EffectsRecorded'
  BY <1>4 DEF EffectsRecorded
<1>6. QED BY <1>1, <1>2, <1>4, <1>5

(* A calm statement keeps rows what they are.                               *)
LEMMA CalmKept ==
  ASSUME RowsTypeOK, RowsTypeOK', LeasedApplies, RowsSane, NEW d \in Commands, Calm(d)
  PROVE  Kept(d)
<1>0. row[d] \in Row
  BY DEF RowsTypeOK
<1>1. CASE row'[d] = row[d]
  BY <1>1 DEF Kept
<1>2. CASE Born(d)
  BY <1>2 DEF Born, Kept
<1>3. CASE Dropped(d)
  BY <1>0, <1>3, RememberedType DEF Dropped, Kept, Terminal
<1>4. CASE Lapsed(d)
  <2>1. row'[d].status = row[d].status /\ row'[d].owner = row[d].owner
        /\ row'[d].key = row[d].key /\ row'[d].hash = row[d].hash
    BY <1>0, <1>4 DEF Lapsed, Row
  <2>2. QED BY <2>1, <1>4 DEF Kept, Lapsed, LeasedApplies
<1>5. CASE GaveUp(d)
  <2>1. row'[d].status = "rejected" /\ row'[d].owner = row[d].owner
        /\ row'[d].key = row[d].key /\ row'[d].hash = row[d].hash
    BY <1>0, <1>5 DEF GaveUp, Row
  <2>2. QED BY <2>1, <1>5 DEF Kept, GaveUp, Exhausted, Expired
<1>6. QED BY <1>1, <1>2, <1>3, <1>4, <1>5 DEF Calm, Quiet

(* The part of the invariant that concerns the pump.                        *)
PumpInv == ExecutingCommand /\ ClaimUndisturbed /\ FreshApply /\ DecisionBacked

(* A calm statement, with the pump where it was or out of work.             *)
LEMMA CalmStep ==
  ASSUME IInv, BridgeTypeOK', \A d \in Commands : Calm(d),
         \A d \in Commands : row[d].status = "none" /\ row'[d].status # "none" =>
            \E o \in Owners, k \in Keys, h \in Hashes :
               row'[d] = QueuedRow(o, k, h, auth[o], arrivals + 1),
         UNCHANGED <<receipts, effects, auth>>,
         \/ bridge'.pc \notin Executing
         \/ UNCHANGED bridge /\ \A d \in Commands : Quiet(d)
  PROVE  IInv'
<1> USE DEF IInv
<1>0. /\ RowsTypeOK /\ RowsTypeOK' /\ receipts \in [Slots -> Receipt \cup {None}]
  BY DEF BridgeTypeOK
<1>1. \A d \in Commands : Kept(d)
  BY <1>0, CalmKept
<1>2. RowsSane'
  <2> SUFFICES ASSUME NEW d \in Commands
               PROVE  /\ row'[d].status # "none" => Slot(d)' \in Slots /\ row'[d].hash \in Hashes
                      /\ row'[d].status = "queued" => row'[d].attempt = 0
                      /\ row'[d].status = "applying" => row'[d].attempt > 0
                      /\ row'[d].status \in Active =>
                            row'[d].auth.revision <= auth[row'[d].owner].revision /\ row'[d].code = None
    BY DEF RowsSane
  <2>0. row[d] \in Row /\ row'[d] \in Row /\ auth \in [Owners -> Permission] /\ MaxEpoch \in Nat
    BY <1>0, BridgeAssumption DEF RowsTypeOK, BridgeTypeOK
  <2>1. CASE row'[d] = row[d]
    BY <2>1 DEF RowsSane, Slot
  <2>2. CASE Born(d)
    <3>1. PICK o \in Owners, k \in Keys, h \in Hashes :
             row'[d] = QueuedRow(o, k, h, auth[o], arrivals + 1)
      BY <2>2 DEF Born
    <3>2. auth[o] \in Authorization /\ auth[o].revision \in Nat /\ arrivals + 1 \in Nat
      BY <1>0, <2>0, PermissionType DEF RowsTypeOK
    <3>3. /\ row'[d].owner = o /\ row'[d].key = k /\ row'[d].hash = h
          /\ row'[d].auth = auth[o] /\ row'[d].attempt = 0 /\ row'[d].code = None
      BY <3>1, <3>2, QueuedRowType
    <3>4. Slot(d)' \in Slots
      BY <3>3 DEF Slot, Slots
    <3>5. row'[d].status = "queued" /\ auth[o].revision <= auth[o].revision
      BY <2>2, <3>2 DEF Born
    <3>6. QED BY <3>3, <3>4, <3>5
  <2>3. CASE Dropped(d)
    BY <1>1, <2>0, <2>3, RememberedType DEF Dropped, Active, Terminal, RowsSane, Kept, Slot
  <2>4. CASE Lapsed(d)
    <3>1. /\ row'[d].status = row[d].status /\ row'[d].attempt = row[d].attempt
          /\ row'[d].owner = row[d].owner /\ row'[d].key = row[d].key
          /\ row'[d].hash = row[d].hash /\ row'[d].auth = row[d].auth
          /\ row'[d].code = row[d].code
      BY <2>0, <2>4 DEF Lapsed, Row
    <3>2. QED BY <3>1 DEF RowsSane, Slot
  <2>5. CASE GaveUp(d)
    <3>1. /\ row'[d].status = "rejected" /\ row[d].status # "none"
          /\ row'[d].owner = row[d].owner /\ row'[d].key = row[d].key
          /\ row'[d].hash = row[d].hash
      BY <2>0, <2>5 DEF GaveUp, Exhausted, Expired, Row
    <3>2. QED BY <3>1 DEF RowsSane, Active, Slot
  <2>6. QED BY <2>1, <2>2, <2>3, <2>4, <2>5 DEF Calm, Quiet
<1>3. /\ ReceiptsSane' /\ EffectsRecorded'
      /\ \A c \in Commands : Done(c)' <=> Done(c)
      /\ \A c \in Commands : row[c].status # "none" => (HasReceipt(c)' <=> HasReceipt(c))
      /\ \A c \in Commands : row[c].status # "none" => (IsRead(c)' <=> IsRead(c))
  BY <1>0, <1>1, <1>2, TablesKept
<1>4. LeasedApplies'
  BY <1>0, CalmFacts DEF LeasedApplies
<1>5. EffectsClaimed'
  BY <1>1, <1>3 DEF EffectsClaimed, Kept, Done
<1>6. AppliedHasReceipt'
  <2>1. \A d \in Commands : row'[d].status = "applied" => row'[d] = row[d]
    BY <1>0, CalmFacts
  <2>2. QED BY <1>3, <2>1 DEF AppliedHasReceipt
<1>7. RejectedByExecutorNeverApplied'
  <2> SUFFICES ASSUME NEW d \in Commands, row'[d].status = "rejected", row'[d].code = "executor"
               PROVE  row'[d] = row[d]
    BY DEF RejectedByExecutorNeverApplied
  <2>0. row[d] \in Row
    BY <1>0 DEF RowsTypeOK
  <2>1. ~Born(d) /\ ~Dropped(d)
    BY <2>0, RememberedType DEF Born, Dropped
  <2>2. ~Lapsed(d)
    BY <2>0 DEF Lapsed, LeasedApplies, Row
  <2>3. ~GaveUp(d)
    BY <2>0 DEF GaveUp, Row
  <2>4. QED BY <2>1, <2>2, <2>3 DEF Calm, Quiet
<1>8. PumpInv'
  <2>1. CASE bridge'.pc \notin Executing
    BY <2>1 DEF PumpInv, ExecutingCommand, ClaimUndisturbed, FreshApply, DecisionBacked, Executing
  <2>2. CASE UNCHANGED bridge /\ (\A d \in Commands : Quiet(d)) /\ bridge.pc \in Executing
    <3>1. PICK c \in Commands : c = bridge.cmd
      BY <2>2 DEF ExecutingCommand
    <3>2. row[c].status = "applying" /\ row[c].attempt = bridge.gen /\ row[c] \in Row
      BY <1>0, <2>2, <3>1 DEF ClaimUndisturbed, RowsTypeOK
    <3>3. row'[c].status = "applying" /\ row'[c].attempt = bridge.gen
      <4>1. ~Born(c) /\ ~Dropped(c)
        BY <3>2 DEF Born, Dropped, Terminal
      <4>2. QED BY <2>2, <3>2, <4>1 DEF Quiet, Lapsed, Row
    <3>4. (HasReceipt(c)' <=> HasReceipt(c)) /\ (IsRead(c)' <=> IsRead(c))
      BY <1>3, <3>2
    <3>5. ExecutingCommand' /\ ClaimUndisturbed' /\ FreshApply'
      BY <2>2, <3>1, <3>3 DEF ExecutingCommand, ClaimUndisturbed, FreshApply
    <3>6. DecisionBacked'
      BY <2>2, <3>1, <3>4 DEF DecisionBacked, HasReceipt, IsRead, Slot
    <3>7. QED BY <3>5, <3>6 DEF PumpInv
  <2>3. QED BY <2>1, <2>2
<1>9. QED BY <1>2, <1>3, <1>4, <1>5, <1>6, <1>7, <1>8 DEF PumpInv

(* A step of the pump or of an authorization that touches neither store.    *)
LEMMA PumpStep ==
  ASSUME IInv, UNCHANGED <<row, arrivals, endings, receipts, effects>>,
         auth' \in [Owners -> Permission],
         \A p \in Owners : auth[p].revision <= auth'[p].revision,
         bridge' \in Bridge, crashes' \in 0 .. MaxCrashes, PumpInv'
  PROVE  IInv'
<1> USE DEF IInv
<1>0. BridgeTypeOK' /\ LeasedApplies'
  BY DEF BridgeTypeOK, RowsTypeOK, LeasedApplies
<1>1. RowsSane'
  <2> SUFFICES ASSUME NEW c \in Commands, row[c].status \in Active
               PROVE  row[c].auth.revision <= auth'[row[c].owner].revision
    BY DEF RowsSane, Slot
  <2>1. PICK p \in Owners : p = row[c].owner
    BY DEF RowsSane, Slot, Slots, Active
  <2>2. row[c].auth.revision <= auth[p].revision
    BY <2>1 DEF RowsSane
  <2>3. auth[p].revision <= auth'[p].revision /\ MaxEpoch \in Nat
    BY BridgeAssumption
  <2>4. row[c].auth.revision \in Nat
    BY DEF BridgeTypeOK, RowsTypeOK, Row, Authorization
  <2>5. auth[p].revision \in 0 .. MaxEpoch /\ auth'[p].revision \in 0 .. MaxEpoch
    BY DEF BridgeTypeOK, Permission
  <2>6. QED BY <2>1, <2>2, <2>3, <2>4, <2>5
<1>2. ReceiptsSane' /\ EffectsRecorded' /\ EffectsClaimed'
  BY DEF ReceiptsSane, EffectsRecorded, EffectsClaimed, Done, HasReceipt, IsRead, Slot
<1>3. AppliedHasReceipt' /\ RejectedByExecutorNeverApplied'
  BY DEF AppliedHasReceipt, RejectedByExecutorNeverApplied, HasReceipt, IsRead, Slot
<1>4. QED BY <1>0, <1>1, <1>2, <1>3 DEF PumpInv

(* A claim, whether the pump learns of it or its answer is lost.            *)
LEMMA GrantStep ==
  ASSUME IInv, NEW c \in Commands, FirstClaimable(c, Commands), row' = Granted(c),
         bridge.pc = "claiming",
         UNCHANGED <<arrivals, endings, receipts, effects, auth, crashes>>,
         bridge' = Claimed(c) \/ bridge' = At("idle")
  PROVE  IInv'
<1> USE DEF IInv
<1>0. /\ RowsTypeOK /\ receipts \in [Slots -> Receipt \cup {None}]
      /\ row[c] \in Row /\ row[c].attempt \in 0 .. MaxAttempts
  BY DEF BridgeTypeOK, RowsTypeOK, Row
<1>1. /\ row[c].attempt < MaxAttempts
      /\ row[c].status = "queued" \/ row[c].status = "applying"
  BY DEF FirstClaimable, Claimable, Expired
<1>2. /\ row' \in [Commands -> Row]
      /\ \A d \in Commands \ {c} : row'[d] = row[d]
      /\ row'[c].status = "applying" /\ row'[c].owner = row[c].owner
      /\ row'[c].key = row[c].key /\ row'[c].hash = row[c].hash
      /\ row'[c].auth = row[c].auth /\ row'[c].attempt = row[c].attempt + 1
      /\ row'[c].code = row[c].code
  BY <1>0, <1>1, GrantedRow
<1>3. bridge' \in Bridge
  BY <1>0, <1>1, ClaimedType, AtType
<1>4. BridgeTypeOK'
  BY <1>2, <1>3 DEF BridgeTypeOK, RowsTypeOK
<1>5. \A d \in Commands : Kept(d)
  BY <1>1, <1>2 DEF Kept
<1>6. RowsSane'
  <2> SUFFICES ASSUME NEW d \in Commands
               PROVE  /\ row'[d].status # "none" => Slot(d)' \in Slots /\ row'[d].hash \in Hashes
                      /\ row'[d].status = "queued" => row'[d].attempt = 0
                      /\ row'[d].status = "applying" => row'[d].attempt > 0
                      /\ row'[d].status \in Active =>
                            row'[d].auth.revision <= auth[row'[d].owner].revision /\ row'[d].code = None
    BY DEF RowsSane
  <2>1. CASE d = c
    BY <1>0, <1>1, <1>2, <2>1, RowsAssumption DEF RowsSane, Active, Slot
  <2>2. CASE d # c
    BY <1>2, <2>2 DEF RowsSane, Slot
  <2>3. QED BY <2>1, <2>2
<1>7. /\ ReceiptsSane' /\ EffectsRecorded'
      /\ \A d \in Commands : Done(d)' <=> Done(d)
      /\ \A d \in Commands : row[d].status # "none" => (HasReceipt(d)' <=> HasReceipt(d))
      /\ \A d \in Commands : row[d].status # "none" => (IsRead(d)' <=> IsRead(d))
  BY <1>0, <1>5, <1>6, TablesKept
<1>8. LeasedApplies'
  BY <1>2 DEF LeasedApplies
<1>9. EffectsClaimed'
  BY <1>5, <1>7 DEF EffectsClaimed, Kept, Done
<1>10. AppliedHasReceipt' /\ RejectedByExecutorNeverApplied'
  <2>1. \A d \in Commands : row'[d].status \in Terminal => row'[d] = row[d]
    BY <1>2 DEF Terminal
  <2>2. QED BY <1>7, <2>1 DEF AppliedHasReceipt, RejectedByExecutorNeverApplied, Terminal
<1>11. PumpInv'
  <2>1. CASE bridge' = At("idle")
    BY <2>1, AtType
    DEF PumpInv, ExecutingCommand, ClaimUndisturbed, FreshApply, DecisionBacked, Executing
  <2>2. CASE bridge' = Claimed(c)
    <3>1. /\ bridge'.pc = IF row[c].attempt > 0 THEN "probe" ELSE "authorize"
          /\ bridge'.cmd = c /\ bridge'.gen = row[c].attempt + 1
      BY <1>0, <1>1, <2>2, ClaimedType
    <3>2. bridge'.pc = "authorize" => row[c].status = "queued"
      BY <1>0, <1>1, <3>1 DEF RowsSane
    <3>3. bridge'.pc = "authorize" => effects[c] = 0
      BY <3>2 DEF EffectsRecorded, EffectsClaimed
    <3>4. ExecutingCommand' /\ ClaimUndisturbed'
      BY <1>2, <3>1 DEF ExecutingCommand, ClaimUndisturbed
    <3>5. FreshApply' /\ DecisionBacked'
      BY <3>1, <3>3 DEF FreshApply, DecisionBacked
    <3>6. QED BY <3>4, <3>5 DEF PumpInv
  <2>3. QED BY <2>1, <2>2
<1>12. QED BY <1>4, <1>6, <1>7, <1>8, <1>9, <1>10, <1>11 DEF PumpInv

(* The two stores agree before the pump's own decisions.                    *)
LEMMA ProbeExact ==
  ASSUME IInv, bridge.pc \in Executing
  PROVE  /\ bridge.cmd \in Commands /\ row[bridge.cmd].status = "applying"
         /\ Slot(bridge.cmd) \in Slots
         /\ ProbeFinds(bridge.cmd) <=> HasReceipt(bridge.cmd)
         /\ effects[bridge.cmd] = IF ProbeFinds(bridge.cmd) THEN 1 ELSE 0
<1> USE DEF IInv
<1>1. PICK c \in Commands : c = bridge.cmd
  BY DEF ExecutingCommand
<1>2. row[c].status = "applying" /\ row[c] \in Row
  BY <1>1 DEF ClaimUndisturbed, BridgeTypeOK, RowsTypeOK
<1>3. Slot(c) \in Slots
  BY <1>2, SlotIn
<1>4. receipts[Slot(c)] \in Receipt \cup {None}
  BY <1>3 DEF BridgeTypeOK
<1>5. HasReceipt(c) => receipts[Slot(c)] = ReceiptOf(c, "applied")
  BY <1>4 DEF HasReceipt, ReceiptOf, Receipt
<1>6. ReceiptOf(c, "applied") # None
  <2>1. ReceiptOf(c, "applied") \in Receipt
    BY <1>2 DEF RowsSane, ReceiptOf, Receipt, Terminal
  <2>2. QED BY <2>1, BridgeAssumption
<1>7. ProbeFinds(c) <=> HasReceipt(c)
  BY <1>5, <1>6 DEF ProbeFinds, HasReceipt, ReceiptOf
<1>8. effects[c] = IF HasReceipt(c) THEN 1 ELSE 0
  BY <1>2 DEF EffectsRecorded, Done
<1>9. QED BY <1>1, <1>2, <1>3, <1>7, <1>8

-----------------------------------------------------------------------------
(* The mutation and its applied receipt, in one transaction.                *)
LEMMA ApplyMutationStep == IInv /\ ApplyMutation => IInv'
<1> SUFFICES ASSUME IInv, ApplyMutation PROVE IInv'
  OBVIOUS
<1> USE DEF IInv
<1>0. bridge.pc = "apply" /\ bridge \in Bridge
  BY DEF ApplyMutation, BridgeTypeOK
<1>1. PICK c \in Commands : c = bridge.cmd
  BY <1>0 DEF ExecutingCommand, Executing
<1>2. /\ row[c].status = "applying" /\ row[c] \in Row
      /\ Slot(c) \in Slots /\ row[c].hash \in Hashes
  BY <1>0, <1>1, ProbeExact DEF Executing, BridgeTypeOK, RowsTypeOK, RowsSane
<1>3. /\ ~IsRead(c) /\ receipts[Slot(c)] = None
      /\ receipts' = [receipts EXCEPT ![Slot(c)] = ReceiptOf(c, "applied")]
      /\ effects' = [effects EXCEPT ![c] = @ + 1]
      /\ Reach("committed")
      /\ UNCHANGED <<row, arrivals, endings, auth, crashes>>
  BY <1>1 DEF ApplyMutation, Unrecorded
<1>4. ReceiptOf(c, "applied") \in Receipt /\ ReceiptOf(c, "applied") # None
  BY <1>2, BridgeAssumption DEF ReceiptOf, Receipt, Terminal
<1>5. /\ receipts' \in [Slots -> Receipt \cup {None}]
      /\ receipts'[Slot(c)] = ReceiptOf(c, "applied")
      /\ \A s \in Slots \ {Slot(c)} : receipts'[s] = receipts[s]
  BY <1>2, <1>3, <1>4 DEF BridgeTypeOK
<1>6. effects[c] = 0
  BY <1>0, <1>1 DEF FreshApply
<1>7. /\ effects' \in [Commands -> Nat] /\ effects'[c] = 1
      /\ \A d \in Commands \ {c} : effects'[d] = effects[d]
  BY <1>3, <1>6 DEF BridgeTypeOK
<1>8. /\ bridge' \in Bridge /\ bridge'.pc = "committed"
      /\ bridge'.cmd = c /\ bridge'.gen = bridge.gen
  BY <1>0, <1>1, <1>3, ReachType DEF Executing
<1>9. BridgeTypeOK' /\ LeasedApplies' /\ RowsSane'
  BY <1>3, <1>5, <1>7, <1>8 DEF BridgeTypeOK, RowsTypeOK, LeasedApplies, RowsSane, Slot
<1>10. HasReceipt(c)'
  BY <1>3, <1>4, <1>5 DEF HasReceipt, ReceiptOf, Slot
<1>11. ASSUME NEW d \in Commands, d # c, row[d].status # "none"
       PROVE  HasReceipt(d)' <=> HasReceipt(d)
  <2>1. Slot(d) \in Slots
    BY <1>11 DEF RowsSane
  <2>2. CASE Slot(d) = Slot(c)
    BY <1>3, <1>5, <1>11, <2>2 DEF HasReceipt, ReceiptOf, Slot
  <2>3. CASE Slot(d) # Slot(c)
    BY <1>3, <1>5, <2>1, <2>3 DEF HasReceipt, Slot
  <2>4. QED BY <2>2, <2>3
<1>12. ReceiptsSane'
  <2> SUFFICES ASSUME NEW s \in Slots, receipts'[s] # None
               PROVE  LET d == receipts'[s].id
                      IN  row[d].status # "none" /\ Slot(d) = s /\ row[d].hash = receipts'[s].hash
    BY <1>3 DEF ReceiptsSane, Slot
  <2>1. CASE s = Slot(c)
    BY <1>2, <1>5, <2>1 DEF ReceiptOf
  <2>2. CASE s # Slot(c)
    BY <1>5, <2>2 DEF ReceiptsSane
  <2>3. QED BY <2>1, <2>2
<1>13. Done(c)' /\ \A d \in Commands \ {c} : Done(d)' <=> Done(d)
  BY <1>2, <1>3, <1>10, <1>11 DEF Done
<1>14. EffectsRecorded'
  BY <1>7, <1>13 DEF EffectsRecorded
<1>15. EffectsClaimed'
  BY <1>2, <1>3, <1>13 DEF EffectsClaimed, IsRead
<1>16. AppliedHasReceipt'
  BY <1>2, <1>3, <1>11 DEF AppliedHasReceipt, IsRead
<1>17. RejectedByExecutorNeverApplied'
  BY <1>2, <1>3, <1>7 DEF RejectedByExecutorNeverApplied
<1>18. PumpInv'
  <2>1. ExecutingCommand' /\ ClaimUndisturbed'
    BY <1>0, <1>1, <1>3, <1>8 DEF ExecutingCommand, ClaimUndisturbed, Executing
  <2>2. FreshApply' /\ DecisionBacked'
    BY <1>8, <1>10 DEF FreshApply, DecisionBacked, HasReceipt, Slot
  <2>3. QED BY <2>1, <2>2 DEF PumpInv
<1>19. QED
  BY <1>9, <1>12, <1>14, <1>15, <1>16, <1>17, <1>18 DEF PumpInv

(* A refusal may leave a rejected receipt, which is nobody's effect.        *)
LEMMA ApplyRefusedStep == IInv /\ ApplyRefused => IInv'
<1> SUFFICES ASSUME IInv, ApplyRefused PROVE IInv'
  OBVIOUS
<1> USE DEF IInv
<1>0. bridge.pc = "apply" /\ bridge \in Bridge
  BY DEF ApplyRefused, BridgeTypeOK
<1>1. PICK c \in Commands : c = bridge.cmd
  BY <1>0 DEF ExecutingCommand, Executing
<1>2. /\ row[c].status = "applying" /\ row[c] \in Row
      /\ Slot(c) \in Slots /\ row[c].hash \in Hashes
  BY <1>0, <1>1, ProbeExact DEF Executing, BridgeTypeOK, RowsTypeOK, RowsSane
<1>3. /\ Conclude("rejected")
      /\ UNCHANGED <<row, arrivals, endings, effects, auth, crashes>>
      /\ \/ UNCHANGED receipts
         \/ /\ receipts[Slot(c)] = None
            /\ receipts' = [receipts EXCEPT ![Slot(c)] = ReceiptOf(c, "rejected")]
  BY <1>1 DEF ApplyRefused, Unrecorded
<1>4. ReceiptOf(c, "rejected") \in Receipt
  BY <1>2 DEF ReceiptOf, Receipt, Terminal
<1>5. /\ receipts' \in [Slots -> Receipt \cup {None}]
      /\ \A s \in Slots : \/ receipts'[s] = receipts[s]
                          \/ /\ s = Slot(c) /\ receipts[s] = None
                             /\ receipts'[s] = ReceiptOf(c, "rejected")
  BY <1>2, <1>3, <1>4 DEF BridgeTypeOK
<1>6. effects[c] = 0
  BY <1>0, <1>1 DEF FreshApply
<1>7. /\ bridge' \in Bridge /\ bridge'.pc = "decided" /\ bridge'.decision = "rejected"
      /\ bridge'.cmd = c /\ bridge'.gen = bridge.gen
  BY <1>0, <1>1, <1>3, ConcludeType DEF Terminal
<1>8. BridgeTypeOK' /\ LeasedApplies' /\ RowsSane'
  BY <1>3, <1>5, <1>7 DEF BridgeTypeOK, RowsTypeOK, LeasedApplies, RowsSane, Slot
<1>9. ASSUME NEW d \in Commands, row[d].status # "none"
      PROVE  HasReceipt(d)' <=> HasReceipt(d)
  <2>1. Slot(d) \in Slots /\ Slot(d)' = Slot(d)
    BY <1>3, <1>9 DEF RowsSane, Slot
  <2>2. CASE receipts'[Slot(d)] = receipts[Slot(d)]
    BY <1>3, <2>1, <2>2 DEF HasReceipt
  <2>3. CASE receipts[Slot(d)] = None /\ receipts'[Slot(d)] = ReceiptOf(c, "rejected")
    BY <1>3, <2>1, <2>3 DEF HasReceipt, ReceiptOf
  <2>4. QED BY <1>5, <2>1, <2>2, <2>3
<1>10. ReceiptsSane'
  <2> SUFFICES ASSUME NEW s \in Slots, receipts'[s] # None
               PROVE  LET d == receipts'[s].id
                      IN  row[d].status # "none" /\ Slot(d) = s /\ row[d].hash = receipts'[s].hash
    BY <1>3 DEF ReceiptsSane, Slot
  <2>1. CASE s = Slot(c) /\ receipts'[s] = ReceiptOf(c, "rejected")
    BY <1>2, <2>1 DEF ReceiptOf
  <2>2. CASE receipts'[s] = receipts[s]
    BY <2>2 DEF ReceiptsSane
  <2>3. QED BY <1>5, <2>1, <2>2
<1>11. \A d \in Commands : Done(d)' <=> Done(d)
  BY <1>3, <1>9 DEF Done
<1>12. EffectsRecorded' /\ EffectsClaimed'
  BY <1>3, <1>11 DEF EffectsRecorded, EffectsClaimed, IsRead
<1>13. AppliedHasReceipt' /\ RejectedByExecutorNeverApplied'
  BY <1>3, <1>9 DEF AppliedHasReceipt, RejectedByExecutorNeverApplied, IsRead
<1>14. PumpInv'
  <2>1. ExecutingCommand' /\ ClaimUndisturbed'
    BY <1>0, <1>1, <1>3, <1>7 DEF ExecutingCommand, ClaimUndisturbed, Executing
  <2>2. FreshApply' /\ DecisionBacked'
    BY <1>3, <1>6, <1>7 DEF FreshApply, DecisionBacked, Terminal
  <2>3. QED BY <2>1, <2>2 DEF PumpInv
<1>15. QED BY <1>8, <1>10, <1>12, <1>13, <1>14 DEF PumpInv

(* An acknowledgement that reaches the table says what the receipt says.    *)
LEMMA AcknowledgeStep == IInv /\ Acknowledge => IInv'
<1> SUFFICES ASSUME IInv, Acknowledge PROVE IInv'
  OBVIOUS
<1> USE DEF IInv
<1>0. /\ bridge.pc = "decided" /\ bridge' = At("idle")
      /\ UNCHANGED <<receipts, effects, auth, crashes>>
  BY DEF Acknowledge
<1>1. PICK c \in Commands : c = bridge.cmd
  BY <1>0 DEF ExecutingCommand, Executing
<1>2. PICK g \in 0 .. MaxAttempts : g = bridge.gen
  BY DEF BridgeTypeOK, Bridge
<1>3. bridge' \in Bridge /\ bridge'.pc = "idle"
  BY <1>0, AtType
<1>4. PumpInv'
  BY <1>3 DEF PumpInv, ExecutingCommand, ClaimUndisturbed, FreshApply, DecisionBacked, Executing
<1>5. CASE UNCHANGED <<row, arrivals, endings>>
  <2>1. \A p \in Owners : auth[p].revision <= auth'[p].revision
    BY <1>0, BridgeAssumption DEF BridgeTypeOK, Permission
  <2>2. QED BY <1>0, <1>3, <1>4, <1>5, <2>1, PumpStep DEF BridgeTypeOK
<1>6. ASSUME NEW r \in Receipts \cup {None}, Decide(c, g, r),
             IF r = None THEN bridge.decision = "rejected" ELSE bridge.decision = "applied"
      PROVE  IInv'
  <2>0. RowsTypeOK /\ row[c] \in Row /\ receipts \in [Slots -> Receipt \cup {None}]
    BY DEF BridgeTypeOK, RowsTypeOK
  <2>1. /\ RowsTypeOK'
        /\ \A d \in Commands \ {c} : row'[d] = row[d]
        /\ row[c].status = "applying"
        /\ ~row'[c].leased /\ row'[c].attempt = row[c].attempt
        /\ row'[c].owner = row[c].owner /\ row'[c].key = row[c].key
        /\ row'[c].hash = row[c].hash
        /\ IF r = None THEN row'[c].status = "rejected" ELSE row'[c].status = "applied"
    BY <1>6, <2>0, DecideOnly DEF FenceHolds
  <2>2. row'[c].status \in Terminal
    BY <2>1 DEF Terminal
  <2>3. BridgeTypeOK' /\ LeasedApplies'
    BY <1>0, <1>3, <2>1 DEF BridgeTypeOK, LeasedApplies
  <2>4. \A d \in Commands : Kept(d)
    BY <2>1, <2>2 DEF Kept, Terminal
  <2>5. RowsSane'
    BY <1>0, <2>1, <2>2 DEF RowsSane, Slot, Terminal, Active
  <2>6. /\ ReceiptsSane' /\ EffectsRecorded'
        /\ \A d \in Commands : Done(d)' <=> Done(d)
        /\ \A d \in Commands : row[d].status # "none" => (HasReceipt(d)' <=> HasReceipt(d))
        /\ \A d \in Commands : row[d].status # "none" => (IsRead(d)' <=> IsRead(d))
    BY <1>0, <2>0, <2>4, <2>5, TablesKept
  <2>7. EffectsClaimed'
    BY <2>4, <2>6 DEF EffectsClaimed, Kept, Done
  <2>8. AppliedHasReceipt'
    <3>1. row'[c].status = "applied" => IsRead(c) \/ HasReceipt(c)
      BY <1>0, <1>1, <1>6, <2>1 DEF DecisionBacked
    <3>2. QED BY <2>1, <2>6, <3>1 DEF AppliedHasReceipt
  <2>9. RejectedByExecutorNeverApplied'
    <3>1. row'[c].status = "rejected" => effects[c] = 0
      BY <1>0, <1>1, <1>6, <2>1 DEF DecisionBacked
    <3>2. QED BY <1>0, <2>1, <3>1 DEF RejectedByExecutorNeverApplied
  <2>10. QED BY <1>4, <2>3, <2>5, <2>6, <2>7, <2>8, <2>9 DEF PumpInv
<1>7. CASE bridge.decision = "applied" /\ \E r \in Receipts : AckApplied(c, g, r)
  <2>1. PICK r \in Receipts : AckApplied(c, g, r)
    BY <1>7
  <2>2. r # None /\ Decide(c, g, r)
    BY <2>1, RowsAssumption DEF Decide
  <2>3. QED BY <1>6, <1>7, <2>2
<1>8. CASE bridge.decision = "rejected" /\ AckRejected(c, g)
  <2>1. Decide(c, g, None)
    BY <1>8 DEF Decide
  <2>2. QED BY <1>6, <1>8, <2>1
<1>9. QED BY <1>1, <1>2, <1>5, <1>7, <1>8 DEF Acknowledge

(* The pump's steps that touch neither store.                               *)
LEMMA PumpOnlyStep ==
  IInv /\ (PumpNothing \/ Probe \/ Authorize \/ ApplyWithoutEffect \/ ApplyReturns
            \/ LoseLease \/ GiveUp \/ Crash) => IInv'
<1> SUFFICES ASSUME IInv, PumpNothing \/ Probe \/ Authorize \/ ApplyWithoutEffect
                            \/ ApplyReturns \/ LoseLease \/ GiveUp \/ Crash
             PROVE  IInv'
  OBVIOUS
<1> USE DEF IInv
<1>0. bridge \in Bridge /\ crashes \in 0 .. MaxCrashes /\ MaxCrashes \in Nat
  BY BridgeAssumption DEF BridgeTypeOK
<1>1. UNCHANGED <<row, arrivals, endings, receipts, effects>>
  BY DEF PumpNothing, Probe, Authorize, ApplyWithoutEffect, ApplyReturns, LoseLease, GiveUp, Crash
<1>2. crashes' \in 0 .. MaxCrashes
  BY <1>0 DEF PumpNothing, Probe, Authorize, ApplyWithoutEffect, ApplyReturns, LoseLease, GiveUp,
              Crash
<1>2a. /\ auth' \in [Owners -> Permission]
      /\ \A p \in Owners : auth[p].revision <= auth'[p].revision
  <2>1. CASE Crash
    BY <2>1, AuthMoves DEF BridgeTypeOK
  <2>2. CASE UNCHANGED auth
    BY <2>2, BridgeAssumption DEF BridgeTypeOK, Permission
  <2>3. QED BY <2>1, <2>2 DEF PumpNothing, Probe, Authorize, ApplyWithoutEffect, ApplyReturns,
                              LoseLease, GiveUp
<1>3. CASE bridge' = At("idle") \/ bridge' = At("down")
  <2>1. bridge' \in Bridge /\ bridge'.pc \notin Executing
    BY <1>3, AtType DEF Executing
  <2>2. PumpInv'
    BY <2>1 DEF PumpInv, ExecutingCommand, ClaimUndisturbed, FreshApply, DecisionBacked, Executing
  <2>3. QED BY <1>1, <1>2, <1>2a, <2>1, <2>2, PumpStep
<1>4. CASE bridge.pc \in Executing
  <2> DEFINE c == bridge.cmd
  <2>1. /\ c \in Commands /\ row[c].status = "applying" /\ row[c].attempt = bridge.gen
        /\ ProbeFinds(c) <=> HasReceipt(c)
        /\ effects[c] = IF ProbeFinds(c) THEN 1 ELSE 0
    BY <1>4, ProbeExact DEF ClaimUndisturbed
  <2>2. ASSUME bridge' \in Bridge, bridge'.cmd = c, bridge'.gen = bridge.gen,
               FreshApply', DecisionBacked'
        PROVE  IInv'
    <3>1. ExecutingCommand' /\ ClaimUndisturbed'
      BY <1>1, <2>1, <2>2 DEF ExecutingCommand, ClaimUndisturbed
    <3>2. QED BY <1>1, <1>2, <1>2a, <2>2, <3>1, PumpStep DEF PumpInv
  <2>3. CASE Probe
    <3>1. CASE ProbeFinds(c) /\ Conclude("applied")
      <4>1. /\ bridge' \in Bridge /\ bridge'.pc = "decided" /\ bridge'.decision = "applied"
            /\ bridge'.cmd = c /\ bridge'.gen = bridge.gen
        BY <1>0, <3>1, ConcludeType DEF Terminal
      <4>2. FreshApply' /\ DecisionBacked'
        BY <1>1, <2>1, <3>1, <4>1 DEF FreshApply, DecisionBacked, HasReceipt, Slot, Terminal
      <4>3. QED BY <2>2, <4>1, <4>2
    <3>2. CASE ~ProbeFinds(c) /\ Reach("authorize")
      <4>1. /\ bridge' \in Bridge /\ bridge'.pc = "authorize"
            /\ bridge'.cmd = c /\ bridge'.gen = bridge.gen
        BY <1>0, <3>2, ReachType DEF Executing
      <4>2. FreshApply' /\ DecisionBacked'
        BY <1>1, <2>1, <3>2, <4>1 DEF FreshApply, DecisionBacked
      <4>3. QED BY <2>2, <4>1, <4>2
    <3>3. QED BY <2>3, <3>1, <3>2 DEF Probe
  <2>4. CASE Authorize
    <3>0. effects[c] = 0
      BY <2>4 DEF Authorize, FreshApply
    <3>1. CASE Reach("apply")
      <4>1. /\ bridge' \in Bridge /\ bridge'.pc = "apply"
            /\ bridge'.cmd = c /\ bridge'.gen = bridge.gen
        BY <1>0, <3>1, ReachType DEF Executing
      <4>2. FreshApply' /\ DecisionBacked'
        BY <1>1, <3>0, <4>1 DEF FreshApply, DecisionBacked
      <4>3. QED BY <2>2, <4>1, <4>2
    <3>2. CASE Conclude("rejected")
      <4>1. /\ bridge' \in Bridge /\ bridge'.pc = "decided" /\ bridge'.decision = "rejected"
            /\ bridge'.cmd = c /\ bridge'.gen = bridge.gen
        BY <1>0, <3>2, ConcludeType DEF Terminal
      <4>2. FreshApply' /\ DecisionBacked'
        BY <1>1, <3>0, <4>1 DEF FreshApply, DecisionBacked, Terminal
      <4>3. QED BY <2>2, <4>1, <4>2
    <3>3. QED BY <2>4, <3>1, <3>2 DEF Authorize
  <2>5. CASE ApplyWithoutEffect
    <3>1. /\ bridge' \in Bridge /\ bridge'.pc = "committed"
          /\ bridge'.cmd = c /\ bridge'.gen = bridge.gen
      BY <1>0, <2>5, ReachType DEF ApplyWithoutEffect, Executing
    <3>2. FreshApply' /\ DecisionBacked'
      BY <1>1, <2>1, <2>5, <3>1
      DEF ApplyWithoutEffect, FreshApply, DecisionBacked, HasReceipt, IsRead, Slot
    <3>3. QED BY <2>2, <3>1, <3>2
  <2>6. CASE ApplyReturns
    <3>1. /\ bridge' \in Bridge /\ bridge'.pc = "decided" /\ bridge'.decision = "applied"
          /\ bridge'.cmd = c /\ bridge'.gen = bridge.gen
      BY <1>0, <2>6, ConcludeType DEF ApplyReturns, Terminal
    <3>2. IsRead(c) \/ HasReceipt(c)
      BY <2>6 DEF ApplyReturns, DecisionBacked
    <3>3. FreshApply' /\ DecisionBacked'
      BY <1>1, <3>1, <3>2 DEF FreshApply, DecisionBacked, HasReceipt, IsRead, Slot, Terminal
    <3>4. QED BY <2>2, <3>1, <3>3
  <2>7. CASE LoseLease
    <3>1. /\ bridge' \in Bridge /\ bridge'.pc = bridge.pc /\ bridge'.decision = bridge.decision
          /\ bridge'.cmd = c /\ bridge'.gen = bridge.gen
      BY <1>0, <2>7 DEF LoseLease, Bridge
    <3>2. FreshApply' /\ DecisionBacked'
      BY <1>1, <3>1 DEF FreshApply, DecisionBacked, HasReceipt, IsRead, Slot
    <3>3. QED BY <2>2, <3>1, <3>2
  <2>8. QED BY <1>3, <2>3, <2>4, <2>5, <2>6, <2>7 DEF PumpNothing, GiveUp, Crash
<1>5. QED BY <1>3, <1>4 DEF PumpNothing, Probe, Authorize, ApplyWithoutEffect, ApplyReturns,
                            LoseLease, GiveUp, Crash, Executing

-----------------------------------------------------------------------------
(* The invariant holds before the first submission.                         *)
LEMMA InitInvariant == Init => IInv
<1> SUFFICES ASSUME Init PROVE IInv
  OBVIOUS
<1>1. /\ row = [c \in Commands |-> NoRow] /\ arrivals = 0 /\ endings = 0
      /\ bridge = At("down") /\ receipts = [s \in Slots |-> None]
      /\ effects = [c \in Commands |-> 0] /\ auth = [o \in Owners |-> NoAuth] /\ crashes = 0
  BY DEF Init, RowsInit
<1>2. bridge \in Bridge /\ bridge.pc = "down"
  BY <1>1, AtType
<1>3. BridgeTypeOK
  <2>1. NoAuth \in Permission
    BY BridgeAssumption DEF NoAuth, Permission
  <2>2. QED BY <1>1, <1>2, <2>1, NoRowType, BridgeAssumption DEF BridgeTypeOK, RowsTypeOK
<1>4. \A c \in Commands : row[c].status = "none" /\ ~row[c].leased
  BY <1>1 DEF NoRow
<1>5. LeasedApplies /\ RowsSane /\ ReceiptsSane
  BY <1>1, <1>4 DEF LeasedApplies, RowsSane, ReceiptsSane, Active
<1>6. EffectsRecorded /\ EffectsClaimed
  BY <1>1, <1>4 DEF EffectsRecorded, EffectsClaimed, Done
<1>7. ExecutingCommand /\ ClaimUndisturbed /\ FreshApply /\ DecisionBacked
  BY <1>2 DEF ExecutingCommand, ClaimUndisturbed, FreshApply, DecisionBacked, Executing
<1>8. AppliedHasReceipt /\ RejectedByExecutorNeverApplied
  BY <1>4 DEF AppliedHasReceipt, RejectedByExecutorNeverApplied
<1>9. QED BY <1>3, <1>5, <1>6, <1>7, <1>8 DEF IInv

(* The steps of clients, of time and of recovery.                           *)
LEMMA SubmitStep ==
  ASSUME IInv, NEW o \in Owners, NEW k \in Keys, NEW h \in Hashes, NEW t, Submit(o, k, h, t)
  PROVE  IInv'
<1>1. /\ RowsTypeOK /\ auth[o] \in Authorization /\ Enqueue(o, k, h, auth[o], t)
      /\ UNCHANGED <<bridge, receipts, effects, auth, crashes>>
  BY PermissionType DEF IInv, BridgeTypeOK, Submit
<1>2. /\ RowsTypeOK'
      /\ \A d \in Commands : Quiet(d)
      /\ \A d \in Commands : row[d].status = "none" /\ row'[d].status # "none" =>
            row'[d] = QueuedRow(o, k, h, auth[o], arrivals + 1)
  BY <1>1, EnqueueQuiet
<1>3. BridgeTypeOK'
  BY <1>1, <1>2 DEF IInv, BridgeTypeOK
<1>4. QED BY <1>1, <1>2, <1>3, CalmStep DEF Calm

(* A lease that runs out takes nothing from the executor but time.          *)
LEMMA LeaseRunsOutStep ==
  ASSUME IInv, NEW c \in Commands, LeaseRunsOut(c)
  PROVE  IInv'
<1>1. /\ RowsTypeOK /\ LeasedApplies /\ ExpireLease(c)
      /\ UNCHANGED <<bridge, receipts, effects, auth, crashes>>
  BY DEF IInv, BridgeTypeOK, LeaseRunsOut
<1>2. RowsTypeOK' /\ \A d \in Commands : Quiet(d)
  BY <1>1, ExpireQuiet
<1>3. BridgeTypeOK'
  BY <1>1, <1>2 DEF IInv, BridgeTypeOK
<1>4. \A d \in Commands : row[d].status = "none" => row'[d].status = "none"
  BY <1>1 DEF ExpireLease, LeasedApplies, RowsTypeOK
<1>5. QED BY <1>1, <1>2, <1>3, <1>4, CalmStep DEF Calm

(* Recovery only touches commands nobody is executing any more.             *)
LEMMA RecoverStep == IInv /\ (Boot \/ PumpRecover) => IInv'
<1> SUFFICES ASSUME IInv, Boot \/ PumpRecover PROVE IInv'
  OBVIOUS
<1>1. /\ RowsTypeOK /\ LeasedApplies /\ RecoverExpiredLeases
      /\ UNCHANGED <<receipts, effects, auth, crashes>>
      /\ bridge' \in Bridge /\ bridge'.pc \notin Executing
  BY AtType DEF IInv, BridgeTypeOK, Boot, PumpRecover, Executing
<1>2. RowsTypeOK' /\ \A d \in Commands : Calm(d)
  BY <1>1, RecoverCalm
<1>3. BridgeTypeOK'
  BY <1>1, <1>2 DEF IInv, BridgeTypeOK
<1>4. \A d \in Commands : row[d].status = "none" => row'[d] = row[d]
  BY <1>1 DEF RecoverExpiredLeases, RecoverExhausted, Exhausted, Expired
<1>5. QED BY <1>1, <1>2, <1>3, <1>4, CalmStep

(* A change of authorization leaves rows, receipts and effects alone.       *)
LEMMA RevokeStep ==
  ASSUME IInv, NEW o \in Owners, Revoke(o) \/ MoveEpoch(o)
  PROVE  IInv'
<1> USE DEF IInv
<1>1. UNCHANGED <<row, arrivals, endings, bridge, receipts, effects, crashes>>
  BY DEF Revoke, MoveEpoch
<1>2. /\ auth' \in [Owners -> Permission]
      /\ \A p \in Owners : auth[p].revision <= auth'[p].revision
  BY AuthMoves DEF BridgeTypeOK
<1>3. PumpInv'
  BY <1>1 DEF PumpInv, ExecutingCommand, ClaimUndisturbed, FreshApply, DecisionBacked, HasReceipt,
              IsRead, Slot
<1>4. QED BY <1>1, <1>2, <1>3, PumpStep DEF BridgeTypeOK

(* Every step of the executor preserves the invariant.                      *)
LEMMA StepInvariant == IInv /\ [Next]_vars => IInv'
<1> SUFFICES ASSUME IInv, [Next]_vars PROVE IInv'
  OBVIOUS
<1>1. CASE \E o \in Owners, k \in Keys, h \in Hashes, t \in 0 .. endings : Submit(o, k, h, t)
  BY <1>1, SubmitStep
<1>2. CASE \E o \in Owners : Revoke(o) \/ MoveEpoch(o)
  BY <1>2, RevokeStep
<1>3. CASE \E c \in Commands : LeaseRunsOut(c)
  BY <1>3, LeaseRunsOutStep
<1>4. CASE Boot \/ PumpRecover
  BY <1>4, RecoverStep
<1>5. CASE PumpClaim \/ ClaimAnswerLost
  <2>1. PICK c \in Commands : FirstClaimable(c, Commands) /\ row' = Granted(c)
                              /\ (bridge' = Claimed(c) \/ bridge' = At("idle"))
    BY <1>5 DEF PumpClaim, ClaimAnswerLost
  <2>2. /\ bridge.pc = "claiming"
        /\ UNCHANGED <<arrivals, endings, receipts, effects, auth, crashes>>
    BY <1>5 DEF PumpClaim, ClaimAnswerLost
  <2>3. QED BY <2>1, <2>2, GrantStep
<1>6. CASE PumpNothing \/ Probe \/ Authorize \/ ApplyWithoutEffect \/ ApplyReturns
             \/ LoseLease \/ GiveUp \/ Crash
  BY <1>6, PumpOnlyStep
<1>7. CASE ApplyMutation
  BY <1>7, ApplyMutationStep
<1>8. CASE ApplyRefused
  BY <1>8, ApplyRefusedStep
<1>9. CASE Acknowledge
  BY <1>9, AcknowledgeStep
<1>10. CASE UNCHANGED vars
  <2>1. /\ BridgeTypeOK' /\ (\A d \in Commands : Quiet(d))
        /\ UNCHANGED <<row, bridge, receipts, effects, auth>>
    BY <1>10 DEF vars, IInv, BridgeTypeOK, RowsTypeOK, Quiet
  <2>2. QED BY <2>1, CalmStep DEF Calm
<1>11. QED
  BY <1>1, <1>2, <1>3, <1>4, <1>5, <1>6, <1>7, <1>8, <1>9, <1>10 DEF Next, Callback

(* The invariant holds for ever.                                            *)
LEMMA InductiveInvariant == Spec => []IInv
  BY InitInvariant, StepInvariant, PTL DEF Spec

-----------------------------------------------------------------------------
(* Every reachable state has the shape the two schemas prescribe.           *)
THEOREM TypeCorrect == Spec => []BridgeTypeOK
<1>1. IInv => BridgeTypeOK
  BY DEF IInv
<1>2. QED BY <1>1, InductiveInvariant, PTL

(* No crash, lost answer, reclaim, pruning or resubmission makes a mutation *)
(* take effect twice for one owner and idempotency key.                     *)
THEOREM NeverTwice == Spec => []EffectAtMostOnce
<1>1. IInv => EffectAtMostOnce
  <2> SUFFICES ASSUME IInv PROVE EffectAtMostOnce
    OBVIOUS
  <2>1. \A c \in Commands : effects[c] = IF Done(c) THEN 1 ELSE 0
    BY DEF IInv, EffectsRecorded
  <2>2. \A c, d \in Commands : Done(c) /\ Done(d) /\ Slot(c) = Slot(d) => c = d
    BY DEF Done, HasReceipt
  <2>3. QED BY <2>1, <2>2 DEF EffectAtMostOnce
<1>2. QED BY <1>1, InductiveInvariant, PTL

(* What PostgreSQL calls applied, SQLite holds the exact receipt of.        *)
THEOREM AppliedIsBacked == Spec => []AppliedHasReceipt
<1>1. IInv => AppliedHasReceipt
  BY DEF IInv
<1>2. QED BY <1>1, InductiveInvariant, PTL

(* A command the executor acknowledged as rejected has not taken effect.    *)
THEOREM RejectionIsTrue == Spec => []RejectedByExecutorNeverApplied
<1>1. IInv => RejectedByExecutorNeverApplied
  BY DEF IInv
<1>2. QED BY <1>1, InductiveInvariant, PTL

(* Only the passing of time takes a claim from the executor at work.        *)
THEOREM ClaimStands == Spec => []ClaimUndisturbed
<1>1. IInv => ClaimUndisturbed
  BY DEF IInv
<1>2. QED BY <1>1, InductiveInvariant, PTL

-----------------------------------------------------------------------------
(* Authorization: a stale command stays unapplied while it is active.       *)
LEMMA StaleStep ==
  ASSUME IInv, [Next]_vars, NEW c \in Commands, Stale(c), row'[c].status \in Active
  PROVE  Stale(c)'
<1> USE DEF IInv
<1>0. /\ RowsTypeOK /\ LeasedApplies /\ row[c] \in Row /\ row[c].status \in Active
      /\ row[c].owner \in Owners /\ auth \in [Owners -> Permission] /\ MaxEpoch \in Nat
  BY BridgeAssumption DEF BridgeTypeOK, RowsTypeOK, Stale, RowsSane, Slot, Slots, Active
<1> DEFINE Held == row'[c].owner = row[c].owner /\ row'[c].auth = row[c].auth
           AtWork == bridge'.pc \in {"apply", "committed"} /\ bridge'.cmd = c
<1>1. CASE Calm(c) /\ UNCHANGED <<effects, auth>> /\ ~AtWork
  <2>1. Held
    <3>1. CASE Lapsed(c)
      BY <1>0, <3>1 DEF Lapsed, Row
    <3>2. CASE row'[c] = row[c]
      BY <3>2
    <3>3. QED
      BY <1>0, <1>1, <3>1, <3>2, RememberedType
      DEF Calm, Quiet, Born, Dropped, GaveUp, Exhausted, Expired, Active, Terminal, Row
  <2>2. QED BY <1>1, <2>1 DEF Stale
<1>3. ASSUME NEW o \in Owners, NEW k \in Keys, NEW h \in Hashes, NEW t, Submit(o, k, h, t)
      PROVE  Stale(c)'
  <2>1. auth[o] \in Authorization
    BY <1>0, PermissionType
  <2>2. Calm(c)
    BY <1>0, <1>3, <2>1, EnqueueQuiet DEF Submit, Calm
  <2>3. ~AtWork
    BY <1>3 DEF Submit, Stale
  <2>4. QED BY <1>1, <1>3, <2>2, <2>3 DEF Submit
<1>4. CASE (\E o \in Owners : Revoke(o) \/ MoveEpoch(o)) \/ Crash
  <2> DEFINE p == row[c].owner
  <2>1. row[c].auth.revision <= auth[p].revision /\ row[c].auth.revision # auth[p].revision
    BY <1>0 DEF RowsSane, Stale
  <2>2. /\ auth' \in [Owners -> Permission]
        /\ auth[p].revision <= auth'[p].revision
    BY <1>0, <1>4, AuthMoves
  <2>3. /\ row[c].auth.revision \in Nat
        /\ auth[p].revision \in 0 .. MaxEpoch /\ auth'[p].revision \in 0 .. MaxEpoch
    BY <1>0, <2>2 DEF Row, Authorization, Permission
  <2>4. auth'[p].revision # row[c].auth.revision
    BY <1>0, <2>1, <2>2, <2>3
  <2>5. UNCHANGED <<row, effects>> /\ ~AtWork
    BY <1>4, AtType DEF Revoke, MoveEpoch, Crash, Stale
  <2>6. QED BY <2>4, <2>5 DEF Stale
<1>5. ASSUME NEW d \in Commands, LeaseRunsOut(d) PROVE Stale(c)'
  <2>1. Calm(c)
    BY <1>0, <1>5, ExpireQuiet DEF LeaseRunsOut, Calm
  <2>2. QED BY <1>1, <1>5, <2>1 DEF LeaseRunsOut, Stale
<1>6. CASE Boot \/ PumpRecover
  <2>1. Calm(c)
    BY <1>0, <1>6, RecoverCalm DEF Boot, PumpRecover
  <2>2. ~AtWork
    BY <1>6, AtType DEF Boot, PumpRecover
  <2>3. QED BY <1>1, <1>6, <2>1, <2>2 DEF Boot, PumpRecover
<1>7. CASE PumpClaim \/ ClaimAnswerLost
  <2>1. PICK d \in Commands : /\ FirstClaimable(d, Commands) /\ row' = Granted(d)
                              /\ bridge' = Claimed(d) \/ bridge' = At("idle")
    BY <1>7 DEF PumpClaim, ClaimAnswerLost
  <2>2. row[d] \in Row /\ row[d].attempt < MaxAttempts /\ row[d].attempt \in 0 .. MaxAttempts
    BY <1>0, <2>1 DEF FirstClaimable, Claimable, RowsTypeOK, Row
  <2>3. Held
    BY <1>0, <2>1, <2>2, GrantedRow
  <2>4. ~AtWork
    BY <2>1, <2>2, AtType, ClaimedType
  <2>5. QED BY <1>7, <2>3, <2>4 DEF PumpClaim, ClaimAnswerLost, Stale
<1>8. CASE PumpNothing \/ GiveUp
  <2>1. ~AtWork
    BY <1>8, AtType DEF PumpNothing, GiveUp
  <2>2. QED BY <1>8, <2>1 DEF PumpNothing, GiveUp, Stale
<1>9. CASE Acknowledge
  <2>1. ~AtWork
    BY <1>9, AtType DEF Acknowledge
  <2>2. bridge.cmd \in Commands
    BY <1>9 DEF Acknowledge, ExecutingCommand, Executing
  <2>3. row'[c] = row[c]
    <3>1. CASE UNCHANGED row
      BY <3>1
    <3>2. ASSUME NEW r \in Receipts \cup {None}, Decide(bridge.cmd, bridge.gen, r)
          PROVE  row'[c] = row[c]
      <4>1. PICK d \in Commands : d = bridge.cmd
        BY <2>2
      <4>2. /\ \A e \in Commands \ {d} : row'[e] = row[e]
            /\ row'[d].status \in Terminal
        BY <1>0, <3>2, <4>1, DecideOnly DEF Terminal
      <4>3. d # c
        BY <4>2 DEF Active, Terminal
      <4>4. QED BY <4>2, <4>3
    <3>3. QED
      BY <1>9, <3>1, <3>2, RowsAssumption DEF Acknowledge, Decide
  <2>4. QED BY <1>9, <2>1, <2>3 DEF Acknowledge, Stale
<1>10. CASE Probe \/ Authorize \/ ApplyWithoutEffect \/ ApplyMutation \/ ApplyRefused
              \/ ApplyReturns \/ LoseLease
  <2>1. UNCHANGED <<row, auth>> /\ bridge \in Bridge
    BY <1>10 DEF Probe, Authorize, ApplyWithoutEffect, ApplyMutation, ApplyRefused,
                 ApplyReturns, LoseLease, BridgeTypeOK
  <2>2. bridge'.cmd = bridge.cmd
    BY <1>10, <2>1 DEF Probe, Authorize, ApplyWithoutEffect, ApplyMutation, ApplyRefused,
                       ApplyReturns, LoseLease, Reach, Conclude, Bridge
  <2>3. CASE bridge.cmd = c
    <3>1. ~ApplyWithoutEffect /\ ~ApplyMutation
      BY <2>3 DEF ApplyWithoutEffect, ApplyMutation, Stale
    <3>2. effects' = effects
      BY <1>10, <3>1 DEF Probe, Authorize, ApplyRefused, ApplyReturns, LoseLease
    <3>3. bridge'.pc \notin {"apply", "committed"}
      BY <1>10, <2>1, <2>3, <3>1
      DEF Probe, Authorize, Authorized, ApplyRefused, ApplyReturns, LoseLease, Reach, Conclude,
          Bridge, Stale
    <3>4. QED BY <2>1, <3>2, <3>3 DEF Stale
  <2>4. CASE bridge.cmd # c
    <3>1. effects'[c] = effects[c]
      BY <1>10, <2>4 DEF Probe, Authorize, ApplyWithoutEffect, ApplyMutation, ApplyRefused,
                         ApplyReturns, LoseLease, BridgeTypeOK
    <3>2. QED BY <2>1, <2>2, <2>4, <3>1 DEF Stale
  <2>5. QED BY <2>3, <2>4
<1>11. CASE UNCHANGED vars
  BY <1>11 DEF vars, Stale
<1>12. QED
  BY <1>3, <1>4, <1>5, <1>6, <1>7, <1>8, <1>9, <1>10, <1>11 DEF Next, Callback

(* Once its authorization is gone, a command not yet at work never is.      *)
THEOREM RevocationHolds == Spec => RevokedNeverApplies
<1>1. IInv /\ [Next]_vars =>
        [\A c \in Commands : Stale(c) /\ row'[c].status \in Active => Stale(c)']_vars
  BY StaleStep
<1>2. QED BY <1>1, InductiveInvariant, PTL DEF Spec, RevokedNeverApplies

-----------------------------------------------------------------------------
(***************************************************************************)
(* The fenced executor implements CommandPromise.  A statement that accepts *)
(* a command, commits a mutation, acknowledges or gives up commands is the  *)
(* step of the same kind of the promise; every other step is invisible to   *)
(* clients.                                                                 *)
(***************************************************************************)

(* A step that clients cannot tell from none, as far as d is concerned.     *)
SameView(d) ==
    /\ PromisedSlot(d)' = PromisedSlot(d)
    /\ Mutates(d)' = Mutates(d)
    /\ AnswerOf(d)' = AnswerOf(d)

(* The abstract state changes only where some view or some effect does.     *)
LEMMA InvisibleStep ==
  ASSUME \A d \in Commands : SameView(d), UNCHANGED effects
  PROVE  UNCHANGED Promise!vars
  BY DEF SameView, Promise!vars

(* A row whose identity, liveness and code stay looks the same.             *)
LEMMA SameRowView ==
  ASSUME NEW d \in Commands, row[d].status # "none", row'[d].status # "none",
         row'[d].owner = row[d].owner, row'[d].key = row[d].key, row'[d].hash = row[d].hash,
         row'[d].code = row[d].code,
         row'[d].status \in Active <=> row[d].status \in Active
  PROVE  SameView(d)
<1>1. PromisedSlot(d)' = PromisedSlot(d) /\ Mutates(d)' = Mutates(d)
  BY DEF PromisedSlot, Slot, Mutates, IsRead
<1>2. AnswerOf(d)' = AnswerOf(d)
  <2>1. CASE row[d].status \in Active
    BY <2>1 DEF AnswerOf
  <2>2. CASE row[d].status \notin Active
    BY <2>2 DEF AnswerOf
  <2>3. QED BY <2>1, <2>2
<1>3. QED BY <1>1, <1>2 DEF SameView

(* Nothing a quiet statement does to a known row is visible.                *)
LEMMA QuietView ==
  ASSUME RowsTypeOK, LeasedApplies, NEW d \in Commands, Quiet(d),
         row[d].status # "none" \/ row'[d].status = "none"
  PROVE  SameView(d)
<1>0. row[d] \in Row
  BY DEF RowsTypeOK
<1>1. CASE row'[d] = row[d]
  BY <1>1 DEF SameView, PromisedSlot, Slot, Mutates, IsRead, AnswerOf
<1>2. CASE Dropped(d)
  <2>1. /\ row'[d].status = "pruned" /\ row[d].status \in Terminal
        /\ row'[d].owner = row[d].owner /\ row'[d].key = row[d].key
        /\ row'[d].hash = row[d].hash /\ row'[d].code = row[d].code
    BY <1>0, <1>2, RememberedType DEF Dropped
  <2>2. QED BY <2>1, SameRowView DEF Terminal, Active
<1>3. CASE Lapsed(d)
  <2>1. /\ row'[d].status = row[d].status /\ row[d].status = "applying"
        /\ row'[d].owner = row[d].owner /\ row'[d].key = row[d].key
        /\ row'[d].hash = row[d].hash /\ row'[d].code = row[d].code
    BY <1>0, <1>3 DEF Lapsed, LeasedApplies, Row
  <2>2. QED BY <2>1, SameRowView
<1>4. QED BY <1>1, <1>2, <1>3 DEF Quiet, Born

(* Nothing is promised before the first submission.                         *)
LEMMA PromiseInit == Init => Promise!Init
<1> SUFFICES ASSUME Init PROVE Promise!Init
  OBVIOUS
<1>1. \A c \in Commands : row[c].status = "none" /\ effects[c] = 0
  BY DEF Init, RowsInit, NoRow
<1>2. \A c \in Commands : PromisedSlot(c) = None /\ Mutates(c) = FALSE
  BY <1>1 DEF PromisedSlot, Mutates
<1>2a. \A c \in Commands : AnswerOf(c) = "none"
  BY <1>1 DEF AnswerOf, Active
<1>3. {c \in Commands : effects[c] > 0} = {}
  BY <1>1
<1>4. [c \in Commands |-> PromisedSlot(c)] = [c \in Commands |-> None]
  BY <1>2
<1>5. [c \in Commands |-> Mutates(c)] = [c \in Commands |-> FALSE]
  BY <1>2, Zenon
<1>6. [c \in Commands |-> AnswerOf(c)] = [c \in Commands |-> "none"]
  BY <1>2a
<1>7. QED BY <1>3, <1>4, <1>5, <1>6 DEF Promise!Init

(* A submission accepts one command, or is a replay.                        *)
LEMMA SubmitView ==
  ASSUME IInv, NEW o \in Owners, NEW k \in Keys, NEW h \in Hashes, NEW t, Submit(o, k, h, t)
  PROVE  Promise!Next \/ UNCHANGED Promise!vars
<1>0. /\ RowsTypeOK /\ LeasedApplies /\ auth[o] \in Authorization /\ Enqueue(o, k, h, auth[o], t)
      /\ UNCHANGED effects
  BY PermissionType DEF IInv, BridgeTypeOK, Submit
<1>1. /\ \A d \in Commands : Quiet(d)
      /\ \A d \in Commands : row[d].status = "none" /\ row'[d].status # "none" =>
            row'[d] = QueuedRow(o, k, h, auth[o], arrivals + 1)
  BY <1>0, EnqueueQuiet
<1>2. \A d \in Commands : row[d].status # "none" \/ row'[d].status = "none" => SameView(d)
  BY <1>0, <1>1, QuietView
<1>3. CASE \A d \in Commands : row[d].status # "none" \/ row'[d].status = "none"
  BY <1>0, <1>2, <1>3, InvisibleStep
<1>4. CASE \E d \in Commands : row[d].status = "none" /\ row'[d].status # "none"
  <2>1. PICK c \in Commands : row[c].status = "none" /\ row'[c].status # "none"
    BY <1>4
  <2>2. \A d \in Commands \ {c} : row[d].status # "none" \/ row'[d].status = "none"
    <3>1. CASE Insert(o, k, h, auth[o], t)
      <4> DEFINE kept == AfterPrune(o, t)
      <4>1. PICK d \in Commands : row' = [kept EXCEPT ![d] = QueuedRow(o, k, h, auth[o], arrivals + 1)]
        BY <3>1 DEF Insert
      <4>2. /\ kept \in [Commands -> Row]
            /\ \A x \in Commands : \/ kept[x] = row[x]
                                   \/ row[x].status \in Terminal /\ kept[x] = Remembered(row[x])
        BY <1>0, AfterPruneType
      <4> HIDE DEF kept
      <4>3. \A x \in Commands \ {d} : row[x].status = "none" => row'[x].status = "none"
        BY <4>1, <4>2 DEF Terminal
      <4>4. QED BY <2>1, <4>3
    <3>2. CASE Replay(o, k, h, t)
      BY <1>0, <2>1, <3>2, AfterPruneType DEF Replay, Terminal
    <3>3. QED BY <1>0, <3>1, <3>2 DEF Enqueue
  <2>3. /\ row'[c].status = "queued" /\ row'[c].owner = o /\ row'[c].key = k /\ row'[c].hash = h
    <3>1. arrivals + 1 \in Nat /\ row'[c] = QueuedRow(o, k, h, auth[o], arrivals + 1)
      BY <1>0, <1>1, <2>1 DEF RowsTypeOK
    <3>2. QED BY <1>0, <3>1, QueuedRowType
  <2>4. \A d \in Commands \ {c} : SameView(d)
    BY <1>2, <2>2
  <2>5. AnswerOf(c) = "none" /\ AnswerOf(c)' = "pending"
    <3>1. AnswerOf(c) = "none"
      BY <2>1 DEF AnswerOf, Active
    <3>2. AnswerOf(c)' = "pending"
      BY <2>3 DEF AnswerOf, Active
    <3>3. QED BY <3>1, <3>2
  <2>6. PromisedSlot(c)' = <<o, k>> /\ <<o, k>> \in Slots /\ Mutates(c)' \in BOOLEAN
    BY <2>3 DEF PromisedSlot, Slot, Slots, Mutates, Active
  <2>7. Promise!Accept(c, <<o, k>>, Mutates(c)')
    <3>1. \A d \in Commands \ {c} : PromisedSlot(d)' = PromisedSlot(d)
      BY <2>4 DEF SameView
    <3>2. \A d \in Commands \ {c} : Mutates(d)' = Mutates(d)
      BY <2>4 DEF SameView
    <3>3. \A d \in Commands \ {c} : AnswerOf(d)' = AnswerOf(d)
      BY <2>4 DEF SameView
    <3>4. [d \in Commands |-> PromisedSlot(d)]'
            = [[d \in Commands |-> PromisedSlot(d)] EXCEPT ![c] = <<o, k>>]
      BY <2>6, <3>1
    <3>5. [d \in Commands |-> Mutates(d)]'
            = [[d \in Commands |-> Mutates(d)] EXCEPT ![c] = Mutates(c)']
      BY <3>2, Zenon
    <3>6. [d \in Commands |-> AnswerOf(d)]'
            = [[d \in Commands |-> AnswerOf(d)] EXCEPT ![c] = "pending"]
      BY <2>5, <3>3
    <3>7. QED BY <1>0, <2>5, <3>4, <3>5, <3>6 DEF Promise!Accept
  <2>8. QED BY <2>6, <2>7 DEF Promise!Next
<1>5. QED BY <1>3, <1>4

(* Recovery gives up a batch of pending commands at once.                   *)
LEMMA RecoverView ==
  ASSUME IInv, RecoverExpiredLeases, UNCHANGED effects
  PROVE  Promise!Next \/ UNCHANGED Promise!vars
<1>0. RowsTypeOK
  BY DEF IInv, BridgeTypeOK
<1>1. CASE UNCHANGED row
  BY <1>1 DEF Promise!vars, PromisedSlot, Slot, Mutates, IsRead, AnswerOf
<1>2. ASSUME NEW S \in SUBSET {c \in Commands : Exhausted(c)}, RecoverExhausted(S)
      PROVE  Promise!Next
  <2>1. ASSUME NEW c \in S
        PROVE  /\ c \in Commands /\ row[c].status = "applying"
               /\ row'[c].status = "rejected" /\ row'[c].code = "exhausted"
               /\ row'[c].owner = row[c].owner /\ row'[c].key = row[c].key
               /\ row'[c].hash = row[c].hash
    <3>1. c \in Commands /\ row[c].status = "applying" /\ row[c] \in Row
      BY <1>0, <2>1 DEF Exhausted, Expired, RowsTypeOK
    <3>2. row'[c] = [row[c] EXCEPT !.status = "rejected", !.code = "exhausted",
                                   !.ended = endings + 1]
      BY <1>2, <3>1 DEF RecoverExhausted
    <3>3. QED BY <3>1, <3>2 DEF Row
  <2>2. \A c \in Commands \ S : row'[c] = row[c]
    BY <1>2 DEF RecoverExhausted
  <2>3. \A c \in S : AnswerOf(c) = "pending" /\ AnswerOf(c)' = "exhausted"
    BY <2>1 DEF AnswerOf, Active, Verdict
  <2>4. \A c \in Commands \ S : AnswerOf(c)' = AnswerOf(c)
    BY <2>2 DEF AnswerOf
  <2>5. \A c \in Commands : PromisedSlot(c)' = PromisedSlot(c)
    BY <2>1, <2>2 DEF PromisedSlot, Slot
  <2>6. \A c \in Commands : Mutates(c)' = Mutates(c)
    BY <2>1, <2>2 DEF Mutates, IsRead
  <2>7. [c \in Commands |-> PromisedSlot(c)]' = [c \in Commands |-> PromisedSlot(c)]
    BY <2>5
  <2>8. [c \in Commands |-> Mutates(c)]' = [c \in Commands |-> Mutates(c)]
    BY <2>6, Zenon
  <2>9. [c \in Commands |-> AnswerOf(c)]'
          = [c \in Commands |-> IF c \in S THEN "exhausted"
                                ELSE [d \in Commands |-> AnswerOf(d)][c]]
    BY <2>3, <2>4
  <2>10. \A c \in S : [d \in Commands |-> AnswerOf(d)][c] = "pending"
    BY <2>1, <2>3
  <2>11. Promise!GiveUp(S)
    BY <2>7, <2>8, <2>9, <2>10 DEF Promise!GiveUp
  <2>12. S \in SUBSET Commands
    BY <2>1
  <2>13. QED BY <2>11, <2>12 DEF Promise!Next
<1>3. QED BY <1>1, <1>2 DEF RecoverExpiredLeases

(* Clients cannot tell that a command was claimed.                          *)
LEMMA ClaimView ==
  ASSUME IInv, NEW c \in Commands, FirstClaimable(c, Commands), row' = Granted(c),
         UNCHANGED effects
  PROVE  UNCHANGED Promise!vars
<1>1. /\ RowsTypeOK /\ row[c].attempt < MaxAttempts
      /\ row[c].status \in Active
  BY DEF IInv, BridgeTypeOK, FirstClaimable, Claimable, Expired, Active
<1>2. /\ \A d \in Commands \ {c} : row'[d] = row[d]
      /\ row'[c].status = "applying" /\ row'[c].owner = row[c].owner
      /\ row'[c].key = row[c].key /\ row'[c].hash = row[c].hash /\ row'[c].code = row[c].code
  BY <1>1, GrantedRow
<1>3. SameView(c)
  BY <1>1, <1>2, SameRowView DEF Active
<1>4. \A d \in Commands \ {c} : SameView(d)
  BY <1>2 DEF SameView, PromisedSlot, Slot, Mutates, IsRead, AnswerOf
<1>5. QED BY <1>3, <1>4, InvisibleStep

(* A lease that runs out changes no answer.                                 *)
LEMMA LeaseView ==
  ASSUME IInv, NEW c \in Commands, LeaseRunsOut(c)
  PROVE  UNCHANGED Promise!vars
<1>1. /\ RowsTypeOK /\ LeasedApplies /\ ExpireLease(c) /\ UNCHANGED effects
  BY DEF IInv, BridgeTypeOK, LeaseRunsOut
<1>2. \A d \in Commands : Quiet(d)
  BY <1>1, ExpireQuiet
<1>3. \A d \in Commands : row[d].status = "none" => row'[d].status = "none"
  BY <1>1 DEF ExpireLease, LeasedApplies, RowsTypeOK
<1>4. QED BY <1>1, <1>2, <1>3, QuietView, InvisibleStep

(* A mutation takes effect for the first time for its owner and key.        *)
LEMMA ApplyView == IInv /\ ApplyMutation => Promise!Next
<1> SUFFICES ASSUME IInv, ApplyMutation PROVE Promise!Next
  OBVIOUS
<1> USE DEF IInv
<1>1. PICK c \in Commands : c = bridge.cmd
  BY DEF ApplyMutation, ExecutingCommand, Executing
<1>2. /\ row[c].status = "applying" /\ ~IsRead(c)
      /\ receipts[Slot(c)] = None
      /\ effects' = [effects EXCEPT ![c] = @ + 1] /\ UNCHANGED row
      /\ effects \in [Commands -> Nat]
  BY <1>1 DEF ApplyMutation, ClaimUndisturbed, Executing, Unrecorded, BridgeTypeOK
<1>3. AnswerOf(c) = "pending" /\ Mutates(c) /\ PromisedSlot(c) = Slot(c)
  BY <1>2 DEF AnswerOf, Active, Mutates, PromisedSlot
<1>4. \A d \in {x \in Commands : effects[x] > 0} : PromisedSlot(d) # PromisedSlot(c)
  <2> SUFFICES ASSUME NEW d \in Commands, effects[d] > 0 PROVE PromisedSlot(d) # PromisedSlot(c)
    OBVIOUS
  <2>1. Done(d)
    BY DEF EffectsRecorded
  <2>2. receipts[Slot(d)] # None /\ PromisedSlot(d) = Slot(d)
    BY <2>1 DEF Done, HasReceipt, PromisedSlot
  <2>3. QED BY <1>2, <1>3, <2>2
<1>5. {x \in Commands : effects[x] > 0}' = {x \in Commands : effects[x] > 0} \cup {c}
  BY <1>2
<1>6. [d \in Commands |-> PromisedSlot(d)]' = [d \in Commands |-> PromisedSlot(d)]
  BY <1>2 DEF PromisedSlot, Slot
<1>7. \A d \in Commands : Mutates(d)' = Mutates(d)
  BY <1>2 DEF Mutates, IsRead
<1>8. [d \in Commands |-> Mutates(d)]' = [d \in Commands |-> Mutates(d)]
  BY <1>7, Zenon
<1>9. [d \in Commands |-> AnswerOf(d)]' = [d \in Commands |-> AnswerOf(d)]
  BY <1>2 DEF AnswerOf
<1>10. /\ [d \in Commands |-> AnswerOf(d)][c] = "pending"
       /\ \A d \in {x \in Commands : effects[x] > 0} :
             [x \in Commands |-> PromisedSlot(x)][d] # [x \in Commands |-> PromisedSlot(x)][c]
  BY <1>3, <1>4
<1>11. [d \in Commands |-> Mutates(d)][c]
  BY <1>3, Zenon
<1>12. Promise!TakeEffect(c)
  BY <1>5, <1>6, <1>8, <1>9, <1>10, <1>11 DEF Promise!TakeEffect
<1>13. QED BY <1>12 DEF Promise!Next
(* A fenced acknowledgement answers the command, with the truth.            *)
LEMMA AcknowledgeView == IInv /\ Acknowledge => Promise!Next \/ UNCHANGED Promise!vars
<1> SUFFICES ASSUME IInv, Acknowledge PROVE Promise!Next \/ UNCHANGED Promise!vars
  OBVIOUS
<1> USE DEF IInv
<1>0. bridge.pc = "decided" /\ UNCHANGED effects
  BY DEF Acknowledge
<1>1. PICK c \in Commands : c = bridge.cmd
  BY <1>0 DEF ExecutingCommand, Executing
<1>2. PICK g \in 0 .. MaxAttempts : g = bridge.gen
  BY DEF BridgeTypeOK, Bridge
<1>3. CASE UNCHANGED row
  BY <1>0, <1>3 DEF Promise!vars, PromisedSlot, Slot, Mutates, IsRead, AnswerOf
<1>4. ASSUME NEW r \in Receipts \cup {None}, Decide(c, g, r),
             bridge.decision = IF r = None THEN "rejected" ELSE "applied"
      PROVE  Promise!Next
  <2> DEFINE a == IF r = None THEN "rejected" ELSE "applied"
  <2>1. /\ \A d \in Commands \ {c} : row'[d] = row[d]
        /\ row[c].status = "applying"
        /\ row'[c].owner = row[c].owner /\ row'[c].key = row[c].key
        /\ row'[c].hash = row[c].hash
        /\ IF r = None THEN row'[c].status = "rejected" /\ row'[c].code = "executor"
                       ELSE row'[c].status = "applied" /\ row'[c].code = row[c].code
    BY <1>4, DecideOnly DEF BridgeTypeOK, FenceHolds
  <2>2. row[c].code = None /\ None \notin Codes
    BY <2>1, RowsAssumption DEF RowsSane, Active
  <2>3. AnswerOf(c) = "pending" /\ AnswerOf(c)' = a
    <3>1. AnswerOf(c) = "pending"
      BY <2>1 DEF AnswerOf, Active
    <3>2. AnswerOf(c)' = Verdict(row'[c].code)
      BY <2>1 DEF AnswerOf, Active
    <3>3. Verdict(row'[c].code) = a
      BY <2>1, <2>2 DEF Verdict, Codes
    <3>4. QED BY <3>1, <3>2, <3>3
  <2>4. \A d \in Commands \ {c} : AnswerOf(d)' = AnswerOf(d)
    BY <2>1 DEF AnswerOf
  <2>5. \A d \in Commands : PromisedSlot(d)' = PromisedSlot(d)
    BY <2>1 DEF PromisedSlot, Slot
  <2>6. \A d \in Commands : Mutates(d)' = Mutates(d)
    BY <2>1 DEF Mutates, IsRead
  <2>7. r # None => (Mutates(c) => effects[c] > 0)
    <3>1. r # None => IsRead(c) \/ HasReceipt(c)
      BY <1>0, <1>1, <1>4 DEF DecisionBacked
    <3>2. HasReceipt(c) => effects[c] = 1
      BY <2>1 DEF EffectsRecorded, Done
    <3>3. QED BY <3>1, <3>2 DEF Mutates
  <2>8. r = None => effects[c] = 0
    BY <1>0, <1>1, <1>4 DEF DecisionBacked
  <2>9. [d \in Commands |-> PromisedSlot(d)]' = [d \in Commands |-> PromisedSlot(d)]
    BY <2>5
  <2>10. [d \in Commands |-> Mutates(d)]' = [d \in Commands |-> Mutates(d)]
    BY <2>6, Zenon
  <2>11. [d \in Commands |-> AnswerOf(d)]' = [[d \in Commands |-> AnswerOf(d)] EXCEPT ![c] = a]
    BY <2>3, <2>4
  <2>12. [d \in Commands |-> AnswerOf(d)][c] = "pending"
    BY <2>3
  <2>13. [d \in Commands |-> Mutates(d)][c] => Mutates(c)
    BY Zenon
  <2>14. a = "applied" => ([d \in Commands |-> Mutates(d)][c]
                            => c \in {d \in Commands : effects[d] > 0})
    BY <2>7, <2>13
  <2>15. a = "rejected" => c \notin {d \in Commands : effects[d] > 0}
    BY <2>8
  <2>16. a \in {"applied", "rejected"}
    OBVIOUS
  <2> HIDE DEF a
  <2>17. Promise!Answer(c, a)
    BY <1>0, <2>9, <2>10, <2>11, <2>12, <2>14, <2>15 DEF Promise!Answer
  <2>18. QED BY <2>16, <2>17 DEF Promise!Next
<1>5. CASE bridge.decision = "applied" /\ \E r \in Receipts : AckApplied(c, g, r)
  <2>1. PICK r \in Receipts : AckApplied(c, g, r)
    BY <1>5
  <2>2. r # None /\ Decide(c, g, r)
    BY <2>1, RowsAssumption DEF Decide
  <2>3. QED BY <1>4, <1>5, <2>2
<1>6. CASE bridge.decision = "rejected" /\ AckRejected(c, g)
  <2>1. Decide(c, g, None)
    BY <1>6 DEF Decide
  <2>2. QED BY <1>4, <1>6, <2>1
<1>7. QED BY <1>1, <1>2, <1>3, <1>5, <1>6 DEF Acknowledge

(* Every step of the executor is a step of the promise, or invisible.       *)
LEMMA StepView == IInv /\ [Next]_vars => [Promise!Next]_(Promise!vars)
<1> SUFFICES ASSUME IInv, [Next]_vars PROVE Promise!Next \/ UNCHANGED Promise!vars
  OBVIOUS
<1>1. CASE UNCHANGED <<row, effects>>
  BY <1>1 DEF Promise!vars, PromisedSlot, Slot, Mutates, IsRead, AnswerOf
<1>2. ASSUME NEW o \in Owners, NEW k \in Keys, NEW h \in Hashes, NEW t, Submit(o, k, h, t)
      PROVE  Promise!Next \/ UNCHANGED Promise!vars
  BY <1>2, SubmitView
<1>3. ASSUME NEW c \in Commands, LeaseRunsOut(c)
      PROVE  UNCHANGED Promise!vars
  BY <1>3, LeaseView
<1>4. CASE Boot \/ PumpRecover
  BY <1>4, RecoverView DEF Boot, PumpRecover
<1>5. CASE PumpClaim \/ ClaimAnswerLost
  BY <1>5, ClaimView DEF PumpClaim, ClaimAnswerLost
<1>6. CASE ApplyMutation
  BY <1>6, ApplyView
<1>7. CASE Acknowledge
  BY <1>7, AcknowledgeView
<1>8. CASE \/ UNCHANGED vars \/ (\E o \in Owners : Revoke(o) \/ MoveEpoch(o)) \/ PumpNothing
           \/ Probe \/ Authorize \/ ApplyWithoutEffect \/ ApplyRefused \/ ApplyReturns
           \/ GiveUp \/ LoseLease \/ Crash
  BY <1>1, <1>8 DEF vars, Revoke, MoveEpoch, PumpNothing, Probe, Authorize, ApplyWithoutEffect,
                    ApplyRefused, ApplyReturns, GiveUp, LoseLease, Crash
<1>9. QED
  BY <1>2, <1>3, <1>4, <1>5, <1>6, <1>7, <1>8 DEF Next, Callback

(* The executor keeps its promise to clients: whatever crashes, lost        *)
(* answers, reclaims, retention and revocation do, each accepted command is *)
(* answered at most once, a mutation takes effect at most once for its      *)
(* owner and key, and an answer other than "exhausted" tells the truth.     *)
THEOREM PromiseKept == Spec => KeepsPromise
<1>1. Init => Promise!Init
  BY PromiseInit
<1>2. IInv /\ [Next]_vars => [Promise!Next]_(Promise!vars)
  BY StepView
<1>3. QED BY <1>1, <1>2, InductiveInvariant, PTL DEF Spec, KeepsPromise, Promise!Spec
=============================================================================
