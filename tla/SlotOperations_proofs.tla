----------------------- MODULE SlotOperations_proofs -----------------------
(***************************************************************************)
(* Proofs about SlotOperations, for any slots, cabinets, tags and bounds,  *)
(* and about the two refinements it has a part in.                         *)
(***************************************************************************)
EXTENDS SlotCustody, StockLedger, SequenceTheorems, TLAPS

(* The status written by _sync_cabinet_status is a cabinet status.         *)
LEMMA CabinetStatusType ==
    ASSUME NEW c, NEW st
    PROVE  CabinetStatus(c, st) \in BinStatuses
  BY DEF CabinetStatus, BinStatuses

(* Setting a slot's status and synchronising its cabinet keeps the types.  *)
LEMMA SetSlotAndSyncType ==
    ASSUME TypeOK, NEW s \in Slots, NEW new \in SlotStatuses,
           SetSlotAndSync(s, new)
    PROVE  /\ slotStatus' \in [Slots -> SlotStatuses]
           /\ cabStatus' \in [Cabinets -> BinStatuses]
  <1>1. slotStatus' \in [Slots -> SlotStatuses]
    BY DEF SetSlotAndSync, TypeOK
  <1>2. CabinetStatus(CabinetOf[s], slotStatus') \in BinStatuses
    BY CabinetStatusType
  <1>3. cabStatus' \in [Cabinets -> BinStatuses]
    BY <1>2 DEF SetSlotAndSync, TypeOK
  <1>4. QED
    BY <1>1, <1>3

(* Logging a well-formed row keeps the log well-formed, adds it at the end *)
(* and leaves the earlier rows as they are.                                *)
LEMMA LogOpEffect ==
    ASSUME TypeOK, NEW row \in OpRows, LogOp(row)
    PROVE  /\ ops' \in Seq(OpRows)
           /\ DOMAIN ops = 1..Len(ops)
           /\ DOMAIN ops' = 1..(Len(ops) + 1)
           /\ Len(ops) \in Nat
           /\ ops'[Len(ops) + 1] = row
           /\ \A i \in DOMAIN ops : ops'[i] = ops[i]
  BY DEF TypeOK, LogOp

(* Answering or cancelling operation i replaces its row and no other.      *)
LEMMA ReplaceRow ==
    ASSUME TypeOK, NEW i \in DOMAIN ops, NEW row \in OpRows,
           ops' = [ops EXCEPT ![i] = row]
    PROVE  /\ ops' \in Seq(OpRows)
           /\ DOMAIN ops' = DOMAIN ops
           /\ ops'[i] = row
           /\ \A j \in DOMAIN ops : j # i => ops'[j] = ops[j]
  <1>1. ops \in Seq(OpRows) /\ i \in 1..Len(ops)
    BY DEF TypeOK
  <1>2. ops' \in Seq(OpRows)
    BY <1>1, ExceptSeq
  <1>3. QED
    BY <1>1, <1>2

(* A row found in the log is a row: its fields have their types.           *)
LEMMA RowType ==
    ASSUME TypeOK, NEW i \in DOMAIN ops
    PROVE  /\ ops[i] \in OpRows
           /\ ops[i].slot \in Slots
           /\ ops[i].kind \in OpKinds
           /\ ops[i].status \in OpStatuses
           /\ ops[i].before \in Nat
           /\ ops[i].after \in Nat
           /\ ops[i].reconcile \in BOOLEAN
  <1>1. ops \in Seq(OpRows) /\ i \in 1..Len(ops)
    BY DEF TypeOK
  <1>2. ops[i] \in OpRows
    BY <1>1, ElementOfSeq
  <1>3. QED
    BY <1>2 DEF OpRows

(* The row made by OpRow is a row.                                         *)
LEMMA OpRowType ==
    ASSUME NEW kind \in OpKinds, NEW s \in Slots, NEW status \in OpStatuses,
           NEW before \in Nat, NEW after \in Nat, NEW reconcile \in BOOLEAN
    PROVE  OpRow(kind, s, status, before, after, reconcile) \in OpRows
  BY DEF OpRow, OpRows

-----------------------------------------------------------------------------
(* Types.                                                                  *)

(* The statuses the handlers write are slot statuses.                      *)
LEMMA StatusTypes ==
    /\ AwaitingStatuses \subseteq SlotStatuses
    /\ PatchStatuses \subseteq SlotStatuses
    /\ {"empty", "occupied", "checked_out"} \subseteq SlotStatuses
  BY PatchAssumption DEF AwaitingStatuses, SlotStatuses

(* A denied take-out leaves the slot unregistered or empty.                *)
LEMMA AfterDeniedTakeOutType ==
    ASSUME NEW s PROVE AfterDeniedTakeOut(s) \in {"checkout_unregistered", "empty"}
  BY DEF AfterDeniedTakeOut

(* The stock after a return is clamped: it is never negative.              *)
LEMMA StockAfterReturnType ==
    ASSUME NEW before \in Nat, NEW consumed \in Nat, NEW reconcile \in BOOLEAN
    PROVE  StockAfterReturn(before, consumed, reconcile) \in Nat
  BY DEF StockAfterReturn

(* Registration and the manual changes keep the types.                     *)
LEMMA ManageType ==
    ASSUME TypeOK, NEW s \in Slots, Manage(s) PROVE TypeOK'
  <1> USE BoundsAssumption
  <1>1. ASSUME NEW e \in Epcs, NEW q \in 0..MaxQty, Register(s, e, q)
        PROVE  TypeOK'
    <2>0. q \in Nat
      OBVIOUS
    <2>1. OpRow("register_in", s, "confirmed", 0, q, FALSE) \in OpRows
      BY <2>0, OpRowType DEF OpKinds, OpStatuses
    <2>2. ops' \in Seq(OpRows)
      BY <1>1, <2>1, LogOpEffect DEF Register
    <2>3. QED
      BY <1>1, <2>2, StatusTypes DEF Register, TypeOK
  <1>2. ASSUME NEW kind \in OpKinds, NEW e \in Epcs \cup {NoEpc},
               ChangeTag(kind, s, e)
        PROVE  TypeOK'
    <2>1. OpRow(kind, s, "confirmed", qty[s], qty[s], FALSE) \in OpRows
      BY OpRowType DEF TypeOK, OpStatuses
    <2>2. ops' \in Seq(OpRows)
      BY <1>2, <2>1, LogOpEffect DEF ChangeTag
    <2>3. QED
      BY <1>2, <2>2 DEF ChangeTag, TypeOK
  <1>3. ASSUME NEW e \in Epcs, BindTag(s, e) PROVE TypeOK'
    BY <1>2, <1>3 DEF BindTag, OpKinds
  <1>4. ASSUME NEW e \in Epcs, RebindTag(s, e) PROVE TypeOK'
    BY <1>2, <1>4 DEF RebindTag, OpKinds
  <1>5. CASE UnbindTag(s)
    BY <1>2, <1>5 DEF UnbindTag, OpKinds
  <1>6. CASE DeleteRecord(s)
    <2>1. OpRow("delete", s, "confirmed", qty[s], 0, FALSE) \in OpRows
      BY OpRowType DEF TypeOK, OpKinds, OpStatuses
    <2>2. ops' \in Seq(OpRows)
      BY <1>6, <2>1, LogOpEffect DEF DeleteRecord
    <2>3. /\ slotStatus' \in [Slots -> SlotStatuses]
          /\ cabStatus' \in [Cabinets -> BinStatuses]
      BY <1>6, SetSlotAndSyncType, StatusTypes DEF DeleteRecord
    <2>4. QED
      BY <1>6, <2>2, <2>3 DEF DeleteRecord, TypeOK
  <1>7. ASSUME NEW q \in 0..MaxQty, EditItem(s, q) PROVE TypeOK'
    <2>0. q \in Nat /\ qty[s] \in Nat
      BY DEF TypeOK
    <2>1. OpRow("manual_edit", s, "confirmed", qty[s], q, FALSE) \in OpRows
      BY <2>0, OpRowType DEF OpKinds, OpStatuses
    <2>2. ops' \in Seq(OpRows)
      BY <1>7, <2>1, LogOpEffect DEF EditItem
    <2>3. slotStatus' \in [Slots -> SlotStatuses]
      BY <1>7, StatusTypes DEF EditItem, TypeOK
    <2>4. QED
      BY <1>7, <2>2, <2>3 DEF EditItem, TypeOK
  <1>8. ASSUME NEW status \in PatchStatuses, NEW e \in PatchEpcs,
               PatchSlot(s, status, e)
        PROVE  TypeOK'
    BY <1>8, StatusTypes, PatchAssumption DEF PatchSlot, TypeOK
  <1>9. QED
    BY <1>1, <1>3, <1>4, <1>5, <1>6, <1>7, <1>8 DEF Manage

(* The watchdog's transitions keep the types.                              *)
LEMMA PresenceType ==
    ASSUME TypeOK, NEW s \in Slots, Presence(s) PROVE TypeOK'
  <1>1. CASE LeaveUnregistered(s)
    <2>1. /\ slotStatus' \in [Slots -> SlotStatuses]
          /\ cabStatus' \in [Cabinets -> BinStatuses]
      BY <1>1, SetSlotAndSyncType, StatusTypes DEF LeaveUnregistered
    <2>2. QED
      BY <1>1, <2>1 DEF LeaveUnregistered, TypeOK
  <1>2. CASE RequestTakeOut(s)
    <2>1. OpRow("take_out", s, "pending", qty[s], qty[s], FALSE) \in OpRows
      BY OpRowType DEF TypeOK, OpKinds, OpStatuses
    <2>2. ops' \in Seq(OpRows)
      BY <1>2, <2>1, LogOpEffect DEF RequestTakeOut
    <2>3. /\ slotStatus' \in [Slots -> SlotStatuses]
          /\ cabStatus' \in [Cabinets -> BinStatuses]
      BY <1>2, SetSlotAndSyncType, StatusTypes DEF RequestTakeOut, AwaitingStatuses
    <2>4. QED
      BY <1>2, <2>2, <2>3 DEF RequestTakeOut, TypeOK
  <1>3. CASE RequestReturn(s)
    <2>1. OpRow("return", s, "pending", qty[s], qty[s],
                slotStatus[s] = "checkout_unregistered") \in OpRows
      <3>1. (slotStatus[s] = "checkout_unregistered") \in BOOLEAN
        OBVIOUS
      <3>2. QED
        BY <3>1, OpRowType DEF TypeOK, OpKinds, OpStatuses
    <2>2. ops' \in Seq(OpRows)
      BY <1>3, <2>1, LogOpEffect DEF RequestReturn
    <2>3. /\ slotStatus' \in [Slots -> SlotStatuses]
          /\ cabStatus' \in [Cabinets -> BinStatuses]
      BY <1>3, SetSlotAndSyncType, StatusTypes DEF RequestReturn, AwaitingStatuses
    <2>4. QED
      BY <1>3, <2>2, <2>3 DEF RequestReturn, TypeOK
  <1>4. QED
    BY <1>1, <1>2, <1>3 DEF Presence

(* The operator's answers keep the types.                                  *)
LEMMA AnswerType ==
    ASSUME TypeOK, NEW i \in DOMAIN ops, Answer(i) PROVE TypeOK'
  <1> DEFINE s == ops[i].slot
  <1> USE BoundsAssumption
  <1>0. s \in Slots /\ ops[i].kind \in OpKinds /\ qty[s] \in Nat
    BY RowType DEF TypeOK
  <1> HIDE DEF s
  <1>1. ASSUME NEW before \in Nat, NEW after \in Nat,
               ops' = Answered(i, before, after)
        PROVE  ops' \in Seq(OpRows)
    <2>1. OpRow(ops[i].kind, s, "confirmed", before, after, FALSE) \in OpRows
      BY <1>0, OpRowType DEF OpStatuses
    <2>2. QED
      BY <1>1, <2>1, ReplaceRow DEF Answered, s
  <1>2. CASE ConfirmTakeOut(i)
    <2>1. qty[s] - 1 \in Nat /\ ops' = Answered(i, qty[s], qty[s] - 1)
      BY <1>0, <1>2 DEF ConfirmTakeOut, s
    <2>2. ops' \in Seq(OpRows)
      BY <1>0, <1>1, <2>1
    <2>3. /\ slotStatus' \in [Slots -> SlotStatuses]
          /\ cabStatus' \in [Cabinets -> BinStatuses]
      BY <1>0, <1>2, SetSlotAndSyncType, StatusTypes DEF ConfirmTakeOut, s
    <2>4. qty' = [qty EXCEPT ![s] = @ - 1] /\ UNCHANGED <<slotEpc, hasItem>>
      BY <1>2 DEF ConfirmTakeOut, s
    <2>5. qty' \in [Slots -> Nat]
      BY <1>0, <2>1, <2>4 DEF TypeOK
    <2>6. QED
      BY <2>2, <2>3, <2>4, <2>5 DEF TypeOK
  <1>3. ASSUME NEW consumed \in 0..MaxConsumed, ConfirmReturn(i, consumed)
        PROVE  TypeOK'
    <2> DEFINE after == StockAfterReturn(qty[s], consumed, ops[i].reconcile)
    <2>0. consumed \in Nat /\ ops[i].reconcile \in BOOLEAN
      BY RowType
    <2>1. after \in Nat
      BY <1>0, <2>0, StockAfterReturnType
    <2>2. ops' = Answered(i, qty[s], after) /\ qty' = [qty EXCEPT ![s] = after]
      BY <1>3 DEF ConfirmReturn, s
    <2>3. SetSlotAndSync(s, IF after > 0 THEN "occupied" ELSE "empty")
      BY <1>3 DEF ConfirmReturn, s
    <2> HIDE DEF after
    <2>4. ops' \in Seq(OpRows)
      BY <1>0, <1>1, <2>1, <2>2
    <2>5. /\ slotStatus' \in [Slots -> SlotStatuses]
          /\ cabStatus' \in [Cabinets -> BinStatuses]
      <3>1. (IF after > 0 THEN "occupied" ELSE "empty") \in SlotStatuses
        BY StatusTypes
      <3>2. QED
        BY <1>0, <2>3, <3>1, SetSlotAndSyncType
    <2>6. UNCHANGED <<slotEpc, hasItem>>
      BY <1>3 DEF ConfirmReturn
    <2>7. qty' \in [Slots -> Nat]
      BY <1>0, <2>1, <2>2 DEF TypeOK
    <2>8. QED
      BY <2>4, <2>5, <2>6, <2>7 DEF TypeOK
  <1>4. CASE Cancel(i)
    <2>1. [ops[i] EXCEPT !.status = "cancelled"] \in OpRows
      BY RowType DEF OpRows, OpStatuses
    <2>2. ops' \in Seq(OpRows)
      BY <1>4, <2>1, ReplaceRow DEF Cancel
    <2>3. PICK kind \in {"take_out", "return"} :
             SetSlotAndSync(s, IF kind = "take_out" THEN AfterDeniedTakeOut(s)
                               ELSE "return_unregistered")
      BY <1>4 DEF Cancel, s
    <2>4. (IF kind = "take_out" THEN AfterDeniedTakeOut(s)
           ELSE "return_unregistered") \in SlotStatuses
      BY AfterDeniedTakeOutType, StatusTypes DEF AwaitingStatuses
    <2>5. /\ slotStatus' \in [Slots -> SlotStatuses]
          /\ cabStatus' \in [Cabinets -> BinStatuses]
      BY <1>0, <2>3, <2>4, SetSlotAndSyncType
    <2>6. UNCHANGED <<slotEpc, hasItem, qty>>
      BY <1>4 DEF Cancel
    <2>7. QED
      BY <2>2, <2>5, <2>6 DEF TypeOK
  <1>5. QED
    BY <1>2, <1>3, <1>4 DEF Answer

(* Clearing the log keeps the types.                                       *)
LEMMA ClearAllType ==
    ASSUME TypeOK, ClearAll PROVE TypeOK'
  <1>1. slotStatus' \in [Slots -> SlotStatuses]
    BY AfterDeniedTakeOutType, StatusTypes DEF ClearAll, TypeOK, AwaitingStatuses
  <1>2. cabStatus' \in [Cabinets -> BinStatuses]
    BY CabinetStatusType DEF ClearAll, TypeOK
  <1>3. QED
    BY <1>1, <1>2 DEF ClearAll, TypeOK

(* Type correctness: every reachable state of the slots, the cabinets and  *)
(* the log is well-formed; in particular no stock is ever negative.        *)
THEOREM TypeCorrect == Spec => []TypeOK
  <1>1. Init => TypeOK
    BY DEF Init, TypeOK, SlotStatuses, BinStatuses
  <1>2. TypeOK /\ [Next]_vars => TypeOK'
    <2> SUFFICES ASSUME TypeOK, [Next]_vars PROVE TypeOK'
      OBVIOUS
    <2>1. CASE UNCHANGED vars
      BY <2>1 DEF vars, TypeOK
    <2>2. QED
      BY <2>1, ManageType, PresenceType, AnswerType, ClearAllType DEF Next
  <1>3. QED
    BY <1>1, <1>2, PTL DEF Spec

-----------------------------------------------------------------------------
(* The log.  A row that waits for an answer is the last one about its slot *)
(* and still states the present stock: nothing was booked behind it.  With *)
(* this the properties of the log become inductive.                        *)

PendingRowIsFresh(i) ==
    /\ ops[i].kind \in {"take_out", "return"}
    /\ ops[i].before = ops[i].after
    /\ LastOfSlot(i)
    /\ hasItem[ops[i].slot]
    /\ ops[i].kind = "take_out" => qty[ops[i].slot] > 0

LogInv ==
    /\ TypeOK
    /\ \A s \in Slots : ~hasItem[s] => qty[s] = 0
    /\ \A i \in DOMAIN ops : ops[i].status = "pending" => PendingRowIsFresh(i)
    /\ AuditTrail

(* The invariant says what the properties of the log say.                  *)
LEMMA LogInvImplies ==
    LogInv => OnePendingPerSlot /\ AuditTrail /\ PendingIsAnswerable
  <1> SUFFICES ASSUME LogInv
               PROVE  OnePendingPerSlot /\ AuditTrail /\ PendingIsAnswerable
    OBVIOUS
  <1>1. OnePendingPerSlot
    <2> SUFFICES ASSUME NEW i \in DOMAIN ops, NEW j \in DOMAIN ops,
                        ops[i].slot = ops[j].slot,
                        ops[i].status = "pending", ops[j].status = "pending"
                 PROVE  i = j
      BY DEF OnePendingPerSlot
    <2>1. LastOfSlot(i) /\ LastOfSlot(j)
      BY DEF LogInv, PendingRowIsFresh
    <2>2. DOMAIN ops = 1..Len(ops) /\ Len(ops) \in Nat
      BY DEF LogInv, TypeOK
    <2>3. QED
      BY <2>1, <2>2 DEF LastOfSlot
  <1>2. PendingIsAnswerable
    BY DEF LogInv, PendingRowIsFresh, PendingIsAnswerable
  <1>3. QED
    BY <1>1, <1>2 DEF LogInv

(* A handler that logs a row about slot s, for which no question is open.  *)
LEMMA AppendKeepsLog ==
    ASSUME LogInv, TypeOK', NEW s \in Slots, NEW row \in OpRows, LogOp(row),
           ~HasPending(s),
           row.slot = s, row.before = qty[s], row.after = qty'[s],
           \A t \in Slots : t # s => qty'[t] = qty[t] /\ hasItem'[t] = hasItem[t],
           ~hasItem'[s] => qty'[s] = 0,
           row.status = "pending" =>
               /\ row.kind \in {"take_out", "return"}
               /\ row.before = row.after
               /\ hasItem'[s]
               /\ row.kind = "take_out" => qty'[s] > 0
    PROVE  LogInv'
  <1> DEFINE n == Len(ops) + 1
  <1>1. /\ DOMAIN ops = 1..(n - 1) /\ DOMAIN ops' = 1..n /\ n \in Nat
        /\ ops'[n] = row /\ \A i \in 1..(n - 1) : ops'[i] = ops[i]
    <2>1. TypeOK
      BY DEF LogInv
    <2>2. QED
      BY <2>1, LogOpEffect
  <1>2. \A i \in 1..(n - 1) : ops[i].slot \in Slots
    BY <1>1, RowType DEF LogInv
  <1> HIDE DEF n
  <1>3. \A i \in 1..n : i = n \/ (i \in 1..(n - 1) /\ i < n)
    BY <1>1
  <1>4. \A t \in Slots : ~hasItem'[t] => qty'[t] = 0
    BY DEF LogInv
  <1>5. ASSUME NEW i \in 1..n, (ops[i].status = "pending")'
        PROVE  PendingRowIsFresh(i)'
    <2>1. CASE i = n
      <3>1. LastOfSlot(i)'
        BY <1>1, <1>3, <2>1 DEF LastOfSlot
      <3>2. row.status = "pending"
        BY <1>1, <1>5, <2>1
      <3>3. QED
        BY <1>1, <2>1, <3>1, <3>2 DEF PendingRowIsFresh
    <2>2. CASE i \in 1..(n - 1)
      <3>1. ops[i].status = "pending" /\ ops'[i] = ops[i]
        BY <1>1, <1>5, <2>2
      <3>2. ops[i].slot # s
        BY <1>1, <2>2, <3>1 DEF HasPending
      <3>3. PendingRowIsFresh(i)
        BY <1>1, <2>2, <3>1 DEF LogInv
      <3>4. LastOfSlot(i)'
        BY <1>1, <1>3, <2>2, <3>1, <3>2, <3>3 DEF PendingRowIsFresh, LastOfSlot
      <3>5. QED
        BY <1>2, <2>2, <3>1, <3>2, <3>3, <3>4 DEF PendingRowIsFresh
    <2>3. QED
      BY <1>3, <2>1, <2>2
  <1>6. ASSUME NEW i \in 1..n, LastOfSlot(i)'
        PROVE  (ops[i].after = qty[ops[i].slot])'
    <2>1. CASE i = n
      BY <1>1, <2>1
    <2>2. CASE i \in 1..(n - 1)
      <3>1. ops'[i] = ops[i] /\ ops[i].slot # s
        BY <1>1, <1>6, <2>2 DEF LastOfSlot
      <3>2. LastOfSlot(i)
        BY <1>1, <1>6, <2>2 DEF LastOfSlot
      <3>3. QED
        BY <1>1, <1>2, <2>2, <3>1, <3>2 DEF LogInv, AuditTrail
    <2>3. QED
      BY <1>3, <2>1, <2>2
  <1>7. ASSUME NEW i \in 1..n, NEW j \in 1..n, Follows(i, j)'
        PROVE  (ops[i].after = ops[j].before)'
    <2>1. i \in 1..(n - 1) /\ i < j /\ ops'[i] = ops[i]
      BY <1>1, <1>3, <1>7 DEF Follows
    <2>2. CASE j = n
      <3>1. ops[i].slot = s
        BY <1>1, <1>7, <2>1, <2>2 DEF Follows
      <3>2. LastOfSlot(i)
        BY <1>1, <1>7, <2>1, <2>2 DEF Follows, LastOfSlot
      <3>3. ops[i].after = qty[s]
        BY <1>1, <2>1, <3>1, <3>2 DEF LogInv, AuditTrail
      <3>4. QED
        BY <1>1, <2>1, <2>2, <3>3
    <2>3. CASE j \in 1..(n - 1)
      <3>1. Follows(i, j)
        BY <1>1, <1>7, <2>1, <2>3 DEF Follows
      <3>2. QED
        BY <1>1, <2>1, <2>3, <3>1 DEF LogInv, AuditTrail
    <2>4. QED
      BY <1>3, <2>2, <2>3
  <1>8. QED
    BY <1>1, <1>4, <1>5, <1>6, <1>7 DEF LogInv, AuditTrail

(* A handler that answers or cancels the open question i: its row keeps    *)
(* the slot and the quantity before and states the new stock.              *)
LEMMA AnswerKeepsLog ==
    ASSUME LogInv, TypeOK', NEW i \in DOMAIN ops, ops[i].status = "pending",
           NEW row \in OpRows, ops' = [ops EXCEPT ![i] = row],
           row.slot = ops[i].slot, row.status # "pending",
           row.before = ops[i].before, row.after = qty'[row.slot],
           \A t \in Slots : t # row.slot => qty'[t] = qty[t],
           hasItem' = hasItem
    PROVE  LogInv'
  <1> DEFINE s == ops[i].slot
  <1>1. /\ s \in Slots /\ DOMAIN ops' = DOMAIN ops /\ ops'[i] = row
        /\ \A j \in DOMAIN ops : j # i => ops'[j] = ops[j]
    BY ReplaceRow, RowType DEF LogInv
  <1>2. \A j \in DOMAIN ops : ops[j].slot \in Slots /\ ops'[j].slot = ops[j].slot
    BY <1>1, RowType DEF LogInv
  <1>3. PendingRowIsFresh(i)
    BY DEF LogInv
  <1>4. \A j \in DOMAIN ops : LastOfSlot(j)' <=> LastOfSlot(j)
    BY <1>1, <1>2 DEF LastOfSlot
  <1>5. \A j \in DOMAIN ops : j # i /\ LastOfSlot(j) => ops[j].slot # s
    <2>1. DOMAIN ops = 1..Len(ops) /\ Len(ops) \in Nat
      BY DEF LogInv, TypeOK
    <2>2. QED
      BY <1>3, <2>1 DEF PendingRowIsFresh, LastOfSlot
  <1>6. \A t \in Slots : ~hasItem'[t] => qty'[t] = 0
    BY <1>1, <1>3 DEF LogInv, PendingRowIsFresh
  <1>7. ASSUME NEW j \in DOMAIN ops, (ops[j].status = "pending")'
        PROVE  PendingRowIsFresh(j)'
    <2>1. j # i /\ ops'[j] = ops[j]
      BY <1>1, <1>7
    <2>2. PendingRowIsFresh(j)
      BY <1>7, <2>1 DEF LogInv
    <2>3. ops[j].slot # s /\ LastOfSlot(j)'
      BY <1>4, <1>5, <2>1, <2>2 DEF PendingRowIsFresh
    <2>4. QED
      BY <1>1, <1>2, <2>1, <2>2, <2>3 DEF PendingRowIsFresh
  <1>8. ASSUME NEW j \in DOMAIN ops, LastOfSlot(j)'
        PROVE  (ops[j].after = qty[ops[j].slot])'
    <2>1. CASE j = i
      BY <1>1, <2>1
    <2>2. CASE j # i
      BY <1>1, <1>2, <1>4, <1>5, <1>8, <2>2 DEF LogInv, AuditTrail
    <2>3. QED
      BY <2>1, <2>2
  <1>9. ASSUME NEW j \in DOMAIN ops, NEW k \in DOMAIN ops, Follows(j, k)'
        PROVE  (ops[j].after = ops[k].before)'
    <2>1. Follows(j, k)
      BY <1>1, <1>2, <1>9 DEF Follows
    <2>2. ops[j].after = ops[k].before
      BY <2>1 DEF LogInv, AuditTrail
    <2>3. j # i
      BY <1>3, <2>1 DEF PendingRowIsFresh, LastOfSlot, Follows
    <2>4. ops'[k].before = ops[k].before
      BY <1>1
    <2>5. QED
      BY <1>1, <2>2, <2>3, <2>4
  <1>10. QED
    BY <1>1, <1>6, <1>7, <1>8, <1>9 DEF LogInv, AuditTrail

(* A handler that touches neither log nor stock.                           *)
LEMMA SameLogKeepsLog ==
    ASSUME LogInv, TypeOK', UNCHANGED <<ops, qty, hasItem>>
    PROVE  LogInv'
  BY DEF LogInv, AuditTrail, PendingRowIsFresh, LastOfSlot, Follows

(* Registration and the manual changes: each logs one confirmed row, about *)
(* a slot with no open question, or (PATCH) none.                          *)
LEMMA ManageKeepsLog ==
    ASSUME LogInv, TypeOK', NEW s \in Slots, Manage(s) PROVE LogInv'
  <1> USE BoundsAssumption
  <1>0. /\ TypeOK /\ qty[s] \in Nat /\ (~hasItem[s] => qty[s] = 0)
        /\ (~hasItem[s] => ~HasPending(s))
        /\ qty \in [Slots -> Nat] /\ hasItem \in [Slots -> BOOLEAN]
    BY DEF LogInv, TypeOK, PendingRowIsFresh, HasPending
  <1>1. ASSUME NEW e \in Epcs, NEW q \in 0..MaxQty, Register(s, e, q)
        PROVE  LogInv'
    <2> DEFINE row == OpRow("register_in", s, "confirmed", 0, q, FALSE)
    <2>0. q \in Nat
      OBVIOUS
    <2>1. row \in OpRows
      BY <2>0, OpRowType DEF OpKinds, OpStatuses
    <2>2. /\ row.slot = s /\ row.before = 0 /\ row.after = q
          /\ row.status = "confirmed"
      BY DEF OpRow
    <2>3. /\ LogOp(row) /\ ~hasItem[s]
          /\ qty' = [qty EXCEPT ![s] = q]
          /\ hasItem' = [hasItem EXCEPT ![s] = TRUE]
      BY <1>1 DEF Register
    <2> HIDE DEF row
    <2>4. QED
      BY <1>0, <2>1, <2>2, <2>3, AppendKeepsLog
  <1>2. ASSUME NEW kind \in OpKinds, NEW e, Manageable(s), ChangeTag(kind, s, e)
        PROVE  LogInv'
    <2> DEFINE row == OpRow(kind, s, "confirmed", qty[s], qty[s], FALSE)
    <2>1. row \in OpRows
      BY <1>0, OpRowType DEF OpStatuses
    <2>2. /\ row.slot = s /\ row.before = qty[s] /\ row.after = qty[s]
          /\ row.status = "confirmed"
      BY DEF OpRow
    <2>3. LogOp(row) /\ ~HasPending(s) /\ qty' = qty /\ hasItem' = hasItem
      BY <1>2 DEF ChangeTag, Manageable
    <2> HIDE DEF row
    <2>4. QED
      BY <1>0, <2>1, <2>2, <2>3, AppendKeepsLog
  <1>3. ASSUME NEW e \in Epcs, BindTag(s, e) PROVE LogInv'
    BY <1>2, <1>3 DEF BindTag, OpKinds
  <1>4. ASSUME NEW e \in Epcs, RebindTag(s, e) PROVE LogInv'
    BY <1>2, <1>4 DEF RebindTag, OpKinds
  <1>5. CASE UnbindTag(s)
    BY <1>2, <1>5 DEF UnbindTag, OpKinds
  <1>6. CASE DeleteRecord(s)
    <2> DEFINE row == OpRow("delete", s, "confirmed", qty[s], 0, FALSE)
    <2>1. row \in OpRows
      BY <1>0, OpRowType DEF OpKinds, OpStatuses
    <2>2. /\ row.slot = s /\ row.before = qty[s] /\ row.after = 0
          /\ row.status = "confirmed"
      BY DEF OpRow
    <2>3. /\ LogOp(row) /\ ~HasPending(s)
          /\ qty' = [qty EXCEPT ![s] = 0]
          /\ hasItem' = [hasItem EXCEPT ![s] = FALSE]
      BY <1>6 DEF DeleteRecord, Manageable
    <2> HIDE DEF row
    <2>4. QED
      BY <1>0, <2>1, <2>2, <2>3, AppendKeepsLog
  <1>7. ASSUME NEW q \in 0..MaxQty, EditItem(s, q) PROVE LogInv'
    <2> DEFINE row == OpRow("manual_edit", s, "confirmed", qty[s], q, FALSE)
    <2>0. q \in Nat
      OBVIOUS
    <2>1. row \in OpRows
      BY <1>0, <2>0, OpRowType DEF OpKinds, OpStatuses
    <2>2. /\ row.slot = s /\ row.before = qty[s] /\ row.after = q
          /\ row.status = "confirmed"
      BY DEF OpRow
    <2>3. /\ LogOp(row) /\ ~HasPending(s) /\ hasItem[s]
          /\ qty' = [qty EXCEPT ![s] = q] /\ hasItem' = hasItem
      BY <1>7 DEF EditItem, Manageable
    <2> HIDE DEF row
    <2>4. QED
      BY <1>0, <2>1, <2>2, <2>3, AppendKeepsLog
  <1>8. ASSUME NEW status \in PatchStatuses, NEW e \in PatchEpcs,
               PatchSlot(s, status, e)
        PROVE  LogInv'
    BY <1>8, SameLogKeepsLog DEF PatchSlot
  <1>9. QED
    BY <1>1, <1>3, <1>4, <1>5, <1>6, <1>7, <1>8 DEF Manage

(* A watchdog transition asks only about a slot with no open question.     *)
LEMMA PresenceKeepsLog ==
    ASSUME LogInv, TypeOK', NEW s \in Slots, Presence(s) PROVE LogInv'
  <1>0. /\ qty[s] \in Nat /\ (~hasItem[s] => qty[s] = 0)
        /\ qty \in [Slots -> Nat] /\ hasItem \in [Slots -> BOOLEAN]
    BY DEF LogInv, TypeOK
  <1>1. CASE LeaveUnregistered(s)
    BY <1>1, SameLogKeepsLog DEF LeaveUnregistered
  <1>2. CASE RequestTakeOut(s)
    <2> DEFINE row == OpRow("take_out", s, "pending", qty[s], qty[s], FALSE)
    <2>1. row \in OpRows
      BY <1>0, OpRowType DEF OpKinds, OpStatuses
    <2>2. /\ row.slot = s /\ row.before = qty[s] /\ row.after = qty[s]
          /\ row.kind = "take_out"
      BY DEF OpRow
    <2>3. /\ LogOp(row) /\ ~HasPending(s) /\ hasItem[s] /\ qty[s] > 0
          /\ qty' = qty /\ hasItem' = hasItem
      BY <1>2 DEF RequestTakeOut, PresenceApplies
    <2> HIDE DEF row
    <2>4. QED
      BY <1>0, <2>1, <2>2, <2>3, AppendKeepsLog
  <1>3. CASE RequestReturn(s)
    <2> DEFINE mark == (slotStatus[s] = "checkout_unregistered")
               row == OpRow("return", s, "pending", qty[s], qty[s], mark)
    <2>1. row \in OpRows
      <3>1. mark \in BOOLEAN
        OBVIOUS
      <3> HIDE DEF mark
      <3>2. QED
        BY <1>0, <3>1, OpRowType DEF OpKinds, OpStatuses
    <2>2. /\ row.slot = s /\ row.before = qty[s] /\ row.after = qty[s]
          /\ row.kind = "return"
      BY DEF OpRow
    <2>3. /\ LogOp(row) /\ ~HasPending(s) /\ hasItem[s]
          /\ qty' = qty /\ hasItem' = hasItem
      BY <1>3 DEF RequestReturn, PresenceApplies
    <2> HIDE DEF row
    <2>4. QED
      BY <1>0, <2>1, <2>2, <2>3, AppendKeepsLog
  <1>4. QED
    BY <1>1, <1>2, <1>3 DEF Presence

(* An answer closes the row it is about.                                   *)
LEMMA AnswerKeepsLogInv ==
    ASSUME LogInv, TypeOK', NEW i \in DOMAIN ops, Answer(i) PROVE LogInv'
  <1> DEFINE s == ops[i].slot
  <1>0. /\ s \in Slots /\ ops[i].kind \in OpKinds /\ ops[i] \in OpRows
        /\ qty[s] \in Nat /\ qty \in [Slots -> Nat]
        /\ ops[i].status = "pending" => PendingRowIsFresh(i)
    BY RowType DEF LogInv, TypeOK
  <1>1. PendingRowIsFresh(i) => ops[i].before = qty[s] /\ ops[i].after = qty[s]
    BY DEF PendingRowIsFresh, LogInv, AuditTrail
  <1> HIDE DEF s
  <1>2. ASSUME NEW after \in Nat, ops[i].status = "pending",
               ops' = Answered(i, qty[s], after),
               qty' = [qty EXCEPT ![s] = after], hasItem' = hasItem
        PROVE  LogInv'
    <2> DEFINE row == OpRow(ops[i].kind, s, "confirmed", qty[s], after, FALSE)
    <2>1. row \in OpRows
      BY <1>0, OpRowType DEF OpStatuses
    <2>2. /\ row.slot = s /\ row.before = qty[s] /\ row.after = after
          /\ row.status = "confirmed"
      BY DEF OpRow
    <2>3. ops' = [ops EXCEPT ![i] = row]
      BY <1>2 DEF Answered, s
    <2> HIDE DEF row
    <2>4. QED
      BY <1>0, <1>1, <1>2, <2>1, <2>2, <2>3, AnswerKeepsLog DEF s
  <1>3. CASE ConfirmTakeOut(i)
    <2>1. /\ qty[s] - 1 \in Nat /\ ops' = Answered(i, qty[s], qty[s] - 1)
          /\ qty' = [qty EXCEPT ![s] = qty[s] - 1] /\ hasItem' = hasItem
          /\ ops[i].status = "pending"
      BY <1>0, <1>3 DEF ConfirmTakeOut, Pending, s
    <2>2. QED
      BY <1>2, <2>1
  <1>4. ASSUME NEW consumed \in 0..MaxConsumed, ConfirmReturn(i, consumed)
        PROVE  LogInv'
    <2> DEFINE after == StockAfterReturn(qty[s], consumed, ops[i].reconcile)
    <2>0. consumed \in Nat /\ ops[i].reconcile \in BOOLEAN
      BY BoundsAssumption, RowType DEF LogInv
    <2>1. after \in Nat
      BY <1>0, <2>0, StockAfterReturnType
    <2>2. /\ ops' = Answered(i, qty[s], after) /\ qty' = [qty EXCEPT ![s] = after]
          /\ hasItem' = hasItem /\ ops[i].status = "pending"
      BY <1>4 DEF ConfirmReturn, Pending, s
    <2> HIDE DEF after
    <2>3. QED
      BY <1>2, <2>1, <2>2
  <1>5. CASE Cancel(i)
    <2> DEFINE row == [ops[i] EXCEPT !.status = "cancelled"]
    <2>1. /\ row \in OpRows /\ row.slot = s /\ row.status = "cancelled"
          /\ row.before = ops[i].before /\ row.after = ops[i].after
      BY <1>0 DEF OpRows, OpStatuses, s
    <2>2. /\ ops' = [ops EXCEPT ![i] = row] /\ ops[i].status = "pending"
          /\ qty' = qty /\ hasItem' = hasItem
      BY <1>5 DEF Cancel, Pending
    <2> HIDE DEF row
    <2>3. QED
      BY <1>0, <1>1, <2>1, <2>2, AnswerKeepsLog DEF s
  <1>6. QED
    BY <1>3, <1>4, <1>5 DEF Answer

(* An empty log satisfies the invariant, whatever the slots hold.          *)
LEMMA ClearAllKeepsLog ==
    ASSUME LogInv, TypeOK', ClearAll PROVE LogInv'
  <1>1. ops' = <<>> /\ qty' = qty /\ hasItem' = hasItem
    BY DEF ClearAll
  <1>2. DOMAIN ops' = {}
    BY <1>1
  <1>3. QED
    BY <1>1, <1>2 DEF LogInv, AuditTrail

(* The log invariant holds in every reachable state, with or without PATCH.*)
THEOREM LogCorrect == Spec => []LogInv
  <1>1. Init => LogInv
    <2> SUFFICES ASSUME Init PROVE LogInv
      OBVIOUS
    <2>1. TypeOK
      BY DEF Init, TypeOK, SlotStatuses, BinStatuses
    <2>2. DOMAIN ops = {}
      BY DEF Init
    <2>3. QED
      BY <2>1, <2>2 DEF Init, LogInv, AuditTrail
  <1>2. TypeOK' /\ LogInv /\ [Next]_vars => LogInv'
    <2> SUFFICES ASSUME TypeOK', LogInv, [Next]_vars PROVE LogInv'
      OBVIOUS
    <2>1. CASE UNCHANGED vars
      BY <2>1, SameLogKeepsLog DEF vars
    <2>2. QED
      BY <2>1, ManageKeepsLog, PresenceKeepsLog, AnswerKeepsLogInv,
         ClearAllKeepsLog DEF Next
  <1>3. QED
    BY <1>1, <1>2, TypeCorrect, PTL DEF Spec

(* However registrations, manual changes, watchdog transitions, answers    *)
(* and purges interleave, a slot has at most one open question.            *)
THEOREM OnePendingPerSlotHolds == Spec => []OnePendingPerSlot
  BY LogCorrect, LogInvImplies, PTL

(* The rows of a slot chain up and end at the present stock.               *)
THEOREM AuditTrailHolds == Spec => []AuditTrail
  BY LogCorrect, LogInvImplies, PTL

(* No open question ever becomes unanswerable.                             *)
THEOREM PendingIsAnswerableHolds == Spec => []PendingIsAnswerable
  BY LogCorrect, LogInvImplies, PTL

-----------------------------------------------------------------------------
(* The slots.  As long as no operator overwrites a status with PATCH, a    *)
(* slot waits exactly for the question that is open, and a slot without a  *)
(* stock record is empty.                                                  *)

Asked(s, kind) == \E i \in DOMAIN ops : ops[i].slot = s /\ Pending(i, kind)

StatusMatches(s) ==
    /\ slotStatus[s] = "pending_checkout" <=> Asked(s, "take_out")
    /\ slotStatus[s] = "pending_return" <=> Asked(s, "return")
    /\ ~hasItem[s] => slotStatus[s] \in {"absent", "empty"}

SlotInv == LogInv /\ \A s \in Slots : StatusMatches(s)

(* The invariant says what the property of the slots says.                 *)
LEMMA SlotInvImplies == SlotInv => PendingMatchesSlot
  BY DEF SlotInv, StatusMatches, Asked, PendingMatchesSlot

(* Without an open question about s, logging a row changes what is asked   *)
(* about s, and about no other slot.                                       *)
LEMMA AppendAsks ==
    ASSUME TypeOK, NEW s \in Slots, NEW row \in OpRows, LogOp(row),
           row.slot = s, ~HasPending(s), NEW kind
    PROVE  /\ Asked(s, kind)' <=> (row.status = "pending" /\ row.kind = kind)
           /\ ~Asked(s, kind)
           /\ \A t \in Slots : t # s => (Asked(t, kind)' <=> Asked(t, kind))
  <1> DEFINE n == Len(ops) + 1
  <1>1. /\ DOMAIN ops = 1..(n - 1) /\ DOMAIN ops' = 1..n /\ n \in Nat
        /\ ops'[n] = row /\ \A i \in 1..(n - 1) : ops'[i] = ops[i]
    BY LogOpEffect
  <1> HIDE DEF n
  <1>2. 1..n = 1..(n - 1) \cup {n}
    <2>1. n >= 1
      BY <1>1, LogOpEffect DEF n
    <2>2. QED
      BY <1>1, <2>1
  <1>3. QED
    BY <1>1, <1>2 DEF Asked, Pending, HasPending

(* Once question i is answered nothing is asked about its slot.            *)
LEMMA AnswerUnasks ==
    ASSUME TypeOK, OnePendingPerSlot, NEW i \in DOMAIN ops, ops[i].status = "pending",
           NEW row \in OpRows, ops' = [ops EXCEPT ![i] = row],
           row.slot = ops[i].slot, row.status # "pending", NEW kind
    PROVE  /\ ~Asked(row.slot, kind)'
           /\ \A t \in Slots : t # row.slot => (Asked(t, kind)' <=> Asked(t, kind))
  <1>1. /\ DOMAIN ops' = DOMAIN ops /\ ops'[i] = row
        /\ \A j \in DOMAIN ops : j # i => ops'[j] = ops[j]
    BY ReplaceRow
  <1>2. \A j \in DOMAIN ops :
           ops[j].slot = ops[i].slot /\ ops[j].status = "pending" => j = i
    BY DEF OnePendingPerSlot
  <1>3. QED
    BY <1>1, <1>2 DEF Asked, Pending

(* Only slot s changed, and it still matches.                              *)
LEMMA OneSlotMatches ==
    ASSUME SlotInv, LogInv', NEW s \in Slots, StatusMatches(s)',
           \A t \in Slots : t # s => /\ slotStatus'[t] = slotStatus[t]
                                    /\ hasItem'[t] = hasItem[t],
           \A kind \in {"take_out", "return"}, t \in Slots :
               t # s => (Asked(t, kind)' <=> Asked(t, kind))
    PROVE  SlotInv'
  <1>1. ASSUME NEW t \in Slots, t # s PROVE StatusMatches(t)'
    BY <1>1 DEF SlotInv, StatusMatches
  <1>2. QED
    BY <1>1 DEF SlotInv

(* Manual changes are refused while a question is open and leave no slot in*)
(* a pending status.                                                       *)
LEMMA ManageKeepsSlots ==
    ASSUME PatchStatuses = {}, SlotInv, LogInv', NEW s \in Slots, Manage(s)
    PROVE  SlotInv'
  <1> USE BoundsAssumption
  <1>0. /\ TypeOK /\ StatusMatches(s) /\ qty[s] \in Nat
        /\ slotStatus \in [Slots -> SlotStatuses]
        /\ hasItem \in [Slots -> BOOLEAN]
        /\ ~hasItem[s] => ~HasPending(s)
    BY DEF SlotInv, LogInv, TypeOK, PendingRowIsFresh, HasPending
  <1>1. ASSUME NEW kind \in OpKinds, NEW before \in Nat, NEW after \in Nat,
               LogOp(OpRow(kind, s, "confirmed", before, after, FALSE)),
               ~HasPending(s), NEW new,
               new \notin {"pending_checkout", "pending_return"},
               slotStatus' = [slotStatus EXCEPT ![s] = new],
               ~hasItem'[s] => new = "empty",
               \A t \in Slots : t # s => hasItem'[t] = hasItem[t]
        PROVE  SlotInv'
    <2> DEFINE row == OpRow(kind, s, "confirmed", before, after, FALSE)
    <2>1. row \in OpRows
      BY OpRowType DEF OpStatuses
    <2>2. row.slot = s /\ row.status = "confirmed"
      BY DEF OpRow
    <2>3. LogOp(row)
      BY <1>1
    <2> HIDE DEF row
    <2>4. \A k : ~Asked(s, k)'
      BY <1>0, <1>1, <2>1, <2>2, <2>3, AppendAsks
    <2>5. \A k \in {"take_out", "return"}, t \in Slots :
             t # s => (Asked(t, k)' <=> Asked(t, k))
      BY <1>0, <1>1, <2>1, <2>2, <2>3, AppendAsks
    <2>6. StatusMatches(s)'
      BY <1>0, <1>1, <2>4 DEF StatusMatches
    <2>7. QED
      BY <1>0, <1>1, <2>5, <2>6, OneSlotMatches
  <1>2. ~HasPending(s) => slotStatus[s] \notin {"pending_checkout", "pending_return"}
    BY <1>0 DEF StatusMatches, Asked, Pending, HasPending
  <1>3. ASSUME NEW e \in Epcs, NEW q \in 0..MaxQty, Register(s, e, q)
        PROVE  SlotInv'
    <2>0. q \in Nat /\ 0 \in Nat /\ "register_in" \in OpKinds
      BY DEF OpKinds
    <2>1. /\ LogOp(OpRow("register_in", s, "confirmed", 0, q, FALSE))
          /\ slotStatus' = [slotStatus EXCEPT ![s] = "occupied"]
          /\ hasItem' = [hasItem EXCEPT ![s] = TRUE] /\ ~hasItem[s]
      BY <1>3 DEF Register
    <2>2. QED
      BY <1>0, <1>1, <2>0, <2>1
  <1>4. ASSUME NEW kind \in OpKinds, NEW e, Manageable(s), ChangeTag(kind, s, e)
        PROVE  SlotInv'
    <2>1. /\ LogOp(OpRow(kind, s, "confirmed", qty[s], qty[s], FALSE))
          /\ slotStatus' = [slotStatus EXCEPT ![s] = slotStatus[s]]
          /\ hasItem' = hasItem /\ hasItem[s] /\ ~HasPending(s)
      BY <1>0, <1>4 DEF ChangeTag, Manageable
    <2>2. QED
      BY <1>0, <1>1, <1>2, <2>1
  <1>5. ASSUME NEW e \in Epcs, BindTag(s, e) PROVE SlotInv'
    BY <1>4, <1>5 DEF BindTag, OpKinds
  <1>6. ASSUME NEW e \in Epcs, RebindTag(s, e) PROVE SlotInv'
    BY <1>4, <1>6 DEF RebindTag, OpKinds
  <1>7. CASE UnbindTag(s)
    BY <1>4, <1>7 DEF UnbindTag, OpKinds
  <1>8. CASE DeleteRecord(s)
    <2>1. /\ LogOp(OpRow("delete", s, "confirmed", qty[s], 0, FALSE))
          /\ slotStatus' = [slotStatus EXCEPT ![s] = "empty"]
          /\ hasItem' = [hasItem EXCEPT ![s] = FALSE] /\ ~HasPending(s)
          /\ 0 \in Nat /\ "delete" \in OpKinds
      BY <1>8 DEF DeleteRecord, Manageable, SetSlotAndSync, OpKinds
    <2>2. QED
      BY <1>0, <1>1, <2>1
  <1>9. ASSUME NEW q \in 0..MaxQty, EditItem(s, q) PROVE SlotInv'
    <2> DEFINE new == IF q > 0 /\ q # qty[s] /\ slotStatus[s] = "empty"
                      THEN "occupied" ELSE slotStatus[s]
    <2>0. q \in Nat /\ "manual_edit" \in OpKinds
      BY DEF OpKinds
    <2>1. /\ LogOp(OpRow("manual_edit", s, "confirmed", qty[s], q, FALSE))
          /\ hasItem' = hasItem /\ hasItem[s] /\ ~HasPending(s)
      BY <1>9 DEF EditItem, Manageable
    <2>2. slotStatus' = [slotStatus EXCEPT ![s] = new]
      BY <1>0, <1>9 DEF EditItem
    <2>3. new \notin {"pending_checkout", "pending_return"}
      BY <1>2, <2>1
    <2> HIDE DEF new
    <2>4. QED
      BY <1>0, <1>1, <2>0, <2>1, <2>2, <2>3
  <1>10. QED
    BY <1>3, <1>5, <1>6, <1>7, <1>8, <1>9 DEF Manage

(* A watchdog transition writes the slot status of the question it asks.   *)
LEMMA PresenceKeepsSlots ==
    ASSUME SlotInv, LogInv', NEW s \in Slots, Presence(s) PROVE SlotInv'
  <1>0. /\ TypeOK /\ StatusMatches(s) /\ qty[s] \in Nat
        /\ slotStatus \in [Slots -> SlotStatuses]
    BY DEF SlotInv, LogInv, TypeOK
  <1>1. CASE LeaveUnregistered(s)
    <2>1. /\ slotStatus' = [slotStatus EXCEPT ![s] = "checked_out"]
          /\ hasItem' = hasItem /\ hasItem[s] /\ ops' = ops
          /\ slotStatus[s] = "return_unregistered"
      BY <1>1 DEF LeaveUnregistered, PresenceApplies, SetSlotAndSync
    <2>2. \A kind : \A t \in Slots : Asked(t, kind)' <=> Asked(t, kind)
      BY <2>1 DEF Asked, Pending
    <2>3. StatusMatches(s)'
      BY <1>0, <2>1, <2>2 DEF StatusMatches
    <2>4. QED
      BY <1>0, <2>1, <2>2, <2>3, OneSlotMatches
  <1>2. ASSUME NEW kind \in {"take_out", "return"}, NEW mark \in BOOLEAN,
               PresenceApplies(s), hasItem' = hasItem,
               LogOp(OpRow(kind, s, "pending", qty[s], qty[s], mark)),
               SetSlotAndSync(s, IF kind = "take_out" THEN "pending_checkout"
                                 ELSE "pending_return")
        PROVE  SlotInv'
    <2> DEFINE row == OpRow(kind, s, "pending", qty[s], qty[s], mark)
    <2>1. row \in OpRows
      BY <1>0, OpRowType DEF OpStatuses, OpKinds
    <2>2. row.slot = s /\ row.status = "pending" /\ row.kind = kind
      BY DEF OpRow
    <2>3. LogOp(row) /\ ~HasPending(s) /\ hasItem[s]
      BY <1>2 DEF PresenceApplies
    <2>4. slotStatus' = [slotStatus EXCEPT
             ![s] = IF kind = "take_out" THEN "pending_checkout"
                    ELSE "pending_return"]
      BY <1>2 DEF SetSlotAndSync
    <2> HIDE DEF row
    <2>5. \A k \in {"take_out", "return"} : Asked(s, k)' <=> k = kind
      BY <1>0, <2>1, <2>2, <2>3, AppendAsks
    <2>6. \A k \in {"take_out", "return"}, t \in Slots :
             t # s => (Asked(t, k)' <=> Asked(t, k))
      BY <1>0, <2>1, <2>2, <2>3, AppendAsks
    <2>7. StatusMatches(s)'
      BY <1>0, <1>2, <2>3, <2>4, <2>5 DEF StatusMatches
    <2>8. QED
      BY <1>0, <1>2, <2>4, <2>6, <2>7, OneSlotMatches
  <1>3. CASE RequestTakeOut(s)
    BY <1>2, <1>3 DEF RequestTakeOut
  <1>4. CASE RequestReturn(s)
    <2> DEFINE mark == (slotStatus[s] = "checkout_unregistered")
    <2>1. mark \in BOOLEAN
      OBVIOUS
    <2>2. /\ LogOp(OpRow("return", s, "pending", qty[s], qty[s], mark))
          /\ PresenceApplies(s) /\ hasItem' = hasItem
          /\ SetSlotAndSync(s, "pending_return")
      BY <1>4 DEF RequestReturn
    <2> HIDE DEF mark
    <2>3. QED
      BY <1>2, <2>1, <2>2
  <1>5. QED
    BY <1>1, <1>3, <1>4 DEF Presence

(* An answer moves the slot out of the pending status.                     *)
LEMMA AnswerKeepsSlots ==
    ASSUME SlotInv, LogInv', NEW i \in DOMAIN ops, Answer(i) PROVE SlotInv'
  <1>s. PICK s \in Slots : s = ops[i].slot
    BY RowType DEF SlotInv, LogInv
  <1>0. /\ TypeOK /\ LogInv /\ ops[i].kind \in OpKinds
        /\ ops[i] \in OpRows /\ qty[s] \in Nat
        /\ slotStatus \in [Slots -> SlotStatuses]
        /\ ops[i].status = "pending" => hasItem[s]
    BY <1>s, RowType DEF SlotInv, LogInv, TypeOK, PendingRowIsFresh
  <1>1. ASSUME NEW row \in OpRows, ops' = [ops EXCEPT ![i] = row],
               row.slot = s, row.status # "pending",
               ops[i].status = "pending", hasItem' = hasItem,
               NEW new, SetSlotAndSync(s, new),
               new \notin {"pending_checkout", "pending_return"}
        PROVE  SlotInv'
    <2>1. slotStatus' = [slotStatus EXCEPT ![s] = new]
      BY <1>1 DEF SetSlotAndSync
    <2>2. \A k \in {"take_out", "return"} :
             /\ ~Asked(s, k)'
             /\ \A t \in Slots : t # s => (Asked(t, k)' <=> Asked(t, k))
      BY <1>s, <1>0, <1>1, LogInvImplies, AnswerUnasks
    <2>3. StatusMatches(s)'
      BY <1>0, <1>1, <2>1, <2>2 DEF StatusMatches
    <2>4. QED
      BY <1>0, <1>1, <2>1, <2>2, <2>3, OneSlotMatches
  <1>2. ASSUME NEW before \in Nat, NEW after \in Nat,
               ops' = Answered(i, before, after), ops[i].status = "pending",
               hasItem' = hasItem, NEW new, SetSlotAndSync(s, new),
               new \notin {"pending_checkout", "pending_return"}
        PROVE  SlotInv'
    <2> DEFINE row == OpRow(ops[i].kind, s, "confirmed", before, after, FALSE)
    <2>1. row \in OpRows
      BY <1>0, OpRowType DEF OpStatuses
    <2>2. row.slot = s /\ row.status = "confirmed"
      BY DEF OpRow
    <2>3. ops' = [ops EXCEPT ![i] = row]
      BY <1>s, <1>2 DEF Answered
    <2> HIDE DEF row
    <2>4. QED
      BY <1>1, <1>2, <2>1, <2>2, <2>3
  <1>3. CASE ConfirmTakeOut(i)
    <2>1. /\ qty[s] - 1 \in Nat /\ ops' = Answered(i, qty[s], qty[s] - 1)
          /\ ops[i].status = "pending" /\ hasItem' = hasItem
          /\ SetSlotAndSync(s, "checked_out")
      BY <1>s, <1>0, <1>3 DEF ConfirmTakeOut, Pending
    <2>2. QED
      BY <1>0, <1>2, <2>1
  <1>4. ASSUME NEW consumed \in 0..MaxConsumed, ConfirmReturn(i, consumed)
        PROVE  SlotInv'
    <2> DEFINE after == StockAfterReturn(qty[s], consumed, ops[i].reconcile)
               new == IF after > 0 THEN "occupied" ELSE "empty"
    <2>0. consumed \in Nat /\ ops[i].reconcile \in BOOLEAN
      BY <1>0, BoundsAssumption, RowType
    <2>1. after \in Nat
      BY <1>0, <2>0, StockAfterReturnType
    <2>2. /\ ops' = Answered(i, qty[s], after) /\ ops[i].status = "pending"
          /\ hasItem' = hasItem /\ SetSlotAndSync(s, new)
      BY <1>s, <1>4 DEF ConfirmReturn, Pending
    <2>3. new \notin {"pending_checkout", "pending_return"}
      OBVIOUS
    <2> HIDE DEF after, new
    <2>4. QED
      BY <1>0, <1>2, <2>1, <2>2, <2>3
  <1>5. CASE Cancel(i)
    <2> DEFINE row == [ops[i] EXCEPT !.status = "cancelled"]
    <2>1. row \in OpRows /\ row.slot = s /\ row.status = "cancelled"
      BY <1>s, <1>0 DEF OpRows, OpStatuses
    <2>2. /\ ops' = [ops EXCEPT ![i] = row] /\ ops[i].status = "pending"
          /\ hasItem' = hasItem
      BY <1>5 DEF Cancel, Pending
    <2>3. PICK new \in {"checkout_unregistered", "empty", "return_unregistered"} :
             SetSlotAndSync(s, new)
      BY <1>s, <1>5, AfterDeniedTakeOutType DEF Cancel
    <2> HIDE DEF row
    <2>4. QED
      BY <1>1, <2>1, <2>2, <2>3
  <1>6. QED
    BY <1>3, <1>4, <1>5 DEF Answer

(* Clearing the log takes every slot out of its pending status.            *)
LEMMA PurgeKeepsSlots ==
    ASSUME SlotInv, LogInv', ClearAll PROVE SlotInv'
  <1>1. ops' = <<>> /\ hasItem' = hasItem
    BY DEF ClearAll
  <1>2. ASSUME NEW s \in Slots, NEW kind PROVE ~Asked(s, kind)'
    <2>1. DOMAIN ops' = {}
      BY <1>1
    <2>2. QED
      BY <2>1 DEF Asked
  <1>3. ASSUME NEW s \in Slots PROVE StatusMatches(s)'
    <2>1. slotStatus'[s] \notin {"pending_checkout", "pending_return"}
      BY AfterDeniedTakeOutType DEF ClearAll
    <2>2. ~hasItem[s] => slotStatus'[s] \in {"absent", "empty"}
      <3> HAVE ~hasItem[s]
      <3>1. slotStatus[s] \in {"absent", "empty"}
        BY DEF SlotInv, StatusMatches
      <3>2. QED
        BY <3>1 DEF ClearAll
    <2>3. QED
      BY <1>1, <1>2, <2>1, <2>2 DEF StatusMatches
  <1>4. QED
    BY <1>3 DEF SlotInv

(* PatchStatuses = {} says that no operator overwrites a status by hand.   *)
THEOREM SlotsCorrect == ASSUME PatchStatuses = {} PROVE Spec => []SlotInv
  <1>1. Init => SlotInv
    <2> SUFFICES ASSUME Init PROVE SlotInv
      OBVIOUS
    <2>1. TypeOK
      BY DEF Init, TypeOK, SlotStatuses, BinStatuses
    <2>2. DOMAIN ops = {}
      BY DEF Init
    <2>3. LogInv
      BY <2>1, <2>2 DEF Init, LogInv, AuditTrail
    <2>4. QED
      BY <2>2, <2>3 DEF Init, SlotInv, StatusMatches, Asked
  <1>2. LogInv' /\ SlotInv /\ [Next]_vars => SlotInv'
    <2> SUFFICES ASSUME LogInv', SlotInv, [Next]_vars PROVE SlotInv'
      OBVIOUS
    <2>1. CASE UNCHANGED vars
      BY <2>1 DEF vars, SlotInv, StatusMatches, Asked, Pending
    <2>2. QED
      BY <2>1, ManageKeepsSlots, PresenceKeepsSlots, AnswerKeepsSlots,
         PurgeKeepsSlots DEF Next
  <1>3. QED
    BY <1>1, <1>2, LogCorrect, PTL DEF Spec

(* Without PATCH a slot shows pending_* exactly while it is asked about.   *)
THEOREM PendingMatchesSlotHolds ==
    ASSUME PatchStatuses = {} PROVE Spec => []PendingMatchesSlot
  BY SlotsCorrect, SlotInvImplies, PTL

(* Without PATCH a slot whose tag is away or unregistered goes back to     *)
(* "occupied" in one way only: an open return of it is confirmed.  Manual  *)
(* changes are refused in those statuses or keep them; registration needs  *)
(* a slot without a stock record, and such a slot is empty.                *)
THEOREM BackInStockOnlyByReturnHolds ==
    ASSUME PatchStatuses = {} PROVE Spec => BackInStockOnlyByReturn
  <1> DEFINE Away(s) == slotStatus[s] \in AwaitingStatuses \cup {"checked_out"}
             Booked(s) == \E i \in DOMAIN ops :
                             /\ ops[i].slot = s /\ Pending(i, "return")
                             /\ ops'[i].status = "confirmed"
  <1>1. ASSUME SlotInv, Next, NEW s \in Slots, Away(s), slotStatus'[s] = "occupied"
        PROVE  Booked(s)
    <2>0. /\ LogInv /\ TypeOK /\ slotStatus \in [Slots -> SlotStatuses]
          /\ slotStatus[s] \notin {"absent", "empty", "occupied"}
          /\ hasItem[s]
      BY <1>1 DEF SlotInv, LogInv, TypeOK, AwaitingStatuses, StatusMatches
    <2>1. CASE \E t \in Slots : Manage(t)
      <3>1. PICK t \in Slots : Manage(t)
        BY <2>1
      <3>2. slotStatus' = slotStatus \/ slotStatus'[s] = slotStatus[s]
               \/ slotStatus'[s] = "empty"
        <4>1. CASE \E e \in Epcs, q \in 0..MaxQty : Register(t, e, q)
          BY <2>0, <4>1 DEF Register
        <4>2. CASE \/ \E e \in Epcs : BindTag(t, e) \/ RebindTag(t, e)
                   \/ UnbindTag(t)
          BY <4>2 DEF BindTag, RebindTag, UnbindTag, ChangeTag
        <4>3. CASE DeleteRecord(t)
          BY <2>0, <4>3 DEF DeleteRecord, SetSlotAndSync
        <4>4. CASE \E q \in 0..MaxQty : EditItem(t, q)
          BY <2>0, <4>4 DEF EditItem
        <4>5. QED
          BY <3>1, <4>1, <4>2, <4>3, <4>4 DEF Manage
      <3>3. QED
        BY <1>1, <2>0, <3>2
    <2>2. CASE \E t \in Slots : Presence(t)
      BY <1>1, <2>0, <2>2 DEF Presence, LeaveUnregistered, RequestTakeOut,
         RequestReturn, SetSlotAndSync
    <2>3. CASE \E i \in DOMAIN ops : Answer(i)
      <3>1. PICK i \in DOMAIN ops : Answer(i)
        BY <2>3
      <3>2. ops[i] \in OpRows /\ ops[i].slot \in Slots
        BY <2>0, RowType
      <3>3. CASE ConfirmTakeOut(i)
        BY <1>1, <2>0, <3>2, <3>3 DEF ConfirmTakeOut, SetSlotAndSync
      <3>4. CASE Cancel(i)
        BY <1>1, <2>0, <3>2, <3>4, AfterDeniedTakeOutType DEF Cancel, SetSlotAndSync
      <3>5. CASE \E consumed \in 0..MaxConsumed : ConfirmReturn(i, consumed)
        <4>1. PICK consumed \in 0..MaxConsumed : ConfirmReturn(i, consumed)
          BY <3>5
        <4>2. PICK after : /\ ops' = Answered(i, qty[ops[i].slot], after)
                           /\ \E new : SetSlotAndSync(ops[i].slot, new)
          BY <4>1 DEF ConfirmReturn
        <4>3. ops[i].slot = s
          BY <1>1, <2>0, <3>2, <4>2 DEF SetSlotAndSync
        <4>4. ops'[i].status = "confirmed"
          BY <2>0, <4>2 DEF Answered, OpRow, TypeOK
        <4>5. Pending(i, "return")
          BY <4>1 DEF ConfirmReturn
        <4>6. QED
          BY <3>1, <4>3, <4>4, <4>5
      <3>6. QED
        BY <3>1, <3>3, <3>4, <3>5 DEF Answer
    <2>4. CASE ClearAll
      BY <1>1, <2>0, <2>4, AfterDeniedTakeOutType DEF ClearAll
    <2>5. QED
      BY <1>1, <2>1, <2>2, <2>3, <2>4 DEF Next
  <1>2. SlotInv /\ [Next]_vars
           => [\A s \in Slots :
                 /\ slotStatus[s] \in AwaitingStatuses \cup {"checked_out"}
                 /\ slotStatus'[s] = "occupied"
                 => \E i \in DOMAIN ops : /\ ops[i].slot = s /\ Pending(i, "return")
                                          /\ ops'[i].status = "confirmed"]_vars
    BY <1>1
  <1>3. QED
    BY <1>2, SlotsCorrect, PTL DEF Spec, BackInStockOnlyByReturn

-----------------------------------------------------------------------------
(* The cabinet's alert follows its slots, for operators who do not         *)
(* overwrite statuses with PATCH.                                          *)

(* Statuses of a slot that raise no alert on its cabinet.                  *)
Neutral == {"absent", "empty", "occupied", "disabled"}

(* Some slot of cabinet c has a status of X.                               *)
SomeSlot(c, st, X) == \E s \in Slots : CabinetOf[s] = c /\ st[s] \in X

(* Two statuses of a cabinet that raise the same alert, or none.           *)
SameAlert(x, y) == x = y \/ {x, y} \subseteq {"active", "empty"}

(* The alert depends on which kinds of trouble the cabinet's slots have,   *)
(* the most urgent one first.                                              *)
LEMMA AlertCases ==
    ASSUME NEW c, NEW st
    PROVE  IF SomeSlot(c, st, {"pending_checkout", "checkout_unregistered"})
           THEN CabinetStatus(c, st) = "checkout_unregistered"
           ELSE IF SomeSlot(c, st, {"pending_return", "return_unregistered"})
           THEN CabinetStatus(c, st) = "return_unregistered"
           ELSE IF SomeSlot(c, st, {"checked_out"})
           THEN CabinetStatus(c, st) = "checked_out"
           ELSE CabinetStatus(c, st) \in {"active", "empty"}
  <1> DEFINE seen == {st[s] : s \in {t \in Slots : CabinetOf[t] = c}} \ {"absent"}
  <1>1. ASSUME NEW X, "absent" \notin X
        PROVE  SomeSlot(c, st, X) <=> seen \cap X # {}
    BY <1>1 DEF SomeSlot
  <1>2. /\ SomeSlot(c, st, {"pending_checkout", "checkout_unregistered"})
             <=> seen \cap {"pending_checkout", "checkout_unregistered"} # {}
        /\ SomeSlot(c, st, {"pending_return", "return_unregistered"})
             <=> seen \cap {"pending_return", "return_unregistered"} # {}
        /\ SomeSlot(c, st, {"checked_out"}) <=> seen \cap {"checked_out"} # {}
    BY <1>1
  <1>3. CabinetStatus(c, st) =
          IF seen = {} THEN "active"
          ELSE IF seen \cap {"pending_checkout", "checkout_unregistered"} # {}
               THEN "checkout_unregistered"
          ELSE IF seen \cap {"pending_return", "return_unregistered"} # {}
               THEN "return_unregistered"
          ELSE IF "checked_out" \in seen THEN "checked_out"
          ELSE IF seen = {"empty"} THEN "empty" ELSE "active"
    BY DEF CabinetStatus
  <1> HIDE DEF seen
  <1>4. QED
    BY <1>2, <1>3

(* Changes between statuses that raise no alert leave the alert as it is.  *)
LEMMA NeutralChange ==
    ASSUME NEW c, NEW st, NEW new,
           \A s \in Slots : CabinetOf[s] = c =>
               new[s] = st[s] \/ {st[s], new[s]} \subseteq Neutral
    PROVE  SameAlert(CabinetStatus(c, st), CabinetStatus(c, new))
  <1>1. ASSUME NEW X, X \cap Neutral = {}
        PROVE  SomeSlot(c, st, X) <=> SomeSlot(c, new, X)
    BY <1>1 DEF SomeSlot
  <1>2. /\ SomeSlot(c, st, {"pending_checkout", "checkout_unregistered"})
             <=> SomeSlot(c, new, {"pending_checkout", "checkout_unregistered"})
        /\ SomeSlot(c, st, {"pending_return", "return_unregistered"})
             <=> SomeSlot(c, new, {"pending_return", "return_unregistered"})
        /\ SomeSlot(c, st, {"checked_out"}) <=> SomeSlot(c, new, {"checked_out"})
    BY <1>1 DEF Neutral
  <1>3. QED
    BY <1>2, AlertCases DEF SameAlert

(* The property, cabinet by cabinet.                                       *)
LEMMA AlertPerCabinet ==
    CabinetAlertIsCurrent
      <=> \A c \in Cabinets : SameAlert(cabStatus[c], CabinetStatus(c, slotStatus))
  BY DEF CabinetAlertIsCurrent, SameAlert

-----------------------------------------------------------------------------

(* A handler that synchronises the cabinet of its slot keeps all alerts.   *)
LEMMA SyncKeepsAlert ==
    ASSUME TypeOK, CabinetAlertIsCurrent, NEW s \in Slots, NEW new,
           SetSlotAndSync(s, new)
    PROVE  CabinetAlertIsCurrent'
  <1> SUFFICES ASSUME NEW c \in Cabinets
               PROVE  SameAlert(cabStatus'[c], CabinetStatus(c, slotStatus'))
    BY DEF CabinetAlertIsCurrent, SameAlert
  <1>1. CASE c = CabinetOf[s]
    BY <1>1 DEF SetSlotAndSync, TypeOK, SameAlert
  <1>2. CASE c # CabinetOf[s]
    <2>1. \A t \in Slots : CabinetOf[t] = c => slotStatus'[t] = slotStatus[t]
      BY <1>2 DEF SetSlotAndSync, TypeOK
    <2>2. SameAlert(CabinetStatus(c, slotStatus), CabinetStatus(c, slotStatus'))
      BY <2>1, NeutralChange
    <2>3. cabStatus'[c] = cabStatus[c]
      BY <1>2 DEF SetSlotAndSync, TypeOK
    <2>4. QED
      BY <2>2, <2>3, AlertPerCabinet DEF SameAlert
  <1>3. QED
    BY <1>1, <1>2

(* A handler that does not synchronise keeps them if it only moves slots   *)
(* between statuses that raise no alert.                                   *)
LEMMA UnsyncedKeepsAlert ==
    ASSUME CabinetAlertIsCurrent, UNCHANGED cabStatus,
           \A s \in Slots : slotStatus'[s] = slotStatus[s]
                            \/ {slotStatus[s], slotStatus'[s]} \subseteq Neutral
    PROVE  CabinetAlertIsCurrent'
  <1> SUFFICES ASSUME NEW c \in Cabinets
               PROVE  SameAlert(cabStatus'[c], CabinetStatus(c, slotStatus'))
    BY DEF CabinetAlertIsCurrent, SameAlert
  <1>1. SameAlert(CabinetStatus(c, slotStatus), CabinetStatus(c, slotStatus'))
    BY NeutralChange
  <1>2. QED
    BY <1>1, AlertPerCabinet DEF SameAlert

(* Manual changes: registration finds a slot without stock record, which   *)
(* is absent or empty; editing turns empty into occupied; deletion         *)
(* synchronises; the others leave the statuses alone.                      *)
LEMMA ManageKeepsAlert ==
    ASSUME PatchStatuses = {}, SlotInv, CabinetAlertIsCurrent,
           NEW s \in Slots, Manage(s)
    PROVE  CabinetAlertIsCurrent'
  <1>0. TypeOK /\ slotStatus \in [Slots -> SlotStatuses] /\ StatusMatches(s)
    BY DEF SlotInv, LogInv, TypeOK
  <1>1. CASE \E e \in Epcs, q \in 0..MaxQty : Register(s, e, q)
    <2>1. /\ UNCHANGED cabStatus /\ slotStatus[s] \in {"absent", "empty"}
          /\ slotStatus' = [slotStatus EXCEPT ![s] = "occupied"]
      BY <1>0, <1>1 DEF Register, StatusMatches
    <2>2. QED
      BY <1>0, <2>1, UnsyncedKeepsAlert DEF Neutral
  <1>2. CASE (\E e \in Epcs : BindTag(s, e) \/ RebindTag(s, e)) \/ UnbindTag(s)
    BY <1>2, UnsyncedKeepsAlert DEF BindTag, RebindTag, UnbindTag, ChangeTag
  <1>3. CASE DeleteRecord(s)
    BY <1>0, <1>3, SyncKeepsAlert DEF DeleteRecord
  <1>4. CASE \E q \in 0..MaxQty : EditItem(s, q)
    BY <1>0, <1>4, UnsyncedKeepsAlert DEF EditItem, Neutral
  <1>5. QED
    BY <1>1, <1>2, <1>3, <1>4 DEF Manage

(* Clearing the log recomputes every cabinet that has a slot it resets.    *)
LEMMA ClearAllKeepsAlert ==
    ASSUME TypeOK, CabinetAlertIsCurrent, ClearAll PROVE CabinetAlertIsCurrent'
  <1> DEFINE reset == {s \in Slots :
                         slotStatus[s] \in {"pending_checkout", "pending_return"}}
  <1> SUFFICES ASSUME NEW c \in Cabinets
               PROVE  SameAlert(cabStatus'[c], CabinetStatus(c, slotStatus'))
    BY DEF CabinetAlertIsCurrent, SameAlert
  <1>1. CASE \E s \in reset : CabinetOf[s] = c
    BY <1>1 DEF ClearAll, SameAlert
  <1>2. CASE ~\E s \in reset : CabinetOf[s] = c
    <2>1. \A t \in Slots : CabinetOf[t] = c => slotStatus'[t] = slotStatus[t]
      BY <1>2 DEF ClearAll
    <2>2. cabStatus'[c] = cabStatus[c]
      BY <1>2 DEF ClearAll
    <2>3. QED
      BY <2>1, <2>2, NeutralChange, AlertPerCabinet DEF SameAlert
  <1>3. QED
    BY <1>1, <1>2

-----------------------------------------------------------------------------

(* operation_service.py, _sync_cabinet_status: without PATCH the cabinet's *)
(* alert is that of its slots in every state, although registration and    *)
(* editing do not call it; only active and empty may be confused.          *)
THEOREM CabinetAlertIsCurrentHolds ==
    ASSUME PatchStatuses = {} PROVE Spec => []CabinetAlertIsCurrent
  <1>1. Init => CabinetAlertIsCurrent
    <2> SUFFICES ASSUME Init, NEW c \in Cabinets
                 PROVE  SameAlert(cabStatus[c], CabinetStatus(c, slotStatus))
      BY DEF CabinetAlertIsCurrent, SameAlert
    <2>1. \A X : "absent" \notin X => ~SomeSlot(c, slotStatus, X)
      BY DEF Init, SomeSlot
    <2>2. CabinetStatus(c, slotStatus) \in {"active", "empty"}
      BY <2>1, AlertCases
    <2>3. QED
      BY <2>2 DEF Init, SameAlert
  <1>2. SlotInv /\ CabinetAlertIsCurrent /\ [Next]_vars => CabinetAlertIsCurrent'
    <2> SUFFICES ASSUME SlotInv, CabinetAlertIsCurrent, [Next]_vars
                 PROVE  CabinetAlertIsCurrent'
      OBVIOUS
    <2>0. TypeOK
      BY DEF SlotInv, LogInv
    <2>1. ASSUME NEW s \in Slots, Manage(s) PROVE CabinetAlertIsCurrent'
      BY <2>1, ManageKeepsAlert
    <2>2. ASSUME NEW s \in Slots, Presence(s) PROVE CabinetAlertIsCurrent'
      BY <2>0, <2>2, SyncKeepsAlert
         DEF Presence, LeaveUnregistered, RequestTakeOut, RequestReturn
    <2>3. ASSUME NEW i \in DOMAIN ops, Answer(i) PROVE CabinetAlertIsCurrent'
      <3>1. PICK new : SetSlotAndSync(ops[i].slot, new)
        BY <2>3 DEF Answer, ConfirmTakeOut, ConfirmReturn, Cancel
      <3>2. ops[i].slot \in Slots
        BY <2>0, RowType
      <3>3. QED
        BY <2>0, <3>1, <3>2, SyncKeepsAlert
    <2>4. CASE ClearAll
      BY <2>0, <2>4, ClearAllKeepsAlert
    <2>5. CASE UNCHANGED vars
      BY <2>5 DEF vars, CabinetAlertIsCurrent
    <2>6. QED
      BY <2>1, <2>2, <2>3, <2>4, <2>5 DEF Next
  <1>3. QED
    BY <1>1, <1>2, SlotsCorrect, PTL DEF Spec

-----------------------------------------------------------------------------
(* SlotOperations between two specifications: it implements Custody, for   *)
(* any number of slots and any bounds, as long as no operator overwrites a *)
(* status with PATCH; and StockLedger implements it, so everything proved  *)
(* about it holds with the ledger too.                                     *)

(* A used-up slot has nothing in stock; one with a stock record has never  *)
(* been out of use.                                                        *)
EmptyHasNone ==
    \A s \in Slots :
        /\ slotStatus[s] = "empty" => qty[s] = 0
        /\ hasItem[s] => slotStatus[s] \notin {"absent", "disabled"}

CustodyInv == SlotInv /\ EmptyHasNone

(* With SlotInv the place of a slot can be told from its status: only the  *)
(* mark of an open return has to be looked up in the log.                  *)
Where(has, status, unbooked) ==
    IF ~has THEN "none"
    ELSE IF status = "pending_checkout" THEN "asked_out"
    ELSE IF status = "pending_return"
         THEN IF unbooked THEN "asked_in_unbooked" ELSE "asked_in"
    ELSE PlaceByStatus(status)

HeldByStatus ==
    \A s \in Slots : held[s] = Where(hasItem[s], slotStatus[s], OpenUnbooked(s))

LEMMA HeldIs == SlotInv => HeldByStatus
  <1> SUFFICES ASSUME SlotInv, NEW s \in Slots
               PROVE  held[s] = Where(hasItem[s], slotStatus[s], OpenUnbooked(s))
    BY DEF HeldByStatus
  <1>1. /\ slotStatus[s] = "pending_checkout" <=> OpenQuestion(s, "take_out")
        /\ slotStatus[s] = "pending_return" <=> OpenQuestion(s, "return")
    BY DEF SlotInv, StatusMatches, Asked, OpenQuestion
  <1>2. OpenUnbooked(s) => OpenQuestion(s, "return")
    BY DEF OpenUnbooked, OpenQuestion
  <1> QED BY <1>1, <1>2 DEF held, PlaceOf, Where

LEMMA HeldIsNext == SlotInv' => HeldByStatus'
  BY HeldIs, PTL

LEMMA HeldEffect ==
    ASSUME SlotInv, SlotInv', NEW s \in Slots,
           \A t \in Slots : t # s => /\ slotStatus'[t] = slotStatus[t]
                                    /\ hasItem'[t] = hasItem[t]
                                    /\ (OpenUnbooked(t)' <=> OpenUnbooked(t))
    PROVE  held' = [held EXCEPT
                      ![s] = Where(hasItem'[s], slotStatus'[s], OpenUnbooked(s)')]
  <1>1. /\ held = [t \in Slots |-> held[t]] /\ held' = [t \in Slots |-> held'[t]]
    BY DEF held
  <1>2. ASSUME NEW t \in Slots, t # s PROVE held'[t] = held[t]
    <2>1. held[t] = Where(hasItem[t], slotStatus[t], OpenUnbooked(t))
      BY HeldIs DEF HeldByStatus
    <2>2. held'[t] = Where(hasItem'[t], slotStatus'[t], OpenUnbooked(t)')
      BY HeldIsNext DEF HeldByStatus
    <2> QED BY <1>2, <2>1, <2>2 DEF Where
  <1>3. held'[s] = Where(hasItem'[s], slotStatus'[s], OpenUnbooked(s)')
    BY HeldIsNext DEF HeldByStatus
  <1> QED BY <1>1, <1>2, <1>3

-----------------------------------------------------------------------------
(* The log and the mark of an open return.                                 *)

LEMMA AppendUnbooked ==
    ASSUME TypeOK, NEW s \in Slots, NEW row \in OpRows, LogOp(row),
           row.slot = s, ~HasPending(s)
    PROVE  /\ OpenUnbooked(s)'
                <=> (row.status = "pending" /\ row.kind = "return" /\ row.reconcile)
           /\ \A t \in Slots : t # s => (OpenUnbooked(t)' <=> OpenUnbooked(t))
  <1> DEFINE n == Len(ops) + 1
  <1>1. /\ DOMAIN ops = 1..(n - 1) /\ DOMAIN ops' = 1..n /\ n \in Nat
        /\ ops'[n] = row /\ \A i \in 1..(n - 1) : ops'[i] = ops[i]
    BY LogOpEffect
  <1>2. n >= 1
    BY <1>1, LogOpEffect
  <1> HIDE DEF n
  <1>3. 1..n = 1..(n - 1) \cup {n}
    BY <1>1, <1>2
  <1> QED BY <1>1, <1>3 DEF OpenUnbooked, Pending, HasPending

LEMMA AnswerUnbooked ==
    ASSUME LogInv, NEW i \in DOMAIN ops, ops[i].status = "pending",
           NEW row \in OpRows, ops' = [ops EXCEPT ![i] = row],
           row.slot = ops[i].slot, row.status # "pending"
    PROVE  \A t \in Slots : t # row.slot => (OpenUnbooked(t)' <=> OpenUnbooked(t))
  <1>1. /\ DOMAIN ops' = DOMAIN ops /\ ops'[i] = row
        /\ \A j \in DOMAIN ops : j # i => ops'[j] = ops[j]
    BY ReplaceRow DEF LogInv
  <1> QED BY <1>1 DEF OpenUnbooked, Pending

\* The mark of the one open question of a slot.
LEMMA MarkOf ==
    ASSUME LogInv, NEW i \in DOMAIN ops, Pending(i, "return")
    PROVE  OpenUnbooked(ops[i].slot) <=> ops[i].reconcile
  <1>1. \A j \in DOMAIN ops :
           ops[j].slot = ops[i].slot /\ ops[j].status = "pending" => j = i
    BY LogInvImplies DEF OnePendingPerSlot, Pending
  <1> QED BY <1>1 DEF OpenUnbooked, Pending

-----------------------------------------------------------------------------
(* The steps.                                                              *)

\* What Custody is allowed to do in one step, or nothing.
AbstractStep == Abstract!CustodyNext \/ UNCHANGED <<held, qty>>

\* A manual change that logs one answered row about slot s.
LEMMA ManualEffect ==
    ASSUME CustodyInv, SlotInv', NEW s \in Slots, ~HasPending(s),
           NEW kind \in OpKinds, NEW before \in Nat, NEW after \in Nat,
           LogOp(OpRow(kind, s, "confirmed", before, after, FALSE)),
           \A t \in Slots : t # s => slotStatus'[t] = slotStatus[t]
                                     /\ hasItem'[t] = hasItem[t]
    PROVE  held' = [held EXCEPT ![s] = Where(hasItem'[s], slotStatus'[s], FALSE)]
  <1> DEFINE row == OpRow(kind, s, "confirmed", before, after, FALSE)
  <1>1. row \in OpRows
    BY OpRowType DEF OpStatuses
  <1>2. row.slot = s /\ row.status = "confirmed"
    BY DEF OpRow
  <1>3. LogOp(row) /\ TypeOK
    BY DEF CustodyInv, SlotInv, LogInv
  <1> HIDE DEF row
  <1>4. /\ ~OpenUnbooked(s)'
        /\ \A t \in Slots : t # s => (OpenUnbooked(t)' <=> OpenUnbooked(t))
    BY <1>1, <1>2, <1>3, AppendUnbooked
  <1>5. held' = [held EXCEPT
                   ![s] = Where(hasItem'[s], slotStatus'[s], OpenUnbooked(s)')]
    BY <1>4, HeldEffect DEF CustodyInv
  <1> QED BY <1>4, <1>5 DEF Where

LEMMA ManageStep ==
    ASSUME PatchStatuses = {}, CustodyInv, SlotInv', NEW s \in Slots, Manage(s)
    PROVE  AbstractStep /\ EmptyHasNone'
  <1> USE BoundsAssumption
  <1>0. /\ TypeOK /\ qty \in [Slots -> Nat] /\ slotStatus \in [Slots -> SlotStatuses]
        /\ hasItem \in [Slots -> BOOLEAN]
        /\ StatusMatches(s) /\ (~hasItem[s] => qty[s] = 0 /\ ~HasPending(s))
        /\ held \in [Slots -> {held[t] : t \in Slots}]
        /\ held[s] = Where(hasItem[s], slotStatus[s], OpenUnbooked(s))
    <2>1. held[s] = Where(hasItem[s], slotStatus[s], OpenUnbooked(s))
      BY HeldIs DEF CustodyInv, HeldByStatus
    <2>2. held \in [Slots -> {held[t] : t \in Slots}]
      BY DEF held
    <2>3. ~hasItem[s] => ~HasPending(s)
      BY DEF CustodyInv, SlotInv, LogInv, PendingRowIsFresh, HasPending
    <2> QED BY <2>1, <2>2, <2>3 DEF CustodyInv, SlotInv, LogInv, TypeOK
  <1>1. ASSUME NEW e \in Epcs, NEW q \in 0..MaxQty, Register(s, e, q)
        PROVE  AbstractStep /\ EmptyHasNone'
    <2>0. q \in Nat
      OBVIOUS
    <2>1. /\ ~hasItem[s] /\ "register_in" \in OpKinds
          /\ LogOp(OpRow("register_in", s, "confirmed", 0, q, FALSE))
          /\ slotStatus' = [slotStatus EXCEPT ![s] = "occupied"]
          /\ hasItem' = [hasItem EXCEPT ![s] = TRUE]
          /\ qty' = [qty EXCEPT ![s] = q]
      BY <1>1 DEF Register, OpKinds
    <2>2. held' = [held EXCEPT ![s] = Where(TRUE, "occupied", FALSE)]
      BY <1>0, <2>0, <2>1, ManualEffect
    <2>3. held[s] = "none" /\ Where(TRUE, "occupied", FALSE) = "in"
      BY <1>0, <2>1 DEF Where, PlaceByStatus
    <2>4. Abstract!Enter(s, q)
      BY <2>1, <2>2, <2>3 DEF Abstract!Enter, Abstract!Put
    <2>5. EmptyHasNone'
      BY <1>0, <2>1 DEF CustodyInv, EmptyHasNone
    <2> QED BY <2>4, <2>5 DEF AbstractStep, Abstract!CustodyNext, Abstract!Manual
  <1>2. ASSUME NEW kind \in OpKinds, NEW e, Manageable(s), ChangeTag(kind, s, e)
        PROVE  AbstractStep /\ EmptyHasNone'
    <2>1. /\ ~HasPending(s) /\ hasItem[s]
          /\ LogOp(OpRow(kind, s, "confirmed", qty[s], qty[s], FALSE))
          /\ slotStatus' = slotStatus /\ hasItem' = hasItem /\ qty' = qty
      BY <1>2 DEF Manageable, ChangeTag
    <2>2. held' = [held EXCEPT ![s] = Where(hasItem[s], slotStatus[s], FALSE)]
      BY <1>0, <2>1, ManualEffect
    <2>3. ~OpenUnbooked(s)
      BY <2>1 DEF OpenUnbooked, Pending, HasPending
    <2>4. held' = held
      BY <1>0, <2>2, <2>3 DEF Where
    <2>5. EmptyHasNone'
      BY <2>1 DEF CustodyInv, EmptyHasNone
    <2> QED BY <2>1, <2>4, <2>5 DEF AbstractStep
  <1>3. ASSUME NEW e \in Epcs, BindTag(s, e) PROVE AbstractStep /\ EmptyHasNone'
    BY <1>2, <1>3 DEF BindTag, OpKinds
  <1>4. ASSUME NEW e \in Epcs, RebindTag(s, e) PROVE AbstractStep /\ EmptyHasNone'
    BY <1>2, <1>4 DEF RebindTag, OpKinds
  <1>5. CASE UnbindTag(s)
    BY <1>2, <1>5 DEF UnbindTag, OpKinds
  <1>6. Manageable(s) => held[s] \in {"in", "out", "used_up"}
    BY <1>0 DEF Manageable, Where, PlaceByStatus, AwaitingStatuses
  <1>7. CASE DeleteRecord(s)
    <2>1. /\ Manageable(s) /\ ~HasPending(s) /\ 0 \in Nat /\ "delete" \in OpKinds
          /\ LogOp(OpRow("delete", s, "confirmed", qty[s], 0, FALSE))
          /\ slotStatus' = [slotStatus EXCEPT ![s] = "empty"]
          /\ hasItem' = [hasItem EXCEPT ![s] = FALSE]
          /\ qty' = [qty EXCEPT ![s] = 0]
      BY <1>7 DEF DeleteRecord, Manageable, SetSlotAndSync, OpKinds
    <2>2. held' = [held EXCEPT ![s] = Where(FALSE, "empty", FALSE)]
      BY <1>0, <2>1, ManualEffect
    <2>3. Abstract!Remove(s)
      BY <1>6, <2>1, <2>2 DEF Abstract!Remove, Abstract!Put, Abstract!Settled, Where
    <2>4. EmptyHasNone'
      BY <1>0, <2>1 DEF CustodyInv, EmptyHasNone
    <2> QED BY <2>3, <2>4 DEF AbstractStep, Abstract!CustodyNext, Abstract!Manual
  <1>8. ASSUME NEW q \in 0..MaxQty, EditItem(s, q) PROVE AbstractStep /\ EmptyHasNone'
    <2> DEFINE new == IF q > 0 /\ q # qty[s] /\ slotStatus[s] = "empty"
                      THEN "occupied" ELSE slotStatus[s]
    <2>0. q \in Nat
      OBVIOUS
    <2>1. /\ Manageable(s) /\ ~HasPending(s) /\ hasItem[s]
          /\ "manual_edit" \in OpKinds
          /\ LogOp(OpRow("manual_edit", s, "confirmed", qty[s], q, FALSE))
          /\ hasItem' = hasItem /\ qty' = [qty EXCEPT ![s] = q]
      BY <1>8 DEF EditItem, Manageable, OpKinds
    <2>2. slotStatus' = [slotStatus EXCEPT ![s] = new]
      BY <1>0, <1>8 DEF EditItem
    <2>3. held' = [held EXCEPT ![s] = Where(hasItem[s], new, FALSE)]
      BY <1>0, <2>0, <2>1, <2>2, ManualEffect
    <2>4. slotStatus[s] \in {"occupied", "checked_out", "empty"}
      BY <1>0, <2>1 DEF Manageable, AwaitingStatuses, SlotStatuses, StatusMatches,
                        Asked, Pending, HasPending, CustodyInv, EmptyHasNone
    <2>5. slotStatus[s] = "empty" => qty[s] = 0
      BY DEF CustodyInv, EmptyHasNone
    <2>6. /\ held[s] \in {"in", "out", "used_up"}
          /\ Where(hasItem[s], new, FALSE)
               = IF held[s] = "used_up" /\ q > 0 THEN "in" ELSE held[s]
      <3>1. CASE slotStatus[s] = "empty"
        BY <1>0, <2>1, <2>5, <3>1 DEF Where, PlaceByStatus
      <3>2. CASE slotStatus[s] # "empty"
        BY <1>0, <2>1, <2>4, <3>2 DEF Where, PlaceByStatus
      <3> QED BY <3>1, <3>2
    <2>7. /\ new = "empty" => q = 0
          /\ new \notin {"absent", "disabled"}
      BY <1>0, <2>0, <2>1, <2>4, <2>5
    <2> HIDE DEF new
    <2>8. Abstract!Recount(s, q)
      BY <2>1, <2>3, <2>6 DEF Abstract!Recount, Abstract!Put, Abstract!Settled
    <2>9. EmptyHasNone'
      BY <1>0, <2>1, <2>2, <2>7 DEF CustodyInv, EmptyHasNone
    <2> QED BY <2>8, <2>9 DEF AbstractStep, Abstract!CustodyNext, Abstract!Manual
  <1> QED BY <1>1, <1>3, <1>4, <1>5, <1>7, <1>8 DEF Manage

LEMMA PresenceStep ==
    ASSUME CustodyInv, SlotInv', NEW s \in Slots, Presence(s)
    PROVE  AbstractStep /\ EmptyHasNone'
  <1>0. /\ TypeOK /\ qty \in [Slots -> Nat] /\ slotStatus \in [Slots -> SlotStatuses]
        /\ hasItem \in [Slots -> BOOLEAN] /\ StatusMatches(s)
        /\ held[s] = Where(hasItem[s], slotStatus[s], OpenUnbooked(s))
    <2>1. held[s] = Where(hasItem[s], slotStatus[s], OpenUnbooked(s))
      BY HeldIs DEF CustodyInv, HeldByStatus
    <2> QED BY <2>1 DEF CustodyInv, SlotInv, LogInv, TypeOK
  <1>1. CASE LeaveUnregistered(s)
    <2>1. /\ hasItem[s] /\ slotStatus[s] = "return_unregistered"
          /\ slotStatus' = [slotStatus EXCEPT ![s] = "checked_out"]
          /\ hasItem' = hasItem /\ qty' = qty /\ ops' = ops
      BY <1>1 DEF LeaveUnregistered, PresenceApplies, SetSlotAndSync
    <2>2. \A t \in Slots : OpenUnbooked(t)' <=> OpenUnbooked(t)
      BY <2>1 DEF OpenUnbooked, Pending
    <2>3. held' = [held EXCEPT
                     ![s] = Where(hasItem'[s], slotStatus'[s], OpenUnbooked(s)')]
      BY <1>0, <2>1, <2>2, HeldEffect DEF CustodyInv
    <2>4. held[s] = "in_unbooked" /\ held' = [held EXCEPT ![s] = "out"]
      BY <1>0, <2>1, <2>3 DEF Where, PlaceByStatus
    <2>5. Abstract!LeaveAgain(s)
      BY <2>1, <2>4 DEF Abstract!LeaveAgain, Abstract!Put
    <2>6. EmptyHasNone'
      BY <1>0, <2>1 DEF CustodyInv, EmptyHasNone
    <2> QED BY <2>5, <2>6 DEF AbstractStep, Abstract!CustodyNext, Abstract!Ask
  <1>2. ASSUME NEW kind \in {"take_out", "return"}, NEW mark \in BOOLEAN,
               PresenceApplies(s), hasItem' = hasItem, NEW new,
               LogOp(OpRow(kind, s, "pending", qty[s], qty[s], mark)),
               SetSlotAndSync(s, new)
        PROVE  \E open \in BOOLEAN :
                  /\ open <=> kind = "return" /\ mark
                  /\ held' = [held EXCEPT ![s] = Where(TRUE, new, open)]
    <2> DEFINE row == OpRow(kind, s, "pending", qty[s], qty[s], mark)
    <2>1. row \in OpRows
      BY <1>0, OpRowType DEF OpStatuses, OpKinds
    <2>2. row.slot = s /\ row.status = "pending" /\ row.kind = kind /\ row.reconcile = mark
      BY DEF OpRow
    <2>3. LogOp(row) /\ ~HasPending(s) /\ hasItem[s]
          /\ slotStatus' = [slotStatus EXCEPT ![s] = new]
      BY <1>2 DEF PresenceApplies, SetSlotAndSync
    <2> HIDE DEF row
    <2>4. /\ OpenUnbooked(s)' <=> (kind = "return" /\ mark)
          /\ \A t \in Slots : t # s => (OpenUnbooked(t)' <=> OpenUnbooked(t))
      BY <1>0, <2>1, <2>2, <2>3, AppendUnbooked
    <2>5. held' = [held EXCEPT
                     ![s] = Where(hasItem'[s], slotStatus'[s], OpenUnbooked(s)')]
      BY <1>0, <1>2, <2>3, <2>4, HeldEffect DEF CustodyInv
    <2>6. hasItem'[s] /\ slotStatus'[s] = new
      BY <1>0, <1>2, <2>3
    <2>7. OpenUnbooked(s)' \in BOOLEAN
      BY DEF OpenUnbooked
    <2> QED BY <2>4, <2>5, <2>6, <2>7 DEF Where
  <1>3. CASE RequestTakeOut(s)
    <2>1. /\ PresenceApplies(s) /\ hasItem[s] /\ hasItem' = hasItem /\ qty' = qty
          /\ slotStatus[s] = "occupied" /\ qty[s] > 0
          /\ LogOp(OpRow("take_out", s, "pending", qty[s], qty[s], FALSE))
          /\ SetSlotAndSync(s, "pending_checkout")
      BY <1>3 DEF RequestTakeOut, PresenceApplies
    <2>2. held' = [held EXCEPT ![s] = "asked_out"]
      BY <1>2, <2>1 DEF Where
    <2>3. held[s] = "in"
      BY <1>0, <2>1 DEF Where, PlaceByStatus
    <2>4. Abstract!AskOut(s)
      BY <2>1, <2>2, <2>3 DEF Abstract!AskOut, Abstract!Put
    <2>5. EmptyHasNone'
      BY <1>0, <2>1 DEF CustodyInv, EmptyHasNone, SetSlotAndSync
    <2> QED BY <2>4, <2>5 DEF AbstractStep, Abstract!CustodyNext, Abstract!Ask
  <1>4. CASE RequestReturn(s)
    <2> DEFINE mark == (slotStatus[s] = "checkout_unregistered")
    <2>0. mark \in BOOLEAN
      OBVIOUS
    <2>1. /\ PresenceApplies(s) /\ hasItem[s] /\ hasItem' = hasItem /\ qty' = qty
          /\ LogOp(OpRow("return", s, "pending", qty[s], qty[s], mark))
          /\ SetSlotAndSync(s, "pending_return")
      BY <1>4 DEF RequestReturn, PresenceApplies
    <2>2. slotStatus[s] \in {"checked_out", "checkout_unregistered"}
      BY <1>0, <1>4 DEF RequestReturn, PresenceApplies, StatusMatches, Asked,
                        Pending, HasPending
    <2>3. held[s] = IF mark THEN "out_unbooked" ELSE "out"
      BY <1>0, <2>1, <2>2 DEF Where, PlaceByStatus
    <2>4. EmptyHasNone'
      BY <1>0, <2>1 DEF CustodyInv, EmptyHasNone, SetSlotAndSync
    <2> HIDE DEF mark
    <2>5. held' = [held EXCEPT ![s] = IF mark THEN "asked_in_unbooked" ELSE "asked_in"]
      BY <1>2, <2>0, <2>1 DEF Where
    <2>6. Abstract!AskIn(s)
      BY <2>0, <2>1, <2>3, <2>5 DEF Abstract!AskIn, Abstract!Put
    <2> QED BY <2>4, <2>6 DEF AbstractStep, Abstract!CustodyNext, Abstract!Ask
  <1> QED BY <1>1, <1>3, <1>4 DEF Presence

LEMMA AnswerStep ==
    ASSUME CustodyInv, SlotInv', NEW i \in DOMAIN ops, Answer(i)
    PROVE  AbstractStep /\ EmptyHasNone'
  <1>s. PICK s \in Slots : s = ops[i].slot
    BY RowType DEF CustodyInv, SlotInv, LogInv
  <1>0. /\ TypeOK /\ LogInv /\ ops[i] \in OpRows /\ ops[i].kind \in OpKinds
        /\ qty \in [Slots -> Nat] /\ slotStatus \in [Slots -> SlotStatuses]
        /\ hasItem \in [Slots -> BOOLEAN] /\ StatusMatches(s)
        /\ ops[i].reconcile \in BOOLEAN
        /\ ops[i].status = "pending" =>
             hasItem[s] /\ (ops[i].kind = "take_out" => qty[s] > 0)
        /\ held[s] = Where(hasItem[s], slotStatus[s], OpenUnbooked(s))
    <2>1. held[s] = Where(hasItem[s], slotStatus[s], OpenUnbooked(s))
      BY HeldIs DEF CustodyInv, HeldByStatus
    <2>2. TypeOK /\ LogInv
      BY DEF CustodyInv, SlotInv, LogInv
    <2>3. ops[i] \in OpRows /\ ops[i].kind \in OpKinds /\ ops[i].reconcile \in BOOLEAN
      BY <2>2, RowType
    <2>4. ops[i].status = "pending" =>
             hasItem[s] /\ (ops[i].kind = "take_out" => qty[s] > 0)
      BY <1>s, <2>2 DEF LogInv, PendingRowIsFresh
    <2> QED BY <2>1, <2>2, <2>3, <2>4 DEF CustodyInv, SlotInv, TypeOK
  <1>a. /\ Pending(i, "take_out") => held[s] = "asked_out"
        /\ Pending(i, "return") =>
             held[s] = IF ops[i].reconcile THEN "asked_in_unbooked" ELSE "asked_in"
    <2>1. /\ Pending(i, "take_out") => slotStatus[s] = "pending_checkout" /\ hasItem[s]
          /\ Pending(i, "return") => slotStatus[s] = "pending_return" /\ hasItem[s]
      BY <1>s, <1>0 DEF StatusMatches, Asked, Pending
    <2>2. Pending(i, "return") => (OpenUnbooked(s) <=> ops[i].reconcile)
      BY <1>s, <1>0, MarkOf
    <2> QED BY <1>0, <2>1, <2>2 DEF Where
  <1>1. ASSUME NEW row \in OpRows, ops' = [ops EXCEPT ![i] = row],
               row.slot = s, row.status # "pending",
               ops[i].status = "pending", hasItem' = hasItem,
               NEW new, SetSlotAndSync(s, new),
               new \notin {"pending_checkout", "pending_return"}
        PROVE  held' = [held EXCEPT ![s] = PlaceByStatus(new)]
    <2>1. slotStatus' = [slotStatus EXCEPT ![s] = new]
      BY <1>1 DEF SetSlotAndSync
    <2>2. \A t \in Slots : t # s => (OpenUnbooked(t)' <=> OpenUnbooked(t))
      BY <1>s, <1>0, <1>1, AnswerUnbooked
    <2>3. held' = [held EXCEPT
                     ![s] = Where(hasItem'[s], slotStatus'[s], OpenUnbooked(s)')]
      BY <1>0, <1>1, <2>1, <2>2, HeldEffect DEF CustodyInv
    <2> QED BY <1>0, <1>1, <2>1, <2>3 DEF Where
  <1>2. ASSUME NEW before \in Nat, NEW after \in Nat,
               ops' = Answered(i, before, after), ops[i].status = "pending",
               hasItem' = hasItem, NEW new, SetSlotAndSync(s, new),
               new \notin {"pending_checkout", "pending_return"}
        PROVE  held' = [held EXCEPT ![s] = PlaceByStatus(new)]
    <2> DEFINE row == OpRow(ops[i].kind, s, "confirmed", before, after, FALSE)
    <2>1. row \in OpRows
      BY <1>0, OpRowType DEF OpStatuses
    <2>2. row.slot = s /\ row.status = "confirmed"
      BY DEF OpRow
    <2>3. ops' = [ops EXCEPT ![i] = row]
      BY <1>s, <1>2 DEF Answered
    <2> HIDE DEF row
    <2> QED BY <1>1, <1>2, <2>1, <2>2, <2>3
  <1>3. CASE ConfirmTakeOut(i)
    <2>1. /\ qty[s] - 1 \in Nat /\ ops' = Answered(i, qty[s], qty[s] - 1)
          /\ qty[s] \in Nat /\ ops[i].status = "pending" /\ hasItem' = hasItem
          /\ SetSlotAndSync(s, "checked_out") /\ Pending(i, "take_out")
          /\ qty' = [qty EXCEPT ![s] = @ - 1]
      BY <1>s, <1>0, <1>3 DEF ConfirmTakeOut, Pending
    <2>2. held' = [held EXCEPT ![s] = "out"]
      BY <1>2, <2>1 DEF PlaceByStatus
    <2>3. Abstract!ConfirmOut(s)
      BY <1>a, <2>1, <2>2 DEF Abstract!ConfirmOut, Abstract!Put
    <2>4. EmptyHasNone'
      BY <1>0, <2>1 DEF CustodyInv, EmptyHasNone, SetSlotAndSync
    <2> QED BY <2>3, <2>4 DEF AbstractStep, Abstract!CustodyNext, Abstract!Reply
  <1>4. ASSUME NEW consumed \in 0..MaxConsumed, ConfirmReturn(i, consumed)
        PROVE  AbstractStep /\ EmptyHasNone'
    <2> DEFINE after == StockAfterReturn(qty[s], consumed, ops[i].reconcile)
               new == IF after > 0 THEN "occupied" ELSE "empty"
               left == qty[s] + (IF held[s] = "asked_in" THEN 1 ELSE 0) - consumed
    <2>0. consumed \in Nat /\ qty[s] \in Nat /\ MaxQty \in Nat
      BY <1>0, BoundsAssumption
    <2>1. after \in Nat
      BY <1>0, <2>0, StockAfterReturnType
    <2>2. /\ ops' = Answered(i, qty[s], after) /\ ops[i].status = "pending"
          /\ hasItem' = hasItem /\ SetSlotAndSync(s, new)
          /\ qty' = [qty EXCEPT ![s] = after] /\ after <= MaxQty
          /\ Pending(i, "return")
      BY <1>s, <1>4 DEF ConfirmReturn, Pending
    <2>3. new \in {"occupied", "empty"} /\ (new = "empty" => after = 0)
      BY <2>1
    <2>4. /\ left \in Int /\ after = IF left > 0 THEN left ELSE 0
          /\ held[s] \in {"asked_in", "asked_in_unbooked"}
      <3>1. held[s] = "asked_in" <=> ~ops[i].reconcile
        BY <1>0, <1>a, <2>2
      <3>2. CASE ops[i].reconcile
        BY <1>a, <2>0, <2>2, <3>1, <3>2 DEF StockAfterReturn
      <3>3. CASE ~ops[i].reconcile
        BY <1>a, <2>0, <2>2, <3>1, <3>3 DEF StockAfterReturn
      <3> QED BY <1>0, <3>2, <3>3
    <2>5. new = IF left > 0 THEN "occupied" ELSE "empty"
      BY <2>4
    <2>6. left <= MaxQty
      BY <2>0, <2>2, <2>4
    <2> HIDE DEF after, new
    <2>7. held' = [held EXCEPT ![s] = PlaceByStatus(new)]
      BY <1>0, <1>2, <2>1, <2>2, <2>3
    <2>8. PlaceByStatus(new) = IF left > 0 THEN "in" ELSE "used_up"
      BY <2>5 DEF PlaceByStatus
    <2>9. Abstract!ConfirmIn(s, consumed)
      BY <2>2, <2>4, <2>6, <2>7, <2>8 DEF Abstract!ConfirmIn, Abstract!Put
    <2>10. EmptyHasNone'
      BY <1>0, <2>1, <2>2, <2>3 DEF CustodyInv, EmptyHasNone, SetSlotAndSync
    <2> QED BY <2>9, <2>10 DEF AbstractStep, Abstract!CustodyNext, Abstract!Reply
  <1>5. CASE Cancel(i)
    <2> DEFINE row == [ops[i] EXCEPT !.status = "cancelled"]
    <2>1. row \in OpRows /\ row.slot = s /\ row.status = "cancelled"
      BY <1>s, <1>0 DEF OpRows, OpStatuses
    <2>2. PICK kind \in {"take_out", "return"} :
             /\ Pending(i, kind)
             /\ SetSlotAndSync(s, IF kind = "take_out" THEN AfterDeniedTakeOut(s)
                                  ELSE "return_unregistered")
      BY <1>s, <1>5 DEF Cancel
    <2>3. /\ ops' = [ops EXCEPT ![i] = row] /\ ops[i].status = "pending"
          /\ hasItem' = hasItem /\ qty' = qty
      BY <1>5 DEF Cancel, Pending
    <2> HIDE DEF row
    <2>4. CASE kind = "take_out"
      <3>1. SetSlotAndSync(s, "checkout_unregistered")
        BY <1>0, <2>2, <2>3, <2>4 DEF Pending, AfterDeniedTakeOut
      <3>2. held' = [held EXCEPT ![s] = "out_unbooked"]
        BY <1>1, <2>1, <2>3, <3>1 DEF PlaceByStatus
      <3>3. Abstract!DenyOut(s)
        BY <1>a, <2>2, <2>3, <2>4, <3>2 DEF Abstract!DenyOut, Abstract!Put
      <3>4. EmptyHasNone'
        BY <1>0, <2>3, <3>1 DEF CustodyInv, EmptyHasNone, SetSlotAndSync
      <3> QED BY <3>3, <3>4 DEF AbstractStep, Abstract!CustodyNext, Abstract!Reply
    <2>5. CASE kind = "return"
      <3>1. SetSlotAndSync(s, "return_unregistered")
        BY <2>2, <2>5
      <3>2. held' = [held EXCEPT ![s] = "in_unbooked"]
        BY <1>1, <2>1, <2>3, <3>1 DEF PlaceByStatus
      <3>3. held[s] \in {"asked_in", "asked_in_unbooked"}
        BY <1>a, <1>0, <2>2, <2>5
      <3>4. Abstract!DenyIn(s)
        BY <2>3, <3>2, <3>3 DEF Abstract!DenyIn, Abstract!Put
      <3>5. EmptyHasNone'
        BY <1>0, <2>3, <3>1 DEF CustodyInv, EmptyHasNone, SetSlotAndSync
      <3> QED BY <3>4, <3>5 DEF AbstractStep, Abstract!CustodyNext, Abstract!Reply
    <2> QED BY <2>4, <2>5
  <1> QED BY <1>3, <1>4, <1>5 DEF Answer

LEMMA PurgeStep ==
    ASSUME CustodyInv, SlotInv', ClearAll
    PROVE  AbstractStep /\ EmptyHasNone'
  <1>1. /\ ops' = <<>> /\ hasItem' = hasItem /\ qty' = qty
        /\ qty \in [Slots -> Nat] /\ hasItem \in [Slots -> BOOLEAN]
        /\ slotStatus \in [Slots -> SlotStatuses]
    BY DEF ClearAll, CustodyInv, SlotInv, LogInv, TypeOK
  <1>2. ASSUME NEW s \in Slots
        PROVE  /\ slotStatus'[s] =
                    IF slotStatus[s] = "pending_checkout" THEN "checkout_unregistered"
                    ELSE IF slotStatus[s] = "pending_return" THEN "return_unregistered"
                    ELSE slotStatus[s]
               /\ slotStatus[s] \in {"pending_checkout", "pending_return"} => hasItem[s]
    <2>1. slotStatus[s] = "pending_checkout" => hasItem[s] /\ qty[s] > 0
      BY DEF CustodyInv, SlotInv, StatusMatches, Asked, Pending, LogInv,
             PendingRowIsFresh
    <2>2. slotStatus[s] = "pending_return" => hasItem[s]
      BY DEF CustodyInv, SlotInv, StatusMatches
    <2>3. slotStatus[s] = "pending_checkout"
             => AfterDeniedTakeOut(s) = "checkout_unregistered"
      BY <2>1 DEF AfterDeniedTakeOut
    <2> QED BY <2>1, <2>2, <2>3 DEF ClearAll
  <1>3. ASSUME NEW s \in Slots
        PROVE  held'[s] = CASE held[s] = "asked_out" -> "out_unbooked"
                            [] held[s] \in {"asked_in", "asked_in_unbooked"}
                                 -> "in_unbooked"
                            [] OTHER -> held[s]
    <2>1. /\ held[s] = Where(hasItem[s], slotStatus[s], OpenUnbooked(s))
          /\ held'[s] = Where(hasItem'[s], slotStatus'[s], OpenUnbooked(s)')
      BY HeldIs, HeldIsNext DEF CustodyInv, HeldByStatus
    <2>2. hasItem'[s] = hasItem[s]
      BY <1>1
    <2>3. CASE ~hasItem[s]
      BY <2>1, <2>2, <2>3 DEF Where
    <2>4. CASE hasItem[s] /\ slotStatus[s] = "pending_checkout"
      BY <1>2, <2>1, <2>2, <2>4 DEF Where, PlaceByStatus
    <2>5. CASE hasItem[s] /\ slotStatus[s] = "pending_return"
      BY <1>2, <2>1, <2>2, <2>5 DEF Where, PlaceByStatus
    <2>6. CASE hasItem[s] /\ slotStatus[s] \notin {"pending_checkout", "pending_return"}
      BY <1>2, <2>1, <2>2, <2>6 DEF Where, PlaceByStatus
    <2> QED BY <1>1, <2>3, <2>4, <2>5, <2>6
  <1>4. held' = [s \in Slots |->
                   CASE held[s] = "asked_out" -> "out_unbooked"
                     [] held[s] \in {"asked_in", "asked_in_unbooked"} -> "in_unbooked"
                     [] OTHER -> held[s]]
    <2>1. held' = [s \in Slots |-> held'[s]]
      BY DEF held
    <2> QED BY <1>3, <2>1
  <1>5. Abstract!DropQuestions
    BY <1>1, <1>4 DEF Abstract!DropQuestions
  <1>6. EmptyHasNone'
    BY <1>1, <1>2 DEF CustodyInv, EmptyHasNone
  <1> QED BY <1>5, <1>6 DEF AbstractStep, Abstract!CustodyNext

-----------------------------------------------------------------------------

\* README (one question per movement, stock changed only by answers and manual
\* counts): the handlers of operation_service.py and
\* inventory_manage_service.py do what Custody says, for any number of slots.
\* PatchStatuses = {} says that no operator overwrites a status by hand.
THEOREM SlotsImplementCustody ==
    ASSUME PatchStatuses = {} PROVE Spec => ImplementsCustody
  <1>1. Init => Abstract!CustodyInit /\ EmptyHasNone
    <2> SUFFICES ASSUME Init PROVE Abstract!CustodyInit /\ EmptyHasNone
      OBVIOUS
    <2>1. held = [s \in Slots |-> "none"]
      BY DEF Init, held, PlaceOf
    <2> QED BY <2>1 DEF Init, Abstract!CustodyInit, EmptyHasNone
  <1>2. CustodyInv /\ SlotInv' /\ [Next]_vars => AbstractStep /\ EmptyHasNone'
    <2> SUFFICES ASSUME CustodyInv, SlotInv', [Next]_vars
                 PROVE  AbstractStep /\ EmptyHasNone'
      OBVIOUS
    <2>1. CASE UNCHANGED vars
      BY <2>1 DEF vars, AbstractStep, held, PlaceOf, OpenQuestion, OpenUnbooked, Pending,
                  CustodyInv, EmptyHasNone
    <2> QED BY <2>1, ManageStep, PresenceStep, AnswerStep, PurgeStep DEF Next
  <1>3. CustodyInv /\ SlotInv' /\ [Next]_vars
           => [Abstract!CustodyNext]_(Abstract!custodyVars) /\ CustodyInv'
    BY <1>2 DEF AbstractStep, Abstract!custodyVars, CustodyInv
  <1>4. Spec => []SlotInv
    BY SlotsCorrect
  <1> QED BY <1>1, <1>3, <1>4, PTL
          DEF Spec, CustodyInv, ImplementsCustody, Abstract!CustodySpec

-----------------------------------------------------------------------------
(* The ledger.                                                             *)

(* The rows of the log that must have their ledger row.                    *)
IsBookable(row) == row.status = "confirmed" /\ row.kind \in {"take_out", "return"}

(* Row i of the log has its ledger row.                                    *)
IsBooked(i) ==
    \E n \in DOMAIN txns :
        txns[n] = [slot |-> ops[i].slot, before |-> ops[i].before,
                   after |-> ops[i].after, ref |-> i]

-----------------------------------------------------------------------------

(* A step of the ledger is a step of the slots.                            *)
LEMMA LedgerStep == [LedgerNext]_ledgerVars => [Next]_vars
  <1> SUFFICES ASSUME [LedgerNext]_ledgerVars PROVE [Next]_vars
    OBVIOUS
  <1>1. ASSUME NEW s \in Slots, BookedRegister(s) PROVE Next
    BY <1>1 DEF BookedRegister, Next, Manage
  <1>2. ASSUME NEW i \in DOMAIN ops, BookedAnswer(i) PROVE Next
    BY <1>2 DEF BookedAnswer, Next, Answer
  <1>3. ASSUME Unbooked PROVE Next
    <2>1. ASSUME NEW s \in Slots, NEW e \in Epcs, BindTag(s, e) \/ RebindTag(s, e)
          PROVE  Next
      BY <2>1 DEF Next, Manage
    <2>2. ASSUME NEW s \in Slots, UnbindTag(s) \/ DeleteRecord(s) \/ Presence(s)
          PROVE  Next
      BY <2>2 DEF Next, Manage
    <2>3. ASSUME NEW s \in Slots, NEW q \in 0..MaxQty, EditItem(s, q) PROVE Next
      BY <2>3 DEF Next, Manage
    <2>4. ASSUME NEW s \in Slots, NEW status \in PatchStatuses,
                 NEW e \in PatchEpcs, PatchSlot(s, status, e)
          PROVE  Next
      BY <2>4 DEF Next, Manage
    <2>5. ASSUME NEW i \in DOMAIN ops, Cancel(i) PROVE Next
      BY <2>5 DEF Next, Answer
    <2>6. CASE ClearAll
      BY <2>6 DEF Next
    <2>7. QED
      BY <1>3, <2>1, <2>2, <2>3, <2>4, <2>5, <2>6 DEF Unbooked
  <1>4. CASE UNCHANGED ledgerVars
    BY <1>4 DEF ledgerVars
  <1>5. QED
    BY <1>1, <1>2, <1>3, <1>4 DEF LedgerNext

(* StockLedger adds the ledger's table and changes nothing else: it        *)
(* implements SlotOperations, with the variables of the same name.         *)
THEOREM LedgerImplementsSlots == LedgerSpec => Spec
  <1>1. LedgerInit => Init
    BY DEF LedgerInit
  <1>2. QED
    BY <1>1, LedgerStep, PTL DEF LedgerSpec, Spec

-----------------------------------------------------------------------------

(* Booking appends a well-formed row that states the stock before and      *)
(* after, and keeps the earlier rows.                                      *)
LEMMA BookEffect ==
    ASSUME LedgerTypeOK, TypeOK', NEW s \in Slots, NEW ref \in Nat, Book(s, ref)
    PROVE  /\ txns' \in Seq(TxnRows)
           /\ \A n \in DOMAIN txns : n \in DOMAIN txns' /\ txns'[n] = txns[n]
           /\ \E n \in DOMAIN txns' :
                txns'[n] = [slot |-> s, before |-> qty[s], after |-> qty'[s],
                            ref |-> ref]
  <1> DEFINE row == [slot |-> s, before |-> qty[s], after |-> qty'[s], ref |-> ref]
  <1>1. row \in TxnRows
    BY DEF LedgerTypeOK, TypeOK, TxnRows
  <1>2. txns \in Seq(TxnRows) /\ txns' = Append(txns, row)
    BY DEF LedgerTypeOK, Book
  <1> HIDE DEF row
  <1>3. /\ txns' \in Seq(TxnRows)
        /\ \A n \in DOMAIN txns : n \in DOMAIN txns' /\ txns'[n] = txns[n]
        /\ Len(txns) + 1 \in DOMAIN txns' /\ txns'[Len(txns) + 1] = row
    BY <1>1, <1>2
  <1>4. QED
    BY <1>3 DEF row

(* Booked rows stay booked, so a step keeps AnswersAreBooked if it books   *)
(* the rows it makes bookable.                                             *)
LEMMA BookedStaysBooked ==
    ASSUME AnswersAreBooked,
           \A n \in DOMAIN txns : n \in DOMAIN txns' /\ txns'[n] = txns[n],
           \A i \in DOMAIN ops' : IsBookable(ops'[i]) =>
               \/ i \in DOMAIN ops /\ ops'[i] = ops[i]
               \/ IsBooked(i)'
    PROVE  AnswersAreBooked'
  <1> SUFFICES ASSUME NEW i \in DOMAIN ops', IsBookable(ops'[i])
               PROVE  IsBooked(i)'
    BY DEF AnswersAreBooked, IsBooked, IsBookable
  <1>1. CASE i \in DOMAIN ops /\ ops'[i] = ops[i]
    <2>1. IsBooked(i)
      BY <1>1 DEF AnswersAreBooked, IsBooked, IsBookable
    <2>2. PICK n \in DOMAIN txns :
            txns[n] = [slot |-> ops[i].slot, before |-> ops[i].before,
                       after |-> ops[i].after, ref |-> i]
      BY <2>1 DEF IsBooked
    <2>3. n \in DOMAIN txns' /\ txns'[n] = txns[n]
      BY <2>2
    <2>4. QED
      BY <1>1, <2>2, <2>3 DEF IsBooked
  <1>2. QED
    BY <1>1

(* Logging a row that is not an answer makes no row bookable.              *)
LEMMA QuietLog ==
    ASSUME TypeOK, NEW kind \in OpKinds, NEW s, NEW status, NEW before,
           NEW after, NEW reconcile,
           LogOp(OpRow(kind, s, status, before, after, reconcile)),
           status = "pending" \/ kind \notin {"take_out", "return"}
    PROVE  \A i \in DOMAIN ops' : IsBookable(ops'[i]) =>
               i \in DOMAIN ops /\ ops'[i] = ops[i]
  <1> DEFINE row == OpRow(kind, s, status, before, after, reconcile)
  <1>1. ~IsBookable(row)
    BY DEF IsBookable, OpRow
  <1>2. ops \in Seq(OpRows) /\ ops' = Append(ops, row)
    BY DEF TypeOK, LogOp
  <1> HIDE DEF row
  <1>3. \A i \in DOMAIN ops' : \/ i \in DOMAIN ops /\ ops'[i] = ops[i]
                               \/ ops'[i] = row
    BY <1>2
  <1>4. QED
    BY <1>1, <1>3

(* The handlers without a ledger row make no row bookable.                 *)
LEMMA UnbookedIsQuiet ==
    ASSUME TypeOK, Unbooked
    PROVE  \A i \in DOMAIN ops' : IsBookable(ops'[i]) =>
               i \in DOMAIN ops /\ ops'[i] = ops[i]
  <1> DEFINE Quiet == \A i \in DOMAIN ops' : IsBookable(ops'[i]) =>
                          i \in DOMAIN ops /\ ops'[i] = ops[i]
  <1>0. {"take_out", "return", "tag_bind", "tag_rebind", "tag_unbind",
         "manual_edit", "delete"} \subseteq OpKinds
    BY DEF OpKinds
  <1>1. ASSUME NEW s \in Slots, NEW e \in Epcs, BindTag(s, e) \/ RebindTag(s, e)
        PROVE  Quiet
    BY <1>0, <1>1, QuietLog DEF BindTag, RebindTag, ChangeTag
  <1>2. ASSUME NEW s \in Slots, UnbindTag(s) PROVE Quiet
    BY <1>0, <1>2, QuietLog DEF UnbindTag, ChangeTag
  <1>3. ASSUME NEW s \in Slots, DeleteRecord(s) PROVE Quiet
    BY <1>0, <1>3, QuietLog DEF DeleteRecord
  <1>4. ASSUME NEW s \in Slots, NEW q \in 0..MaxQty, EditItem(s, q) PROVE Quiet
    BY <1>0, <1>4, QuietLog DEF EditItem
  <1>5. ASSUME NEW s \in Slots, NEW status \in PatchStatuses,
               NEW e \in PatchEpcs, PatchSlot(s, status, e)
        PROVE  Quiet
    BY <1>5 DEF PatchSlot
  <1>6. ASSUME NEW s \in Slots, Presence(s) PROVE Quiet
    <2>1. CASE LeaveUnregistered(s)
      BY <2>1 DEF LeaveUnregistered
    <2>2. CASE RequestTakeOut(s)
      BY <1>0, <2>2, QuietLog DEF RequestTakeOut
    <2>3. CASE RequestReturn(s)
      BY <1>0, <2>3, QuietLog DEF RequestReturn
    <2>4. QED
      BY <1>6, <2>1, <2>2, <2>3 DEF Presence
  <1>7. ASSUME NEW i \in DOMAIN ops, Cancel(i) PROVE Quiet
    <2>1. ops' = [ops EXCEPT ![i] = [@ EXCEPT !.status = "cancelled"]]
      BY <1>7 DEF Cancel
    <2>2. DOMAIN ops' = DOMAIN ops /\ \A j \in DOMAIN ops : j # i => ops'[j] = ops[j]
      BY <2>1 DEF TypeOK
    <2>3. ops'[i].status = "cancelled"
      <3>1. ops[i] \in OpRows
        BY RowType
      <3>2. ops'[i] = [ops[i] EXCEPT !.status = "cancelled"]
        BY <2>1 DEF TypeOK
      <3>3. QED
        BY <3>1, <3>2 DEF OpRows
    <2>4. QED
      BY <2>2, <2>3 DEF IsBookable
  <1>8. CASE ClearAll
    <2>1. DOMAIN ops' = {}
      BY <1>8 DEF ClearAll
    <2>2. QED
      BY <2>1
  <1>9. QED
    BY <1>1, <1>2, <1>3, <1>4, <1>5, <1>6, <1>7, <1>8 DEF Unbooked

(* An answer rewrites one row and states its new quantities in the ledger. *)
LEMMA AnswerIsBooked ==
    ASSUME LedgerTypeOK, TypeOK', NEW i \in DOMAIN ops, BookedAnswer(i)
    PROVE  \A j \in DOMAIN ops' : \/ j \in DOMAIN ops /\ ops'[j] = ops[j]
                                  \/ IsBooked(j)'
  <1> DEFINE s == ops[i].slot
  <1>1. TypeOK /\ s \in Slots /\ i \in Nat /\ ops \in Seq(OpRows)
    BY RowType DEF LedgerTypeOK, TypeOK
  <1>2. ops' = Answered(i, qty[s], qty'[s])
    <2>1. CASE ConfirmTakeOut(i)
      BY <1>1, <2>1 DEF ConfirmTakeOut, TypeOK
    <2>2. ASSUME NEW consumed \in 0..MaxConsumed, ConfirmReturn(i, consumed)
          PROVE  ops' = Answered(i, qty[s], qty'[s])
      BY <1>1, <2>2 DEF ConfirmReturn, TypeOK
    <2>3. QED
      BY <2>1, <2>2 DEF BookedAnswer
  <1>3. /\ DOMAIN ops' = DOMAIN ops
        /\ \A j \in DOMAIN ops : j # i => ops'[j] = ops[j]
        /\ ops'[i] = OpRow(ops[i].kind, s, "confirmed", qty[s], qty'[s], FALSE)
    BY <1>1, <1>2 DEF Answered
  <1>4. PICK n \in DOMAIN txns' :
          txns'[n] = [slot |-> s, before |-> qty[s], after |-> qty'[s], ref |-> i]
    BY <1>1, BookEffect DEF BookedAnswer
  <1>5. ops'[i].slot = s /\ ops'[i].before = qty[s] /\ ops'[i].after = qty'[s]
    BY <1>3 DEF OpRow
  <1>6. IsBooked(i)'
    BY <1>4, <1>5 DEF IsBooked
  <1>7. QED
    BY <1>3, <1>6

-----------------------------------------------------------------------------

(* One step keeps the ledger well-formed and the answers booked.           *)
LEMMA LedgerKeeps ==
    ASSUME LedgerTypeOK, AnswersAreBooked, TypeOK', [LedgerNext]_ledgerVars
    PROVE  LedgerTypeOK' /\ AnswersAreBooked'
  <1>0. TypeOK /\ txns \in Seq(TxnRows)
    BY DEF LedgerTypeOK
  <1>1. ASSUME NEW s \in Slots, BookedRegister(s)
        PROVE  LedgerTypeOK' /\ AnswersAreBooked'
    <2>1. \A j \in DOMAIN ops' : IsBookable(ops'[j]) =>
              j \in DOMAIN ops /\ ops'[j] = ops[j]
      <3>1. PICK e \in Epcs, q \in 0..MaxQty : Register(s, e, q)
        BY <1>1 DEF BookedRegister
      <3>2. "register_in" \in OpKinds
        BY DEF OpKinds
      <3>3. QED
        BY <1>0, <3>1, <3>2, QuietLog DEF Register
    <2>2. QED
      BY <1>1, <2>1, BookEffect, BookedStaysBooked
         DEF BookedRegister, LedgerTypeOK
  <1>2. ASSUME NEW i \in DOMAIN ops, BookedAnswer(i)
        PROVE  LedgerTypeOK' /\ AnswersAreBooked'
    <2>1. ops[i].slot \in Slots /\ i \in Nat
      BY <1>0, RowType DEF TypeOK
    <2>2. QED
      BY <1>2, <2>1, AnswerIsBooked, BookEffect, BookedStaysBooked
         DEF BookedAnswer, LedgerTypeOK
  <1>3. ASSUME Unbooked PROVE LedgerTypeOK' /\ AnswersAreBooked'
    <2>1. txns' = txns
      BY <1>3 DEF Unbooked
    <2>2. QED
      BY <1>0, <1>3, <2>1, UnbookedIsQuiet, BookedStaysBooked DEF LedgerTypeOK
  <1>4. CASE UNCHANGED ledgerVars
    BY <1>0, <1>4 DEF ledgerVars, vars, LedgerTypeOK, AnswersAreBooked
  <1>5. QED
    BY <1>1, <1>2, <1>3, <1>4 DEF LedgerNext

(* The inductive invariant of the ledger holds in every state.             *)
LEMMA LedgerCorrect == LedgerSpec => [](LedgerTypeOK /\ AnswersAreBooked)
  <1>1. LedgerInit /\ TypeOK => LedgerTypeOK /\ AnswersAreBooked
    BY DEF LedgerInit, Init, LedgerTypeOK, AnswersAreBooked
  <1>2. LedgerTypeOK /\ AnswersAreBooked /\ TypeOK' /\ [LedgerNext]_ledgerVars
          => (LedgerTypeOK /\ AnswersAreBooked)'
    BY LedgerKeeps
  <1>3. LedgerSpec => []TypeOK
    BY LedgerImplementsSlots, TypeCorrect, PTL
  <1>4. QED
    BY <1>1, <1>2, <1>3, PTL DEF LedgerSpec

(* The ledger's rows are well-formed in every reachable state.             *)
THEOREM LedgerTypeCorrect == LedgerSpec => []LedgerTypeOK
  BY LedgerCorrect, PTL

(* operation_service.py: a confirmed take-out or return has its ledger row *)
(* with the quantities of the log, whatever happens between the request    *)
(* and the answer and however often the log is cleared.                    *)
THEOREM AnswersAreBookedHolds == LedgerSpec => []AnswersAreBooked
  BY LedgerCorrect, PTL
=============================================================================
