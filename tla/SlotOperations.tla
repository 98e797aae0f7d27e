--------------------------- MODULE SlotOperations ---------------------------
(***************************************************************************)
(* Slot materials of the smart cabinet: the slots of the bin cabinets,     *)
(* their stock records and the operation log (inventory_operations).       *)
(* Every service handler that writes them is one atomic action here.       *)
(* StockLedger adds the write-only table of transactions those actions     *)
(* also fill, SlotSessions opens them up into their database sessions.     *)
(*                                                                         *)
(* A request the service refuses (ValueError, HTTP 4xx) changes nothing    *)
(* and is no step of this specification.                                   *)
(***************************************************************************)
EXTENDS Integers, Sequences

CONSTANTS
    Slots,          \* positions of the cabinets, used or not
    Cabinets,
    CabinetOf,      \* [Slots -> Cabinets]
    Epcs,           \* RFID tag codes, normalised (strip + upper)
    NoEpc,          \* rfid_tag_epc is NULL
    ForeignEpcs,    \* tags that belong to assets or cabinets
    PatchStatuses,  \* statuses an operator may write with PATCH /slots
    PatchEpcs,      \* tags (or NoEpc) an operator may write the same way
    MaxQty,         \* bound: largest stock of one slot
    MaxConsumed,    \* bound: largest consumption declared on a return
    MaxOps          \* bound: rows of the operation log

SlotStatuses == {"absent", "empty", "occupied", "checked_out",
                 "pending_checkout", "pending_return",
                 "checkout_unregistered", "return_unregistered", "disabled"}

BinStatuses == {"active", "checked_out", "checkout_unregistered",
                "return_unregistered", "empty"}

\* Statuses that wait for an operator or for the tag; they freeze the record.
AwaitingStatuses == {"pending_checkout", "pending_return",
                     "checkout_unregistered", "return_unregistered"}

OpKinds == {"take_out", "return", "register_in", "tag_bind", "tag_rebind",
            "tag_unbind", "manual_edit", "delete"}

OpStatuses == {"pending", "confirmed", "cancelled"}

\* A row of the log.  quantity_change is always after - before;
\* `reconcile` is the "from_checkout_unregistered" mark inside the note.
OpRows == [kind : OpKinds, slot : Slots, status : OpStatuses,
           before : Nat, after : Nat, reconcile : BOOLEAN]

ASSUME BoundsAssumption ==
    MaxQty \in Nat /\ MaxConsumed \in Nat /\ MaxOps \in Nat

ASSUME CabinetAssumption == CabinetOf \in [Slots -> Cabinets]

ASSUME EpcAssumption ==
    NoEpc \notin Epcs /\ ForeignEpcs \subseteq Epcs

ASSUME PatchAssumption ==
    /\ PatchStatuses \subseteq {"empty", "occupied", "disabled"}
    /\ PatchEpcs \subseteq Epcs \cup {NoEpc}

VARIABLES
    slotStatus,     \* bin_slots.status ("absent": the row is not created yet)
    slotEpc,        \* bin_slots.rfid_tag_epc
    hasItem,        \* the slot has an inventory_items row
    qty,            \* its quantity (0 without a row)
    cabStatus,      \* bin_cabinets.status
    ops             \* inventory_operations; the row id is the index

vars == <<slotStatus, slotEpc, hasItem, qty, cabStatus, ops>>

\* Slots, stock records, cabinets and the log are well-formed; no stock and no
\* quantity in the log is negative.
TypeOK ==
    /\ slotStatus \in [Slots -> SlotStatuses]
    /\ slotEpc \in [Slots -> Epcs \cup {NoEpc}]
    /\ hasItem \in [Slots -> BOOLEAN]
    /\ qty \in [Slots -> Nat]
    /\ cabStatus \in [Cabinets -> BinStatuses]
    /\ ops \in Seq(OpRows)

Init ==
    /\ slotStatus = [s \in Slots |-> "absent"]
    /\ slotEpc = [s \in Slots |-> NoEpc]
    /\ hasItem = [s \in Slots |-> FALSE]
    /\ qty = [s \in Slots |-> 0]
    /\ cabStatus = [c \in Cabinets |-> "active"]
    /\ ops = <<>>

-----------------------------------------------------------------------------
(* Helpers shared by the handlers.                                         *)

\* The status _sync_cabinet_status writes, from the statuses of the slots.
CabinetStatus(c, st) ==
    LET seen == {st[s] : s \in {t \in Slots : CabinetOf[t] = c}} \ {"absent"}
    IN  IF seen = {} THEN "active"
        ELSE IF seen \cap {"pending_checkout", "checkout_unregistered"} # {}
             THEN "checkout_unregistered"
        ELSE IF seen \cap {"pending_return", "return_unregistered"} # {}
             THEN "return_unregistered"
        ELSE IF "checked_out" \in seen THEN "checked_out"
        ELSE IF seen = {"empty"} THEN "empty" ELSE "active"

\* MUTANT: the cabinet is synchronised before the slot is changed.
SyncBeforeSet(s, new) ==
    /\ slotStatus' = [slotStatus EXCEPT ![s] = new]
    /\ cabStatus' = [cabStatus EXCEPT
           ![CabinetOf[s]] = CabinetStatus(CabinetOf[s], slotStatus)]

\* slot.status = new, followed by _sync_cabinet_status(slot.cabinet_id).
SetSlotAndSync(s, new) ==
    /\ slotStatus' = [slotStatus EXCEPT ![s] = new]
    /\ cabStatus' = [cabStatus EXCEPT
           ![CabinetOf[s]] = CabinetStatus(CabinetOf[s], slotStatus')]

OpRow(kind, s, status, before, after, reconcile) ==
    [kind |-> kind, slot |-> s, status |-> status,
     before |-> before, after |-> after, reconcile |-> reconcile]

\* _create_inventory_operation: the new row's id is the next index.  SQLite
\* hands out max(rowid)+1, so ids start again at 1 once the log is cleared.
LogOp(row) == Len(ops) < MaxOps /\ ops' = Append(ops, row)

HasPending(s) ==
    \E i \in DOMAIN ops : ops[i].slot = s /\ ops[i].status = "pending"

\* check_epc_available(epc, exclude_slot_id = s)
EpcAvailable(e, s) ==
    /\ e \notin ForeignEpcs
    /\ \A t \in Slots \ {s} : slotEpc[t] # e

\* MUTANT: only the pending_* statuses freeze the record, the log is not asked.
ManageableIgnoresLog(s) ==
    hasItem[s] /\ slotStatus[s] \notin {"pending_checkout", "pending_return"}

\* _get_slot_material_row, _assert_no_pending_slot_ops and
\* _assert_slot_not_pending_status: what every manual change starts with.
Manageable(s) ==
    /\ hasItem[s]
    /\ ~HasPending(s)
    /\ slotStatus[s] \notin AwaitingStatuses

-----------------------------------------------------------------------------
(* Registration and manual management.                                     *)

\* register_inventory_entry: create or reuse the slot, bind the tag, book the
\* first stock.  The slot is "occupied" whatever the quantity, and the
\* cabinet's status is not recomputed.
Register(s, e, q) ==
    /\ EpcAvailable(e, s)
    /\ slotEpc[s] \in {NoEpc, e}
    /\ ~hasItem[s]
    /\ slotStatus' = [slotStatus EXCEPT ![s] = "occupied"]
    /\ slotEpc' = [slotEpc EXCEPT ![s] = e]
    /\ hasItem' = [hasItem EXCEPT ![s] = TRUE]
    /\ qty' = [qty EXCEPT ![s] = q]
    /\ LogOp(OpRow("register_in", s, "confirmed", 0, q, FALSE))
    /\ UNCHANGED cabStatus

\* A tag change keeps the stock and logs a row with the quantity unchanged.
ChangeTag(kind, s, e) ==
    /\ slotEpc' = [slotEpc EXCEPT ![s] = e]
    /\ LogOp(OpRow(kind, s, "confirmed", qty[s], qty[s], FALSE))
    /\ UNCHANGED <<slotStatus, hasItem, qty, cabStatus>>

BindTag(s, e) ==
    /\ Manageable(s)
    /\ slotEpc[s] = NoEpc
    /\ EpcAvailable(e, s)
    /\ ChangeTag("tag_bind", s, e)

RebindTag(s, e) ==
    /\ Manageable(s)
    /\ slotEpc[s] \notin {NoEpc, e}
    /\ EpcAvailable(e, s)
    /\ ChangeTag("tag_rebind", s, e)

UnbindTag(s) ==
    /\ Manageable(s)
    /\ slotEpc[s] # NoEpc
    /\ ChangeTag("tag_unbind", s, NoEpc)

\* delete_inventory_record: drops the stock record, clears tag and status.
DeleteRecord(s) ==
    /\ Manageable(s)
    /\ LogOp(OpRow("delete", s, "confirmed", qty[s], 0, FALSE))
    /\ hasItem' = [hasItem EXCEPT ![s] = FALSE]
    /\ qty' = [qty EXCEPT ![s] = 0]
    /\ slotEpc' = [slotEpc EXCEPT ![s] = NoEpc]
    /\ SetSlotAndSync(s, "empty")

\* update_inventory_item: q may equal the present quantity when another field
\* changes.  Neither the cabinet's status nor the ledger is touched.
EditItem(s, q) ==
    /\ Manageable(s)
    /\ qty' = [qty EXCEPT ![s] = q]
    /\ slotStatus' =
           IF q > 0 /\ q # qty[s] /\ slotStatus[s] = "empty"
           THEN [slotStatus EXCEPT ![s] = "occupied"] ELSE slotStatus
    /\ LogOp(OpRow("manual_edit", s, "confirmed", qty[s], q, FALSE))
    /\ UNCHANGED <<slotEpc, hasItem, cabStatus>>

\* update_slot (PATCH): writes status and tag as given; the only check is the
\* unique index on bin_slots.rfid_tag_epc.
PatchSlot(s, status, e) ==
    /\ slotStatus[s] # "absent"
    /\ e # NoEpc => \A t \in Slots \ {s} : slotEpc[t] # e
    /\ slotStatus' = [slotStatus EXCEPT ![s] = status]
    /\ slotEpc' = [slotEpc EXCEPT ![s] = e]
    /\ UNCHANGED <<hasItem, qty, cabStatus, ops>>

-----------------------------------------------------------------------------
(* Presence transitions: create_presence_pending_action for the tag bound  *)
(* to slot s.                                                              *)

\* MUTANT: a slot that already waits for an answer is asked about again.
PresenceAppliesAlways(s) == slotEpc[s] # NoEpc /\ hasItem[s]

PresenceApplies(s) == slotEpc[s] # NoEpc /\ ~HasPending(s) /\ hasItem[s]

\* "disappear" of a tag whose return was never booked: back to checked_out.
LeaveUnregistered(s) ==
    /\ PresenceApplies(s)
    /\ slotStatus[s] = "return_unregistered"
    /\ SetSlotAndSync(s, "checked_out")
    /\ UNCHANGED <<slotEpc, hasItem, qty, ops>>

\* "disappear" of a tag in stock: ask the operator to confirm a take-out.
RequestTakeOut(s) ==
    /\ PresenceApplies(s)
    /\ slotStatus[s] = "occupied" /\ qty[s] > 0
    /\ LogOp(OpRow("take_out", s, "pending", qty[s], qty[s], FALSE))
    /\ SetSlotAndSync(s, "pending_checkout")
    /\ UNCHANGED <<slotEpc, hasItem, qty>>

\* "appear" of a tag that is out: ask the operator to confirm a return.
RequestReturn(s) ==
    /\ PresenceApplies(s)
    /\ slotStatus[s] \in {"checked_out", "pending_return",
                          "checkout_unregistered"}
    /\ LogOp(OpRow("return", s, "pending", qty[s], qty[s],
                   slotStatus[s] = "checkout_unregistered"))
    /\ SetSlotAndSync(s, "pending_return")
    /\ UNCHANGED <<slotEpc, hasItem, qty>>

-----------------------------------------------------------------------------
(* The operator's answer.                                                  *)

Pending(i, kind) ==
    i \in DOMAIN ops /\ ops[i].status = "pending" /\ ops[i].kind = kind

\* The row of operation i once answered: quantities overwritten, note replaced.
Answered(i, before, after) ==
    [ops EXCEPT ![i] = OpRow(@.kind, @.slot, "confirmed", before, after, FALSE)]

\* MUTANT: the log row keeps the quantities of the request.
ConfirmTakeOutKeepsRow(i) ==
    LET s == ops[i].slot IN
    /\ Pending(i, "take_out")
    /\ hasItem[s] /\ qty[s] > 0
    /\ qty' = [qty EXCEPT ![s] = @ - 1]
    /\ ops' = [ops EXCEPT ![i].status = "confirmed"]
    /\ SetSlotAndSync(s, "checked_out")
    /\ UNCHANGED <<slotEpc, hasItem>>

\* confirm_inventory_operation with take_out data.
ConfirmTakeOut(i) ==
    LET s == ops[i].slot IN
    /\ Pending(i, "take_out")
    /\ hasItem[s] /\ qty[s] > 0
    /\ qty' = [qty EXCEPT ![s] = @ - 1]
    /\ ops' = Answered(i, qty[s], qty[s] - 1)
    /\ SetSlotAndSync(s, "checked_out")
    /\ UNCHANGED <<slotEpc, hasItem>>

\* MUTANT: the result is not clamped at zero.
StockAfterReturnUnclamped(before, consumed, reconcile) ==
    before + (IF reconcile THEN 0 ELSE 1) - consumed

\* MUTANT: the mark of the unbooked take-out is not looked at.
StockAfterReturnForgetsMark(before, consumed, reconcile) ==
    IF before + 1 - consumed < 0 THEN 0 ELSE before + 1 - consumed

\* Stock after a return that used up `consumed` units.  A take-out that was
\* never booked (reconcile) must not be booked back in; never below zero.
StockAfterReturn(before, consumed, reconcile) ==
    LET after == before + (IF reconcile THEN 0 ELSE 1) - consumed
    IN  IF after < 0 THEN 0 ELSE after

\* confirm_inventory_operation with return_info data.
ConfirmReturn(i, consumed) ==
    LET s == ops[i].slot
        after == StockAfterReturn(qty[s], consumed, ops[i].reconcile)
    IN
    /\ Pending(i, "return")
    /\ hasItem[s]
    /\ after <= MaxQty
    /\ qty' = [qty EXCEPT ![s] = after]
    /\ ops' = Answered(i, qty[s], after)
    /\ SetSlotAndSync(s, IF after > 0 THEN "occupied" ELSE "empty")
    /\ UNCHANGED <<slotEpc, hasItem>>

\* Where a slot goes whose take-out request was turned down: the stock is
\* untouched but the tag is away.
AfterDeniedTakeOut(s) ==
    IF hasItem[s] /\ qty[s] > 0 THEN "checkout_unregistered" ELSE "empty"

\* MUTANT: cancelling a take-out puts the slot straight back in stock.
CancelRestoresSlot(i) ==
    LET s == ops[i].slot IN
    /\ \E kind \in {"take_out", "return"} :
         /\ Pending(i, kind)
         /\ SetSlotAndSync(s, IF kind = "take_out" THEN "occupied"
                              ELSE "return_unregistered")
    /\ ops' = [ops EXCEPT ![i] = [@ EXCEPT !.status = "cancelled"]]
    /\ UNCHANGED <<slotEpc, hasItem, qty>>

\* cancel_inventory_operation.
Cancel(i) ==
    LET s == ops[i].slot IN
    /\ \E kind \in {"take_out", "return"} :
         /\ Pending(i, kind)
         /\ SetSlotAndSync(s, IF kind = "take_out" THEN AfterDeniedTakeOut(s)
                              ELSE "return_unregistered")
    /\ ops' = [ops EXCEPT ![i] = [@ EXCEPT !.status = "cancelled"]]
    /\ UNCHANGED <<slotEpc, hasItem, qty>>

\* MUTANT: the log is emptied without looking at the slots.
ClearAllKeepsSlots ==
    /\ ops' = <<>>
    /\ UNCHANGED <<slotStatus, slotEpc, hasItem, qty, cabStatus>>

\* clear_all_inventory_operations: pending slots become unregistered ones,
\* their cabinets are synchronised and the log is emptied.
ClearAll ==
    LET reset == {s \in Slots :
                    slotStatus[s] \in {"pending_checkout", "pending_return"}}
        after == [s \in Slots |->
                    IF s \notin reset THEN slotStatus[s]
                    ELSE IF slotStatus[s] = "pending_checkout"
                         THEN AfterDeniedTakeOut(s)
                    ELSE "return_unregistered"]
    IN
    /\ slotStatus' = after
    /\ cabStatus' = [c \in Cabinets |->
                       IF \E s \in reset : CabinetOf[s] = c
                       THEN CabinetStatus(c, after) ELSE cabStatus[c]]
    /\ ops' = <<>>
    /\ UNCHANGED <<slotEpc, hasItem, qty>>

-----------------------------------------------------------------------------

Manage(s) ==
    \/ \E e \in Epcs, q \in 0..MaxQty : Register(s, e, q)
    \/ \E e \in Epcs : BindTag(s, e)
    \/ \E e \in Epcs : RebindTag(s, e)
    \/ UnbindTag(s)
    \/ DeleteRecord(s)
    \/ \E q \in 0..MaxQty : EditItem(s, q)
    \/ \E status \in PatchStatuses, e \in PatchEpcs : PatchSlot(s, status, e)

Presence(s) == LeaveUnregistered(s) \/ RequestTakeOut(s) \/ RequestReturn(s)

Answer(i) ==
    \/ ConfirmTakeOut(i)
    \/ \E consumed \in 0..MaxConsumed : ConfirmReturn(i, consumed)
    \/ Cancel(i)

Next ==
    \/ \E s \in Slots : Manage(s) \/ Presence(s)
    \/ \E i \in DOMAIN ops : Answer(i)
    \/ ClearAll

Spec == Init /\ [][Next]_vars

-----------------------------------------------------------------------------
(* Properties.                                                             *)

\* A slot never has two questions open at once: _has_pending_operation keeps
\* a second watchdog transition from queueing behind the first.
OnePendingPerSlot ==
    \A i, j \in DOMAIN ops :
        /\ ops[i].slot = ops[j].slot
        /\ ops[i].status = "pending" /\ ops[j].status = "pending"
        => i = j

\* No later row of the log is about the slot of row i.
LastOfSlot(i) ==
    \A j \in DOMAIN ops : j > i => ops[j].slot # ops[i].slot

\* Row j is the next one after row i about the same slot.
Follows(i, j) ==
    /\ i < j /\ ops[j].slot = ops[i].slot
    /\ \A k \in DOMAIN ops : i < k /\ k < j => ops[k].slot # ops[i].slot

\* The log is an audit trail: the rows of a slot chain up (each starts from
\* the stock the previous one left) and the last one states the present
\* stock, although rows are answered long after they are written.
AuditTrail ==
    /\ \A i \in DOMAIN ops : LastOfSlot(i) => ops[i].after = qty[ops[i].slot]
    /\ \A i, j \in DOMAIN ops : Follows(i, j) => ops[i].after = ops[j].before

\* Every open question can be answered: the stock record is still there, and a
\* take-out never fails with "no stock" however late the operator confirms.
PendingIsAnswerable ==
    \A i \in DOMAIN ops : ops[i].status = "pending" =>
        /\ hasItem[ops[i].slot]
        /\ ops[i].kind = "take_out" => qty[ops[i].slot] > 0

\* A slot shows pending_checkout (pending_return) exactly while a take-out
\* (a return) of it waits for an answer: no slot is left waiting for a
\* question that is gone, none is asked about while it shows something else.
PendingMatchesSlot ==
    \A s \in Slots :
        /\ slotStatus[s] = "pending_checkout"
             <=> \E i \in DOMAIN ops : ops[i].slot = s /\ Pending(i, "take_out")
        /\ slotStatus[s] = "pending_return"
             <=> \E i \in DOMAIN ops : ops[i].slot = s /\ Pending(i, "return")

\* The cabinet's alert follows its slots although only some handlers call
\* _sync_cabinet_status: only "active" and "empty" may be confused.
CabinetAlertIsCurrent ==
    \A c \in Cabinets :
        \/ cabStatus[c] = CabinetStatus(c, slotStatus)
        \/ {cabStatus[c], CabinetStatus(c, slotStatus)} \subseteq
               {"active", "empty"}

\* README: a cancelled question never puts the slot back in stock by itself;
\* from any status of a tag that is away or unregistered, only a confirmed
\* return makes the slot "occupied" again.
BackInStockOnlyByReturn ==
    [][\A s \in Slots :
         /\ slotStatus[s] \in AwaitingStatuses \cup {"checked_out"}
         /\ slotStatus'[s] = "occupied"
         => \E i \in DOMAIN ops : /\ ops[i].slot = s /\ Pending(i, "return")
                                  /\ ops'[i].status = "confirmed"]_vars
=============================================================================
