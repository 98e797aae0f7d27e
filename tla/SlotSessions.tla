---------------------------- MODULE SlotSessions ----------------------------
(***************************************************************************)
(* The handlers of SlotOperations opened up into their database sessions.  *)
(*                                                                         *)
(* Every request and every watchdog transition runs in a session of its    *)
(* own on one event loop, with an await at each statement.  Its SELECTs    *)
(* see the last committed state, one statement at a time, outside any      *)
(* transaction; the rows stay in the session's identity map as read.  The  *)
(* first UPDATE or INSERT (the autoflush of _sync_cabinet_status at the    *)
(* latest) takes SQLite's write lock, which the session holds until its    *)
(* commit, so all writes of a handler are one step.  An UPDATE names only  *)
(* the columns whose value differs from the value read, and there is no    *)
(* version column: nothing notices that the row has changed since.         *)
(*                                                                         *)
(* Registration, tag changes, deletion and clearing the log are not opened *)
(* up here; every slot starts registered, in stock and with an empty log.  *)
(***************************************************************************)
EXTENDS SlotOperations

CONSTANTS
    Operators,      \* sessions of API requests that may run at once
    Answers,        \* the requests each sends: confirm, cancel, edit
    TagOf,          \* the tag each slot starts with
    StartQty        \* the stock each slot starts with

Watchdogs == {"tick", "gateway"}  \* _presence_tick_loop, _on_gateway_event

Sessions == Operators \cup Watchdogs

ASSUME SessionAssumption ==
    /\ Answers \in [Operators -> SUBSET {"confirm", "cancel", "edit"}]
    /\ TagOf \in [Slots -> Epcs]
    /\ StartQty \in 1..MaxQty
    /\ Operators \cap Watchdogs = {}

VARIABLE ses        \* what each session has been asked and has read so far

sesVars == <<vars, ses>>

\* id, slot, arg: the request.  todo: the SELECTs still to run.  row, status,
\* has, stock, cab, busy: what the others returned.
NoRow == [kind |-> "none", slot |-> "none", status |-> "none",
          before |-> 0, after |-> 0, reconcile |-> FALSE]

Idle == [act |-> "idle", id |-> 0, slot |-> "none", arg |-> 0, todo |-> <<>>,
         row |-> NoRow, status |-> "absent", has |-> FALSE, stock |-> 0,
         cab |-> "active", busy |-> FALSE]

Requests == [act : {"idle", "confirm", "cancel", "edit", "disappear", "appear"},
             id : 0..MaxOps, slot : Slots \cup {"none"}, arg : Nat,
             todo : Seq({"op", "slot", "item", "cab", "log"}),
             row : [kind : OpKinds \cup {"none"}, slot : Slots \cup {"none"},
                    status : {"pending", "none"}, before : Nat, after : Nat,
                    reconcile : BOOLEAN],
             status : SlotStatuses,
             has : BOOLEAN, stock : Nat, cab : BinStatuses, busy : BOOLEAN]

\* Slots and log stay well-formed however the statements of several sessions
\* interleave, and what a session has read is well-formed too.
SesTypeOK == TypeOK /\ ses \in [Sessions -> Requests]

SesInit ==
    /\ slotStatus = [s \in Slots |-> "occupied"]
    /\ slotEpc = TagOf
    /\ hasItem = [s \in Slots |-> TRUE]
    /\ qty = [s \in Slots |-> StartQty]
    /\ cabStatus = [c \in Cabinets |-> "active"]
    /\ ops = <<>>
    /\ ses = [p \in Sessions |-> Idle]

-----------------------------------------------------------------------------
(* A request arrives.                                                      *)

Open(p, request) ==
    /\ ses[p] = Idle
    /\ ses' = [ses EXCEPT ![p] = request]
    /\ UNCHANGED vars

\* POST /operations/{id}/confirm and /cancel, for an operation a client has
\* seen listed; arg is consumed_qty.
AskAnswer(p, act, i, consumed) ==
    Open(p, [Idle EXCEPT !.act = act, !.id = i, !.arg = consumed,
                         !.todo = <<"op", "slot", "item", "cab">>])

\* PATCH /inventory/items/{id}: the item and its slot first, the log last.
AskEdit(p, s, q) ==
    Open(p, [Idle EXCEPT !.act = "edit", !.slot = s, !.arg = q,
                         !.todo = <<"item", "slot", "cab", "log">>])

\* A watchdog transition for the tag bound to s: the log first.
AskPresence(p, s) ==
    Open(p, [Idle EXCEPT
               !.act = IF p = "tick" THEN "disappear" ELSE "appear", !.slot = s,
               !.todo = <<"log", "slot", "item", "cab">>])

-----------------------------------------------------------------------------
(* Its SELECTs, each on the state committed by then.                       *)

Read(p, what, read) ==
    /\ ses[p].todo # <<>> /\ Head(ses[p].todo) = what
    /\ ses' = [ses EXCEPT ![p] = [read EXCEPT !.todo = Tail(@)]]
    /\ UNCHANGED vars

\* MUTANT: an operation that is no longer pending is answered all the same.
ReadOpAnyStatus(p) ==
    LET my == ses[p] IN
    /\ my.id \in DOMAIN ops
    /\ Read(p, "op", [my EXCEPT !.row = ops[my.id], !.slot = ops[my.id].slot])

\* session.get(InventoryOperation): an answered operation ends the request.
ReadOp(p) ==
    LET my == ses[p] IN
    IF my.id \in DOMAIN ops /\ ops[my.id].status = "pending"
    THEN Read(p, "op", [my EXCEPT !.row = ops[my.id], !.slot = ops[my.id].slot])
    ELSE /\ my.todo # <<>> /\ Head(my.todo) = "op"
         /\ ses' = [ses EXCEPT ![p] = Idle]
         /\ UNCHANGED vars

ReadSlot(p) ==
    Read(p, "slot", [ses[p] EXCEPT !.status = slotStatus[ses[p].slot]])

ReadItem(p) ==
    Read(p, "item", [ses[p] EXCEPT !.has = hasItem[ses[p].slot],
                                   !.stock = qty[ses[p].slot]])

ReadCabinet(p) ==
    Read(p, "cab", [ses[p] EXCEPT !.cab = cabStatus[CabinetOf[ses[p].slot]]])

\* _has_pending_operation, _assert_no_pending_slot_ops
ReadLog(p) == Read(p, "log", [ses[p] EXCEPT !.busy = HasPending(ses[p].slot)])

-----------------------------------------------------------------------------
(* Its writes and the commit.                                              *)

Ready(p, act) == ses[p].act = act /\ ses[p].todo = <<>>

Close(p) == ses' = [ses EXCEPT ![p] = Idle]

\* A column set to `new` by a session that read `read`, now `now` in the
\* database: the UPDATE leaves it out when new = read.
Column(now, read, new) == IF new = read THEN now ELSE new

\* slot.status = new, and the cabinet recomputed: the other slots as
\* committed, the own one as in memory.
WriteSlotAndSync(my, new) ==
    LET s == my.slot
        c == CabinetOf[s]
        synced == CabinetStatus(c, [slotStatus EXCEPT ![s] = new])
    IN
    /\ slotStatus' = [slotStatus EXCEPT ![s] = Column(@, my.status, new)]
    /\ cabStatus' = [cabStatus EXCEPT ![c] = Column(@, my.cab, synced)]

\* MUTANT: the answer changes the row's status but not its quantities.
WriteAnswerForgetsRow(my, status, before, after) ==
    ops' = [ops EXCEPT ![my.id].status = status]

\* The operation's columns after an answer.
WriteAnswer(my, status, before, after) ==
    /\ my.id \in DOMAIN ops
    /\ ops' = [ops EXCEPT
           ![my.id].status = status,
           ![my.id].before = Column(@, my.row.before, before),
           ![my.id].after = Column(@, my.row.after, after),
           ![my.id].reconcile = status = "cancelled" /\ @]

CommitTakeOut(p) ==
    LET my == ses[p] IN
    /\ Ready(p, "confirm") /\ my.row.kind = "take_out"
    /\ my.has /\ my.stock > 0
    /\ qty' = [qty EXCEPT ![my.slot] = my.stock - 1]
    /\ WriteAnswer(my, "confirmed", my.stock, my.stock - 1)
    /\ WriteSlotAndSync(my, "checked_out")
    /\ Close(p)
    /\ UNCHANGED <<slotEpc, hasItem>>

CommitReturn(p) ==
    LET my == ses[p]
        after == StockAfterReturn(my.stock, my.arg, my.row.reconcile)
    IN
    /\ Ready(p, "confirm") /\ my.row.kind = "return"
    /\ my.has /\ after <= MaxQty
    /\ qty' = [qty EXCEPT ![my.slot] = Column(@, my.stock, after)]
    /\ WriteAnswer(my, "confirmed", my.stock, after)
    /\ WriteSlotAndSync(my, IF after > 0 THEN "occupied" ELSE "empty")
    /\ Close(p)
    /\ UNCHANGED <<slotEpc, hasItem>>

CommitCancel(p) ==
    LET my == ses[p] IN
    /\ Ready(p, "cancel")
    /\ WriteAnswer(my, "cancelled", my.row.before, my.row.after)
    /\ WriteSlotAndSync(my,
           IF my.row.kind = "return" THEN "return_unregistered"
           ELSE IF my.has /\ my.stock > 0 THEN "checkout_unregistered"
           ELSE "empty")
    /\ Close(p)
    /\ UNCHANGED <<slotEpc, hasItem, qty>>

\* arg = stock: another field was changed.
CommitEdit(p) ==
    LET my == ses[p] IN
    /\ Ready(p, "edit")
    /\ my.has /\ ~my.busy /\ my.status \notin AwaitingStatuses
    /\ qty' = [qty EXCEPT ![my.slot] = Column(@, my.stock, my.arg)]
    /\ slotStatus' = [slotStatus EXCEPT ![my.slot] =
           IF my.arg > 0 /\ my.arg # my.stock /\ my.status = "empty"
           THEN "occupied" ELSE @]
    /\ LogOp(OpRow("manual_edit", my.slot, "confirmed", my.stock, my.arg, FALSE))
    /\ Close(p)
    /\ UNCHANGED <<slotEpc, hasItem, cabStatus>>

\* MUTANT: the slot's status alone decides, the log is not asked.
MayAskIgnoresLog(my) == my.has

\* What _pending_slot_action requires of the log and the stock record.
MayAsk(my) == my.has /\ ~my.busy

CommitDisappear(p) ==
    LET my == ses[p] IN
    /\ Ready(p, "disappear") /\ MayAsk(my)
    /\ \/ /\ my.status = "return_unregistered"
          /\ WriteSlotAndSync(my, "checked_out")
          /\ UNCHANGED ops
       \/ /\ my.status = "occupied" /\ my.stock > 0
          /\ LogOp(OpRow("take_out", my.slot, "pending",
                         my.stock, my.stock, FALSE))
          /\ WriteSlotAndSync(my, "pending_checkout")
    /\ Close(p)
    /\ UNCHANGED <<slotEpc, hasItem, qty>>

CommitAppear(p) ==
    LET my == ses[p] IN
    /\ Ready(p, "appear") /\ MayAsk(my)
    /\ my.status \in {"checked_out", "pending_return", "checkout_unregistered"}
    /\ LogOp(OpRow("return", my.slot, "pending", my.stock, my.stock,
                   my.status = "checkout_unregistered"))
    /\ WriteSlotAndSync(my, "pending_return")
    /\ Close(p)
    /\ UNCHANGED <<slotEpc, hasItem, qty>>

\* A request that ends without a commit: refused by a check above, or given
\* up (the client is gone, the operation's row was deleted).
Refuse(p) ==
    /\ ses[p] # Idle /\ ses[p].todo = <<>>
    /\ Close(p)
    /\ UNCHANGED vars

-----------------------------------------------------------------------------

Request(p) ==
    IF p \in Watchdogs
    THEN \E s \in Slots : AskPresence(p, s)
    ELSE \/ /\ "confirm" \in Answers[p]
            /\ \E i \in DOMAIN ops, consumed \in 0..MaxConsumed :
                 AskAnswer(p, "confirm", i, consumed)
         \/ /\ "cancel" \in Answers[p]
            /\ \E i \in DOMAIN ops : AskAnswer(p, "cancel", i, 0)
         \/ /\ "edit" \in Answers[p]
            /\ \E s \in Slots, q \in 0..MaxQty : AskEdit(p, s, q)

Select(p) ==
    ReadOp(p) \/ ReadSlot(p) \/ ReadItem(p) \/ ReadCabinet(p) \/ ReadLog(p)

Commit(p) ==
    \/ CommitTakeOut(p) \/ CommitReturn(p) \/ CommitCancel(p)
    \/ CommitEdit(p) \/ CommitDisappear(p) \/ CommitAppear(p)

SesNext == \E p \in Sessions : Request(p) \/ Select(p) \/ Commit(p) \/ Refuse(p)

SesSpec == SesInit /\ [][SesNext]_sesVars

-----------------------------------------------------------------------------

\* No operator edits a stock record by hand: none is at it, none has.
NoEdits ==
    /\ \A p \in Sessions : ses[p].act # "edit"
    /\ \A i \in DOMAIN ops : ops[i].kind # "manual_edit"

\* Sessions that interleave have the effect of whole handlers run one after
\* the other: until an operator edits by hand, each commit is a step of
\* SlotOperations.
ActsAtomically == [][NoEdits => Next]_vars

\* SlotOperations with every cabinet in the status its slots call for.
Synced == INSTANCE SlotOperations
              WITH cabStatus <- [c \in Cabinets |-> CabinetStatus(c, slotStatus)]

\* The same for several slots in a cabinet, whose status a session computes
\* from the other slots and compares with the one it read: each commit is a
\* step of SlotOperations in everything but the cabinet's status.
ActsAtomicallyButCabinets == [][NoEdits => Synced!Next]_vars

\* "该操作已处理" (operation_service.py): an operation that was confirmed or
\* cancelled is never answered again.
AnsweredOnce ==
    [][\A i \in DOMAIN ops : ops[i].status # "pending" => ops'[i] = ops[i]]_vars

\* Operation i has been answered, and no request that read it as pending is
\* still under way.
Settled(i) ==
    /\ i \in DOMAIN ops /\ ops[i].status # "pending"
    /\ \A p \in Sessions :
         ses[p].act \in {"confirm", "cancel"} /\ ses[p].id = i =>
             ses[p].todo # <<>> /\ Head(ses[p].todo) = "op"

\* Whatever is asked from then on, by however many operators, the operation is
\* not answered again: a second answer can only come from a request that read
\* the operation before the first one was committed.
SettledForGood ==
    [][\A i \in 1..MaxOps : Settled(i) => Settled(i)' /\ ops'[i] = ops[i]]_sesVars
=============================================================================
