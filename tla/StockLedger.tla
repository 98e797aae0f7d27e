---------------------------- MODULE StockLedger ----------------------------
(***************************************************************************)
(* The transaction ledger (inventory_transactions) kept beside the slots:  *)
(* SlotOperations with the row that each stock handler adds to the ledger  *)
(* in the same commit.  Nothing in the program reads the table back, and   *)
(* nothing deletes from it, so it is pure history.                         *)
(***************************************************************************)
EXTENDS SlotOperations, FiniteSetsExt

CONSTANT MaxTxns        \* bound: rows of the ledger

ASSUME LedgerAssumption == MaxTxns \in Nat

VARIABLE txns           \* inventory_transactions, oldest first

ledgerVars == <<vars, txns>>

\* ref is reference_id, the operation's id; 0 for reference_type "register".
TxnRows == [slot : Slots, before : Nat, after : Nat, ref : Nat]

\* The ledger's rows are well-formed; no quantity in them is negative.
LedgerTypeOK == TypeOK /\ txns \in Seq(TxnRows)

LedgerInit == Init /\ txns = <<>>

\* MUTANT: the ledger row is written with the quantity before the update.
BookBeforeUpdate(s, ref) ==
    /\ Len(txns) < MaxTxns
    /\ txns' = Append(txns, [slot |-> s, before |-> qty[s],
                             after |-> qty[s], ref |-> ref])

\* session.add(InventoryTransaction(...)): the stock of slot s before and
\* after the handler's step; quantity_change is their difference.
Book(s, ref) ==
    /\ Len(txns) < MaxTxns
    /\ txns' = Append(txns, [slot |-> s, before |-> qty[s],
                             after |-> qty'[s], ref |-> ref])

\* A confirmed answer: stock, log row and ledger row in one commit.
BookedAnswer(i) ==
    /\ \/ ConfirmTakeOut(i)
       \/ \E consumed \in 0..MaxConsumed : ConfirmReturn(i, consumed)
    /\ Book(ops[i].slot, i)

BookedRegister(s) ==
    /\ \E e \in Epcs, q \in 0..MaxQty : Register(s, e, q)
    /\ Book(s, 0)

\* Handlers that change tags, statuses or even the quantity (manual edit,
\* deletion) without a ledger row.
Unbooked ==
    /\ \/ \E s \in Slots :
            \/ \E e \in Epcs : BindTag(s, e) \/ RebindTag(s, e)
            \/ UnbindTag(s)
            \/ DeleteRecord(s)
            \/ \E q \in 0..MaxQty : EditItem(s, q)
            \/ \E status \in PatchStatuses, e \in PatchEpcs :
                 PatchSlot(s, status, e)
            \/ Presence(s)
       \/ \E i \in DOMAIN ops : Cancel(i)
       \/ ClearAll
    /\ UNCHANGED txns

LedgerNext ==
    \/ \E s \in Slots : BookedRegister(s)
    \/ \E i \in DOMAIN ops : BookedAnswer(i)
    \/ Unbooked

LedgerSpec == LedgerInit /\ [][LedgerNext]_ledgerVars

-----------------------------------------------------------------------------

\* Every confirmed take-out or return in the log has its ledger row, with the
\* quantities the log states, even when the log was cleared and its ids were
\* handed out again.
AnswersAreBooked ==
    \A i \in DOMAIN ops :
        ops[i].status = "confirmed" /\ ops[i].kind \in {"take_out", "return"}
        => \E n \in DOMAIN txns :
             txns[n] = [slot |-> ops[i].slot, before |-> ops[i].before,
                        after |-> ops[i].after, ref |-> i]

\* Cancelling waits for the tag "so that the status does not drift from the
\* physical stock" (PROJECT_REPORT): over the life of a slot, confirmed
\* returns never book in more units than confirmed take-outs booked out.
ReturnsNeverExceedTakeOuts ==
    \A s \in Slots :
        LET moved == {n \in DOMAIN txns : txns[n].slot = s /\ txns[n].ref # 0}
        IN  MapThenSumSet(LAMBDA n : txns[n].after - txns[n].before, moved) <= 0
=============================================================================
