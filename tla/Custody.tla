------------------------------- MODULE Custody -------------------------------
(***************************************************************************)
(* What the cabinet promises about each slot, without its log, its         *)
(* statuses or its sessions: who holds the tagged container, what the      *)
(* operator still owes an answer for, and when the stock may change.       *)
(* SlotCustody shows that SlotOperations implements this specification,    *)
(* PresenceFlow composes it with the watchdog.                             *)
(***************************************************************************)
EXTENDS Integers

CONSTANTS
    Slots,
    MaxQty,         \* bound: largest stock of one slot
    MaxConsumed     \* bound: largest consumption declared on a return

VARIABLES
    place,          \* where each slot's container is held to be
    stock           \* its quantity

custodyVars == <<place, stock>>

\* "unbooked": the container left (or came back) and the operator turned the
\* question down.  "asked_in_unbooked": the return of one that left unbooked.
Away == {"asked_out", "out", "out_unbooked"}
Inside == {"in", "asked_in", "asked_in_unbooked", "in_unbooked"}
Places == Away \cup Inside \cup {"none", "used_up"}

Asked == {"asked_out", "asked_in", "asked_in_unbooked"}

\* Places in which nothing is owed: a manual change may go ahead.
Settled == {"in", "out", "used_up"}

\* Every slot's container is in one place, and no stock is negative.
CustodyTypeOK == place \in [Slots -> Places] /\ stock \in [Slots -> Nat]

CustodyInit ==
    /\ place = [s \in Slots |-> "none"]
    /\ stock = [s \in Slots |-> 0]

Put(s, where) == place' = [place EXCEPT ![s] = where]

-----------------------------------------------------------------------------

Enter(s, q) ==
    /\ place[s] = "none"
    /\ Put(s, "in")
    /\ stock' = [stock EXCEPT ![s] = q]

Remove(s) ==
    /\ place[s] \in Settled
    /\ Put(s, "none")
    /\ stock' = [stock EXCEPT ![s] = 0]

\* A manual count; a used-up slot that gets stock is in use again.
Recount(s, q) ==
    /\ place[s] \in Settled
    /\ Put(s, IF place[s] = "used_up" /\ q > 0 THEN "in" ELSE place[s])
    /\ stock' = [stock EXCEPT ![s] = q]

AskOut(s) ==
    /\ place[s] = "in" /\ stock[s] > 0
    /\ Put(s, "asked_out")
    /\ UNCHANGED stock

AskIn(s) ==
    /\ \/ place[s] = "out" /\ Put(s, "asked_in")
       \/ place[s] = "out_unbooked" /\ Put(s, "asked_in_unbooked")
    /\ UNCHANGED stock

\* The container of an unbooked return leaves again.
LeaveAgain(s) ==
    /\ place[s] = "in_unbooked"
    /\ Put(s, "out")
    /\ UNCHANGED stock

ConfirmOut(s) ==
    /\ place[s] = "asked_out"
    /\ Put(s, "out")
    /\ stock' = [stock EXCEPT ![s] = @ - 1]

\* MUTANT: turning the question down puts the container back in stock.
DenyOutRestores(s) ==
    /\ place[s] = "asked_out"
    /\ Put(s, "in")
    /\ UNCHANGED stock

DenyOut(s) ==
    /\ place[s] = "asked_out"
    /\ Put(s, "out_unbooked")
    /\ UNCHANGED stock

\* One unit comes back, unless none was booked out, less what was used.
ConfirmIn(s, consumed) ==
    LET back == IF place[s] = "asked_in" THEN 1 ELSE 0
        left == stock[s] + back - consumed
    IN
    /\ place[s] \in {"asked_in", "asked_in_unbooked"}
    /\ left <= MaxQty
    /\ Put(s, IF left > 0 THEN "in" ELSE "used_up")
    /\ stock' = [stock EXCEPT ![s] = IF left > 0 THEN left ELSE 0]

DenyIn(s) ==
    /\ place[s] \in {"asked_in", "asked_in_unbooked"}
    /\ Put(s, "in_unbooked")
    /\ UNCHANGED stock

\* All open questions are dropped at once, as if they had been turned down.
DropQuestions ==
    /\ place' = [s \in Slots |->
                   CASE place[s] = "asked_out" -> "out_unbooked"
                     [] place[s] \in {"asked_in", "asked_in_unbooked"}
                          -> "in_unbooked"
                     [] OTHER -> place[s]]
    /\ UNCHANGED stock

-----------------------------------------------------------------------------

Manual(s) ==
    \/ \E q \in 0..MaxQty : Enter(s, q) \/ Recount(s, q)
    \/ Remove(s)

Ask(s) == AskOut(s) \/ AskIn(s) \/ LeaveAgain(s)

Reply(s) ==
    \/ ConfirmOut(s) \/ DenyOut(s) \/ DenyIn(s)
    \/ \E consumed \in 0..MaxConsumed : ConfirmIn(s, consumed)

CustodyNext ==
    \/ \E s \in Slots : Manual(s) \/ Ask(s) \/ Reply(s)
    \/ DropQuestions

CustodySpec == CustodyInit /\ [][CustodyNext]_custodyVars
=============================================================================
