---------------------------- MODULE SlotCustody ----------------------------
(***************************************************************************)
(* SlotOperations implements Custody.  What a slot still owes an answer    *)
(* for is read from the log, and whether a return was ever booked out from *)
(* the mark in its row; everything else from the slot's status.            *)
(***************************************************************************)
EXTENDS SlotOperations

OpenQuestion(s, kind) ==
    \E i \in DOMAIN ops : ops[i].slot = s /\ Pending(i, kind)

OpenUnbooked(s) ==
    \E i \in DOMAIN ops :
        ops[i].slot = s /\ Pending(i, "return") /\ ops[i].reconcile

\* The place of a slot whose stock record is there and that owes no answer.
PlaceByStatus(status) ==
    CASE status = "occupied" -> "in"
      [] status = "checked_out" -> "out"
      [] status = "checkout_unregistered" -> "out_unbooked"
      [] status = "return_unregistered" -> "in_unbooked"
      [] OTHER -> "used_up"

PlaceOf(s) ==
    IF ~hasItem[s] THEN "none"
    ELSE IF OpenQuestion(s, "take_out") THEN "asked_out"
    ELSE IF OpenUnbooked(s) THEN "asked_in_unbooked"
    ELSE IF OpenQuestion(s, "return") THEN "asked_in"
    ELSE PlaceByStatus(slotStatus[s])

held == [s \in Slots |-> PlaceOf(s)]

Abstract == INSTANCE Custody WITH place <- held, stock <- qty

-----------------------------------------------------------------------------

\* README (one question per movement, stock changed by answers and manual
\* counts only): log, statuses and stock records together behave as Custody
\* says, however questions, answers, edits and clearings of the log mix.
ImplementsCustody == Abstract!CustodySpec
=============================================================================
