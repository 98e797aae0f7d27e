-------------------------- MODULE MCSlotSessions --------------------------
(* Instances of SlotSessions for TLC: one slot, one or two operators.   *)
EXTENDS SlotSessions

CONSTANTS s1, c1, e1, anna, bela

OneSlot == {s1}
OneCabinet == {c1}
InC1 == [s \in Slots |-> c1]
OneTag == {e1}
Tags == [s \in Slots |-> e1]
OneOperator == {anna}
TwoOperators == {anna, bela}
AnswersOnly == [p \in Operators |-> {"confirm", "cancel"}]
AllRequests == [p \in Operators |-> {"confirm", "cancel", "edit"}]
=============================================================================
