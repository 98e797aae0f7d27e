-------------------------- MODULE MCSlotOperations --------------------------
(* One cabinet with two slots, for TLC.                                    *)
EXTENDS SlotCustody, TLC

CONSTANTS s1, s2, c1, e1, e2

TwoSlots == {s1, s2}
OneCabinet == {c1}
InC1 == [s \in Slots |-> c1]
TwoTags == {e1, e2}
NoPatch == {}
SlotsAndTagsAlike == Permutations(Slots) \cup Permutations(Epcs)
=============================================================================
