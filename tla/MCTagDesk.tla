----------------------------- MODULE MCTagDesk ------------------------------
(* One slot and one cabinet, two tags, for TLC.                            *)
EXTENDS TagDesk, TLC

CONSTANTS e1, e2, o1, o2, s1, c1

OneSlot == {s1}
OneCabinet == {c1}
TwoTags == {e1, e2}
TwoOperators == {o1, o2}

Alike == Permutations(TwoTags) \cup Permutations(TwoOperators)
=============================================================================
