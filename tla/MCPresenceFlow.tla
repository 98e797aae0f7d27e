--------------------------- MODULE MCPresenceFlow ---------------------------
(* One tag with its slot and one that passes by, for TLC.                  *)
EXTENDS PresenceFlow

CONSTANTS e1, x1

OneTag == {e1}
Passing == {x1}
AllFaults == FaultKinds
=============================================================================
