----------------------------- MODULE MCGateway ------------------------------
(* Two tags whose bytes resemble the header, bytes of four bits, for TLC.  *)
EXTENDS Gateway

HeldTags == <<[epc |-> <<11, 10>>, rssi |-> -1], [epc |-> <<10>>, rssi |-> 3]>>
NoiseBytes == {0, 10, 11}
AllFaults == FaultKinds
=============================================================================
