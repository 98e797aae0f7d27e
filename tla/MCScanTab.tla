----------------------------- MODULE MCScanTab -------------------------------
(* Both forms; two assets, for TLC.                                        *)
EXTENDS ScanTab

CONSTANTS a1, a2

BothPages == {"register", "manage"}
TwoAssets == {a1, a2}
=============================================================================
