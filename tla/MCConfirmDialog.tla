-------------------------- MODULE MCConfirmDialog --------------------------
(* One browser tab, for TLC.                                               *)
EXTENDS ConfirmDialog

CONSTANTS t1

OneTab == {t1}
=============================================================================
