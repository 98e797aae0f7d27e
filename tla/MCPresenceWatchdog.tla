------------------------- MODULE MCPresenceWatchdog -------------------------
(* Two tags for TLC.                                                       *)
EXTENDS PresenceWatchdog

CONSTANTS e1, e2

TwoTags == {e1, e2}
=============================================================================
