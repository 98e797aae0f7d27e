--------------------------- MODULE MCStockLedger ---------------------------
(* One slot with its ledger, for TLC.                                      *)
EXTENDS StockLedger

CONSTANTS s1, c1, e1

OneSlot == {s1}
OneCabinet == {c1}
InC1 == [s \in {s1} |-> c1]
OneTag == {e1}
EditorEpcs == {e1, NoEpc}
EditorStatuses == {"empty", "occupied"}
=============================================================================
