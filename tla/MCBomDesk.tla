----------------------------- MODULE MCBomDesk -------------------------------
(* Four files of two BOMs, one in each layout, for TLC.                    *)
EXTENDS BomDesk, TLC

CONSTANTS o1, o2, s1, s2

TwoOperators == {o1, o2}
TwoSlots == {s1, s2}
Alike == Permutations(TwoOperators) \cup Permutations(TwoSlots)

Digits == {"1", "2"}
DigitValue == [d \in Digits |-> IF d = "1" THEN 1 ELSE 2]

\* "r" and "R" are the same part number to a file, not to the catalogue.
Upper == [p \in {"r", "R", "C"} |-> IF p = "C" THEN "C" ELSE "R"]

Line(part, qty, optional) == [part |-> part, qty |-> qty, optional |-> optional]

TwoLines == <<Line("R", 1, FALSE), Line("C", 1, FALSE)>>
PartTwice == <<Line("r", 1, FALSE), Line("R", 1, FALSE)>>
OneOptional == <<Line("C", 1, TRUE), Line("r", 2, FALSE)>>
OneLine == <<Line("C", 1, FALSE)>>

FourFiles == {
    [doc |-> [code |-> "K", name |-> "kit", version |-> "1.0", lines |-> TwoLines],
     rows |-> << <<"bom_code", "bom_name", "version">>, <<"K", "kit", "1.0">>,
                 <<"part_number", "quantity">>, <<"R", "1">>, <<"C", "1">> >>],
    [doc |-> [code |-> "K", name |-> "kit", version |-> "2.0", lines |-> PartTwice],
     rows |-> << <<"bom_code", "name", "version", "part_number", "qty">>,
                 <<"K", "kit", "2.0", "r", "1">>, <<"K", "kit", "2.0", "R", "1">> >>],
    [doc |-> [code |-> "K", name |-> "set", version |-> "1.0", lines |-> OneOptional],
     rows |-> << <<"K", "set">>, <<"part", "optional", "quantity">>,
                 <<"C", "yes", "1">>, <<"r", "", "2">> >>],
    [doc |-> [code |-> "IMPORT-BOM", name |-> "IMPORT-BOM", version |-> "1.0",
              lines |-> OneLine],
     rows |-> << <<"qty", "part_number">>, <<"1", "C">> >>]}

ASSUME FilesAreInLayout == \A f \in FourFiles : InLayout(f.rows, f.doc)
=============================================================================
