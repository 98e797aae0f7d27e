------------------------------- MODULE BomCsv --------------------------------
(***************************************************************************)
(* Reading a BOM from CSV text (parse_bom_csv of bom_service.py).  A file  *)
(* is the sequence of its rows that are not blank, a row the sequence of   *)
(* its cells, stripped and, in a header, normalised.  Three layouts are    *)
(* read: a section for the head and a section for the lines, one table     *)
(* that repeats the head on each line, and lines alone.                    *)
(***************************************************************************)
EXTENDS Integers, Sequences, FiniteSets

CONSTANTS
    Numerals,           \* cells that are a number
    Value               \* [Numerals -> Nat]

ASSUME NumeralsAssumption == Value \in [Numerals -> Nat]

DefaultCode == "IMPORT-BOM"
DefaultVersion == "1.0"

PartHeads == {"part_number", "part", "mpn"}
CodeHeads == {"bom_code", "code"}

\* _LINE_HEADER_ALIASES
Alias(cell) ==
    CASE cell \in PartHeads -> "part_number"
      [] cell \in {"quantity", "qty"} -> "quantity"
      [] cell \in {"optional", "is_optional"} -> "optional"
      [] OTHER -> cell

Cells(row) == {row[i] : i \in DOMAIN row}

\* _header_map: the last column of a name, 0 if there is none.
Column(head, name) ==
    LET at == {i \in DOMAIN head : Alias(head[i]) = name}
    IN IF at = {} THEN 0 ELSE CHOOSE i \in at : \A j \in at : j <= i

\* The first of the two columns that there is.
Either(column, other, default) ==
    IF column # 0 THEN column ELSE IF other # 0 THEN other ELSE default

\* A cell of a row, the default if the row is too short or the cell is empty.
CellOr(row, i, default) ==
    IF i \in DOMAIN row /\ row[i] # "" THEN row[i] ELSE default

\* _parse_bool
Truthy(cell) == cell \in {"1", "true", "yes", "y", "optional"}

\* A row that is too short to have a quantity is passed over in silence.
IsLine(row, pn, qty) == pn \in DOMAIN row /\ qty \in DOMAIN row /\ row[pn] # ""

LineOf(row, pn, qty, opt) ==
    [part |-> row[pn], qty |-> row[qty],
     optional |-> opt \in DOMAIN row /\ Truthy(row[opt])]

\* _parse_line_rows
LinesOf(rows, pn, qty, opt) ==
    LET UpTo[n \in 0..Len(rows)] ==
            IF n = 0 THEN <<>>
            ELSE IF IsLine(rows[n], pn, qty)
                 THEN Append(UpTo[n - 1], LineOf(rows[n], pn, qty, opt))
                 ELSE UpTo[n - 1]
    IN  UpTo[Len(rows)]

Refused == [ok |-> FALSE]

\* The head and the lines, if every quantity is a number, there is a line and
\* the code is not empty (that it is made of word characters is left out); an
\* empty name becomes the code.
Checked(code, name, version, lines) ==
    IF \/ lines = <<>> \/ code = ""
       \/ \E i \in DOMAIN lines : lines[i].qty \notin Numerals
    THEN Refused
    ELSE [ok |-> TRUE, code |-> code, name |-> IF name = "" THEN code ELSE name,
          version |-> version,
          lines |-> [i \in DOMAIN lines |->
                        [lines[i] EXCEPT !.qty = Value[lines[i].qty]]]]

\* Without a column of numbers or of quantities, no row has a line.
Parsed(code, name, version, head, rows) ==
    Checked(code, name, version,
            LinesOf(rows, Column(head, "part_number"), Column(head, "quantity"),
                    Column(head, "optional")))

IsFlat(head) == "part_number" \in Cells(head) /\ Cells(head) \cap CodeHeads # {}

ParseFlat(rows) ==
    LET At(name, other, default) ==
            Either(Column(rows[1], name), Column(rows[1], other), default)
    IN IF Len(rows) = 1 THEN Refused
       ELSE Parsed(rows[2][At("bom_code", "code", 1)],
                   rows[2][At("bom_name", "name", 2)],
                   CellOr(rows[2], At("version", "ver", 0), DefaultVersion),
                   rows[1], Tail(rows))

\* The row that holds the values of the head, 0 if the file has none.
HeadRow(rows) ==
    IF Len(rows) = 1 THEN 0
    ELSE IF rows[1][1] \in CodeHeads
         THEN IF rows[2][1] \in PartHeads THEN 0 ELSE 2
    ELSE IF rows[1][1] \notin PartHeads /\ rows[2][1] \in PartHeads THEN 1
    ELSE 0

\* Where the lines start, below the row of the head, 0 if nowhere.
LineHead(rows, meta) ==
    LET heads == {j \in (meta + 1)..Len(rows) :
                     "part_number" \in Cells(rows[j]) \/ rows[j][1] \in PartHeads}
    IN IF heads = {} THEN 0 ELSE CHOOSE j \in heads : \A k \in heads : j <= k

\* An empty or missing name becomes the code.
Sectioned(rows, meta, at) ==
    CASE at = 0 -> Refused
      [] at # 0 /\ meta = 0 ->
           Parsed(DefaultCode, DefaultCode, DefaultVersion,
                  rows[at], SubSeq(rows, at + 1, Len(rows)))
      [] at # 0 /\ meta # 0 ->
           Parsed(CellOr(rows[meta], 1, DefaultCode), CellOr(rows[meta], 2, ""),
                  CellOr(rows[meta], 3, DefaultVersion),
                  rows[at], SubSeq(rows, at + 1, Len(rows)))

ParseSections(rows) == Sectioned(rows, HeadRow(rows), LineHead(rows, HeadRow(rows)))

\* parse_bom_csv
Parse(rows) ==
    CASE rows = <<>> -> Refused
      [] rows # <<>> /\ IsFlat(rows[1]) -> ParseFlat(rows)
      [] rows # <<>> /\ ~IsFlat(rows[1]) -> ParseSections(rows)

-----------------------------------------------------------------------------
(* What the rows of a file say, in each layout (parse_bom_csv's docstring  *)
(* and tests): doc is a code, a name, a version and lines.                 *)

Columns(head, kind) == {i \in DOMAIN head : Alias(head[i]) = kind}

RowSays(head, row, line) ==
    /\ DOMAIN row = DOMAIN head
    /\ line.part # ""
    /\ \A i \in Columns(head, "part_number") : row[i] = line.part
    /\ \A i \in Columns(head, "quantity") : row[i] \in Numerals /\ Value[row[i]] = line.qty
    /\ line.optional = \E i \in Columns(head, "optional") : Truthy(row[i])

\* The columns may stand in any order, with others between them.
TableSays(head, body, lines) ==
    /\ \A kind \in {"part_number", "quantity", "optional"} :
          \A i, j \in Columns(head, kind) : i = j
    /\ Columns(head, "part_number") # {} /\ Columns(head, "quantity") # {}
    /\ lines # <<>> /\ Len(body) = Len(lines)
    /\ \A k \in DOMAIN lines : RowSays(head, body[k], lines[k])

StartsTable(row) == "part_number" \in Cells(row) \/ row[1] \in PartHeads

\* One row for the head, with or without a row of headings above it.
InSections(rows, doc) ==
    \E h \in {1, 2} :
        /\ Len(rows) > h + 1 /\ ~IsFlat(rows[1])
        /\ h = 1 => doc.code \notin CodeHeads /\ rows[2][1] \in PartHeads
        /\ h = 2 => rows[1][1] \in CodeHeads
        /\ doc.code \notin PartHeads
        /\ \/ rows[h] = <<doc.code, doc.name, doc.version>>
           \/ rows[h] = <<doc.code, doc.name>> /\ doc.version = DefaultVersion
        /\ StartsTable(rows[h + 1])
        /\ TableSays(rows[h + 1], SubSeq(rows, h + 2, Len(rows)), doc.lines)

InFlatTable(rows, doc) ==
    LET Heading(kinds) == {i \in DOMAIN rows[1] : rows[1][i] \in kinds}
        All(kinds, cell) == Heading(kinds) # {} /\ \A i \in Heading(kinds) : rows[2][i] = cell
    IN  /\ Len(rows) > 1 /\ IsFlat(rows[1])
        /\ All(CodeHeads, doc.code)
        /\ All({"bom_name", "name"}, doc.name)
        /\ All({"version", "ver"}, doc.version)
        /\ TableSays(rows[1], Tail(rows), doc.lines)

LinesOnly(rows, doc) ==
    /\ doc.code = DefaultCode /\ doc.name = DefaultCode /\ doc.version = DefaultVersion
    /\ ~IsFlat(rows[1]) /\ rows[1][1] \notin CodeHeads
    /\ rows[1][1] \notin PartHeads => rows[2][1] \notin PartHeads
    /\ StartsTable(rows[1])
    /\ TableSays(rows[1], SubSeq(rows, 2, Len(rows)), doc.lines)

InLayout(rows, doc) ==
    /\ "" \notin {doc.code, doc.name, doc.version}
    /\ doc.lines \in Seq([part : STRING, qty : Nat, optional : BOOLEAN])
    /\ InSections(rows, doc) \/ InFlatTable(rows, doc) \/ LinesOnly(rows, doc)
=============================================================================
