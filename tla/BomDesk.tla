------------------------------- MODULE BomDesk -------------------------------
(***************************************************************************)
(* Bills of materials (bom_service.py, api/v1/boms.py): a CSV file is      *)
(* imported, and a saved BOM is compared with the stock.  Parts are known  *)
(* by the number of their catalogue entry; a file names them by a part     *)
(* number, in which upper and lower case are the same, although the        *)
(* catalogue tells them apart.                                             *)
(*                                                                         *)
(* An import reads the catalogue and the BOM of its code, and writes the   *)
(* BOM and its lines in one transaction; other requests may come between.  *)
(***************************************************************************)
EXTENDS BomCsv, Functions

CONSTANTS
    Operators, Slots,
    Files,              \* [rows, doc]: a file and what its author wrote
    Key,                \* upper case of every part number
    NoBom, NoImport,
    MaxParts,           \* bound: entries of the catalogue
    MaxQty, MaxKits     \* bounds: stock of a slot, kits asked for

ParsedOf == [f \in Files |-> Parse(f.rows)]

ASSUME BomAssumption ==
    /\ IsFiniteSet(Slots)
    /\ \A f \in Files : f.rows \in Seq(Seq(STRING)) /\ ParsedOf[f].ok
    /\ MaxParts \in Nat /\ MaxQty \in Nat /\ MaxKits \in Nat

VARIABLES
    catalogue,          \* parts, by id: their part numbers
    stock,              \* what a slot holds
    boms,               \* the saved BOMs, by code, with their lines
    import,             \* what each operator's import has read
    stale               \* history: BOMs written over a head that had changed
                        \* since the import read it

bomVars == <<catalogue, stock, boms, import, stale>>

PartIds == DOMAIN catalogue
Codes == {ParsedOf[f].code : f \in Files}
MixedHeads == [name : {ParsedOf[f].name : f \in Files},
               version : {ParsedOf[f].version : f \in Files}]
BomLines(parts) == Seq([part : parts, qty : Nat, optional : BOOLEAN])
SavedBoms(parts) == [head : MixedHeads, lines : BomLines(parts)]
ReadFiles(parts) ==
    [file : Files, found : MixedHeads \cup {NoBom}, lines : BomLines(parts)]

\* "There is none" is told from everything there can be.
ASSUME NoneAssumption ==
    /\ NoBom \notin MixedHeads \cup SavedBoms(Nat)
    /\ NoImport \notin ReadFiles(Nat)

\* No part number is in the catalogue twice, and every line of a BOM that is
\* saved or about to be is about a part of the catalogue.
BomTypeOK ==
    /\ catalogue \in Seq(DOMAIN Key)
    /\ \A i, j \in PartIds : catalogue[i] = catalogue[j] => i = j
    /\ stock \in [Slots -> [part : PartIds \cup {0}, qty : 0..MaxQty]]
    /\ boms \in [Codes -> SavedBoms(PartIds) \cup {NoBom}]
    /\ import \in [Operators -> ReadFiles(PartIds) \cup {NoImport}]
    /\ stale \subseteq Codes

BomInit ==
    /\ catalogue = <<>>
    /\ stock = [s \in Slots |-> [part |-> 0, qty |-> 0]]
    /\ boms = [c \in Codes |-> NoBom]
    /\ import = [o \in Operators |-> NoImport]
    /\ stale = {}

-----------------------------------------------------------------------------
(* Reading.                                                                *)

\* _parts_by_number: the last entry of the catalogue with that number, 0 if
\* there is none.
PartOf(number) ==
    LET ids == {i \in PartIds : Key[catalogue[i]] = Key[number]}
    IN IF ids = {} THEN 0 ELSE CHOOSE i \in ids : \A j \in ids : j <= i

\* The slots of a part that are listed and lit on the shelf.
SlotsWith(id) == {s \in Slots : stock[s].part = id /\ stock[s].qty > 0}

\* What list_inventory_items finds of a part; reserved_qty stays 0.
Available(id) == SumFunctionOnSet([s \in Slots |-> stock[s].qty], SlotsWith(id))

\* MUTANT: a part that just suffices is said to be short.
LineStatusStrict(required, available, hasPart, optional) ==
    CASE ~hasPart -> "missing_part"
      [] hasPart /\ optional /\ available <= 0 -> "optional_skip"
      [] hasPart /\ ~(optional /\ available <= 0) ->
           IF available > required THEN "ok"
           ELSE IF available > 0 THEN "partial" ELSE "shortage"

\* _line_status
LineStatus(required, available, hasPart, optional) ==
    CASE ~hasPart -> "missing_part"
      [] hasPart /\ optional /\ available <= 0 -> "optional_skip"
      [] hasPart /\ ~(optional /\ available <= 0) ->
           IF available >= required THEN "ok"
           ELSE IF available > 0 THEN "partial" ELSE "shortage"

\* analyze_parsed_bom: the verdict on each of the lines <<number, qty, optional>>
\* for a number of kits; every line has the whole stock to itself.
Analysis(lines, kits) ==
    [i \in DOMAIN lines |->
       LET id == PartOf(lines[i].part)
           available == IF id = 0 THEN 0 ELSE Available(id)
           required == lines[i].qty * kits
       IN [status |-> LineStatus(required, available, id # 0, lines[i].optional),
           shortage |-> IF required > available THEN required - available ELSE 0,
           slots |-> IF id = 0 THEN {} ELSE SlotsWith(id)]]

\* analyze_bom_by_id goes back from the part to its number.
AnalysisOf(code, kits) ==
    Analysis([i \in DOMAIN boms[code].lines |->
                [boms[code].lines[i] EXCEPT !.part = catalogue[boms[code].lines[i].part]]],
             kits)

-----------------------------------------------------------------------------
(* Actions.                                                                *)

\* create_component: numbers that differ in case are two entries.
CreatePart(number) ==
    /\ Len(catalogue) < MaxParts
    /\ \A i \in PartIds : catalogue[i] # number
    /\ catalogue' = Append(catalogue, number)
    /\ UNCHANGED <<stock, boms, import, stale>>

\* The stock of a slot moves (SlotOperations has how); part 0 is no record.
StockMoves(s, id, n) ==
    /\ stock[s] # [part |-> id, qty |-> n]
    /\ stock' = [stock EXCEPT ![s] = [part |-> id, qty |-> n]]
    /\ UNCHANGED <<catalogue, boms, import, stale>>

\* MUTANT: only the first line's part is looked up.
AllKnownLooksAtFirst(lines) == PartOf(lines[1].part) # 0

AllKnown(lines) == \A i \in DOMAIN lines : PartOf(lines[i].part) # 0

\* import_bom_csv up to its writes: a file with an unknown part is refused.
ReadImport(o, f) ==
    LET p == ParsedOf[f]
    IN /\ import[o] = NoImport
       /\ AllKnown(p.lines)
       /\ import' = [import EXCEPT ![o] =
            [file |-> f,
             found |-> IF boms[p.code] = NoBom THEN NoBom ELSE boms[p.code].head,
             lines |-> [i \in DOMAIN p.lines |->
                          [p.lines[i] EXCEPT !.part = PartOf(p.lines[i].part)]]]]
       /\ UNCHANGED <<catalogue, stock, boms, stale>>

\* MUTANT: the lines of the last import stay below the new ones.
LinesAfterKeepsOld(o, code) ==
    (IF boms[code] = NoBom THEN <<>> ELSE boms[code].lines) \o import[o].lines

\* The old lines are deleted in the same transaction.
LinesAfter(o, code) == import[o].lines

\* The UPDATE sets the columns whose value is not the one that was read.
Update(row, read, new) == IF new = read THEN row ELSE new

\* The head after the write: a new BOM's, or the columns that differ.
HeadAfter(found, now, new) ==
    IF found = NoBom THEN new
    ELSE [name |-> Update(now.head.name, found.name, new.name),
          version |-> Update(now.head.version, found.version, new.version)]

\* The writes.  Of two imports that both found no BOM, the later one runs into
\* the unique code and fails.
WriteBom(o, code, name, version) ==
    LET found == import[o].found
        now == boms[code]
    IN IF found = NoBom /\ now # NoBom THEN UNCHANGED <<boms, stale>>
       ELSE /\ boms' = [boms EXCEPT ![code] =
                 [head |-> HeadAfter(found, now, [name |-> name, version |-> version]),
                  lines |-> LinesAfter(o, code)]]
            /\ stale' = IF found = NoBom \/ found = now.head THEN stale \ {code}
                        ELSE stale \cup {code}

WriteImport(o) ==
    LET p == ParsedOf[import[o].file]
    IN /\ import[o] # NoImport
       /\ import' = [import EXCEPT ![o] = NoImport]
       /\ WriteBom(o, p.code, p.name, p.version)
       /\ UNCHANGED <<catalogue, stock>>

BomNext ==
    \/ \E number \in DOMAIN Key : CreatePart(number)
    \/ \E s \in Slots : StockMoves(s, 0, 0)
    \/ \E s \in Slots, id \in PartIds, n \in 1..MaxQty : StockMoves(s, id, n)
    \/ \E o \in Operators :
          (\E f \in Files : ReadImport(o, f)) \/ WriteImport(o)

BomSpec == BomInit /\ [][BomNext]_bomVars

-----------------------------------------------------------------------------
(* Properties.                                                             *)

Says(code, f) ==
    /\ f.doc.code = code
    /\ Len(f.doc.lines) = Len(boms[code].lines)
    /\ \A i \in DOMAIN f.doc.lines :
         /\ Key[catalogue[boms[code].lines[i].part]] = Key[f.doc.lines[i].part]
         /\ boms[code].lines[i].qty = f.doc.lines[i].qty
         /\ boms[code].lines[i].optional = f.doc.lines[i].optional

\* A saved BOM has the lines of one file, as its author wrote them, whatever
\* the layout of the file and whichever imports ran side by side; its name and
\* version are those of the same file, unless they had been changed between
\* the import's reading and its writing (bom_service.py:323: only columns that
\* differ from what was read are written).
SavedAsWritten ==
    \A c \in Codes : boms[c] # NoBom =>
        \E f \in Files :
            /\ Says(c, f)
            /\ c \in stale \/ boms[c].head = [name |-> f.doc.name, version |-> f.doc.version]

\* The units of each part that must be there for a number of kits.
Needed(code, id, kits) ==
    LET lines == boms[code].lines
    IN SumFunctionOnSet([i \in DOMAIN lines |-> lines[i].qty * kits],
                        {i \in DOMAIN lines : lines[i].part = id /\ ~lines[i].optional})

\* There is a way to pick the kits from the slots that are lit.
CanPick(code, kits) ==
    \E plan \in [Slots -> 0..MaxQty] :
        /\ \A s \in Slots : plan[s] <= stock[s].qty
        /\ \A id \in PartIds :
             SumFunctionOnSet(plan, {s \in Slots : stock[s].part = id})
                >= Needed(code, id, kits)

OneSpelling(code) ==
    \A i \in DOMAIN boms[code].lines, j \in PartIds :
        Key[catalogue[boms[code].lines[i].part]] = Key[catalogue[j]]
            => j = boms[code].lines[i].part

NoPartTwice(code) ==
    \A i, j \in DOMAIN boms[code].lines :
        boms[code].lines[i].part = boms[code].lines[j].part => i = j

\* Whenever the kits can be picked, no line that is needed is reported short;
\* and when every such line is ok they can be picked from the slots that are
\* lit, provided no part is on two lines (bom_service.py:256 gives every line
\* the whole stock).  Both need a catalogue in which the part's number has one
\* spelling (bom_service.py:207 takes the last one).
VerdictsTellPicking ==
    \A c \in Codes, kits \in 1..MaxKits :
        boms[c] # NoBom /\ OneSpelling(c) =>
            LET verdicts == AnalysisOf(c, kits)
                allOk == \A i \in DOMAIN verdicts :
                            boms[c].lines[i].optional \/ verdicts[i].status = "ok"
            IN /\ CanPick(c, kits) => allOk
               /\ allOk /\ NoPartTwice(c) => CanPick(c, kits)
=============================================================================
