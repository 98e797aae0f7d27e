------------------------------ MODULE TagDesk -------------------------------
(***************************************************************************)
(* Tags and single assets (epc_binding.py, the asset halves of             *)
(* inventory_manage_service.py, manual loans in operation_service.py).     *)
(* Slots, assets and cabinets each have a column for the tag, unique in    *)
(* its own table only; that a tag is free in all three is asked before it  *)
(* is given out.                                                           *)
(*                                                                         *)
(* A request reads, decides, and writes in one flush and commit; other     *)
(* requests may come between the two.  Slots are those whose record may be *)
(* managed (SlotOperations has the rest of them).                          *)
(***************************************************************************)
EXTENDS Integers, Sequences, FiniteSets

CONSTANTS
    Operators, Slots, Cabinets, Epcs,
    NoEpc, NoAsset, NoRequest,
    CustomCodes,        \* asset codes an operator may type in
    MaxAssets,          \* bound: largest asset id
    MaxCode,            \* bound: largest automatic code
    MaxRows             \* bound: rows of the operation log

ASSUME DeskAssumption ==
    /\ NoEpc \notin Epcs
    /\ CustomCodes \cap Nat = {}
    /\ MaxAssets \in Nat /\ MaxCode \in Nat /\ MaxRows \in Nat

VARIABLES
    slotEpc,            \* bin_slots.rfid_tag_epc
    cabEpc,             \* bin_cabinets.rfid_tag_epc
    assets,             \* the assets table, by id
    log,                \* rows of inventory_operations that are about assets
    request,            \* what each operator has read and not yet written
    raced,              \* history: tags about which requests overlapped, or
                        \* that a form wrote without asking
    racedIds            \* history: assets about which requests overlapped

deskVars == <<slotEpc, cabEpc, assets, log, request, raced, racedIds>>

AssetIds == 1..MaxAssets
Codes == CustomCodes \cup Nat           \* n stands for the code AST-n
Statuses == {"in_stock", "checked_out"}
AssetRows == [epc : Epcs \cup {NoEpc}, status : Statuses, code : Codes]

TagKinds == {"register_in", "tag_bind", "tag_rebind", "tag_unbind"}
LoanKinds == {"register_in", "take_out", "return"}
LogRows == [kind : TagKinds \cup LoanKinds \cup {"manual_edit", "delete"},
            id : AssetIds, epc : Epcs \cup {NoEpc}]

\* What a request has read, by what it wants to write; an asset that is still
\* to be registered has no id yet.
Requests ==
    [kind : {"register_in"}, id : {0}, epc : Epcs, code : Codes]
      \cup [kind : {"tag_bind", "tag_rebind"}, id : AssetIds, epc : Epcs]
      \cup [kind : {"tag_unbind", "manual_edit", "delete", "take_out", "return"},
            id : AssetIds, epc : Epcs \cup {NoEpc}]
      \cup [kind : {"slot_tag"}, slot : Slots, id : {0}, epc : Epcs \cup {NoEpc}]

NoSlot == "none"

ASSUME SentinelAssumption ==
    NoAsset \notin AssetRows /\ NoRequest \notin Requests /\ NoSlot \notin Slots

\* Tags, assets and the log's rows are well-formed: an asset is in stock or
\* lent, no row of the log is about anything else than an asset's id, and a
\* request names a tag or an asset wherever it is going to write one.
DeskTypeOK ==
    /\ slotEpc \in [Slots -> Epcs \cup {NoEpc}]
    /\ cabEpc \in [Cabinets -> Epcs \cup {NoEpc}]
    /\ assets \in [AssetIds -> AssetRows \cup {NoAsset}]
    /\ log \in Seq(LogRows)
    /\ raced \in SUBSET Epcs /\ racedIds \in SUBSET AssetIds
    /\ request \in [Operators -> Requests \cup {NoRequest}]

DeskInit ==
    /\ slotEpc = [s \in Slots |-> NoEpc]
    /\ cabEpc = [c \in Cabinets |-> NoEpc]
    /\ assets = [id \in AssetIds |-> NoAsset]
    /\ log = <<>>
    /\ request = [o \in Operators |-> NoRequest]
    /\ raced = {} /\ racedIds = {}

-----------------------------------------------------------------------------
(* What a request reads.                                                   *)

Existing == {id \in AssetIds : assets[id] # NoAsset}

AssetsWith(e) == {id \in Existing : assets[id].epc = e}

\* MUTANT: assets are not asked.
AvailableOutsideAssets(e, s, id) ==
    /\ \A t \in Slots \ {s} : slotEpc[t] # e
    /\ \A c \in Cabinets : cabEpc[c] # e

\* check_epc_available, apart from slot s and asset id.
Available(e, s, id) ==
    /\ \A t \in Slots \ {s} : slotEpc[t] # e
    /\ AssetsWith(e) \subseteq {id}
    /\ \A c \in Cabinets : cabEpc[c] # e

\* lookup_epc_binding resolves a tag to an asset only if no slot has it.
AssetOf(e) ==
    IF \E s \in Slots : slotEpc[s] = e THEN {} ELSE AssetsWith(e)

\* SQLite's next row id: ids of deleted assets come back.
NextId == IF Existing = {} THEN 1
          ELSE 1 + CHOOSE id \in Existing : \A other \in Existing : other <= id

CodesInUse == {assets[id].code : id \in Existing}

\* _next_asset_code: one more than the code of the last row, if it is a number.
NextCode ==
    IF Existing = {} \/ assets[NextId - 1].code \notin Nat THEN 1
    ELSE assets[NextId - 1].code + 1

Ask(o, r) ==
    /\ request[o] = NoRequest
    /\ request' = [request EXCEPT ![o] = r]
    /\ UNCHANGED <<slotEpc, cabEpc, assets, log, raced, racedIds>>

\* register_asset_entry, up to the insert.
ReadRegister(o) ==
    \E e \in Epcs, code \in CustomCodes \cup {NextCode} :
        /\ Available(e, NoSlot, 0)
        /\ code \notin CodesInUse
        /\ code \in Nat => code <= MaxCode
        /\ Ask(o, [kind |-> "register_in", id |-> 0, epc |-> e, code |-> code])

AskAbout(o, kind, id, e) == Ask(o, [kind |-> kind, id |-> id, epc |-> e])

\* bind_tag and rebind_tag of an asset.
ReadBind(o, id, e) ==
    /\ assets[id].epc = NoEpc
    /\ Available(e, NoSlot, id)
    /\ AskAbout(o, "tag_bind", id, e)

ReadRebind(o, id, e) ==
    /\ assets[id].epc \notin {NoEpc, e}
    /\ Available(e, NoSlot, id)
    /\ AskAbout(o, "tag_rebind", id, e)

\* unbind_tag, update_asset_record and delete_inventory_record of an asset.
ReadUnbind(o, id) ==
    /\ assets[id].epc # NoEpc
    /\ AskAbout(o, "tag_unbind", id, assets[id].epc)

ReadEdit(o, id) == AskAbout(o, "manual_edit", id, assets[id].epc)

ReadDelete(o, id) == AskAbout(o, "delete", id, assets[id].epc)

\* MUTANT: an asset that is out may be lent again.
ReadTakeOutUnchecked(o, id) == AskAbout(o, "take_out", id, assets[id].epc)

\* manual_asset_take_out and manual_asset_return, up to the change.
ReadTakeOut(o, id) ==
    /\ assets[id].status = "in_stock"
    /\ AskAbout(o, "take_out", id, assets[id].epc)

ReadReturn(o, id) ==
    /\ assets[id].status = "checked_out"
    /\ AskAbout(o, "return", id, assets[id].epc)

\* A loan names the tag, everything else the asset's id.
ReadAsset(o) ==
    \/ \E id \in Existing :
         \/ \E e \in Epcs : ReadBind(o, id, e) \/ ReadRebind(o, id, e)
         \/ ReadUnbind(o, id) \/ ReadEdit(o, id) \/ ReadDelete(o, id)
    \/ \E e \in Epcs : \E id \in AssetOf(e) :
         ReadTakeOut(o, id) \/ ReadReturn(o, id)

\* The tag changes of a slot; unbinding and deleting take its tag away.
ReadSlotTag(o) ==
    \E s \in Slots :
        \/ \E e \in Epcs :
             /\ slotEpc[s] # e
             /\ Available(e, s, 0)
             /\ Ask(o, [kind |-> "slot_tag", slot |-> s, id |-> 0,
                         epc |-> e])
        \/ /\ slotEpc[s] # NoEpc
           /\ Ask(o, [kind |-> "slot_tag", slot |-> s, id |-> 0,
                         epc |-> NoEpc])

-----------------------------------------------------------------------------
(* What it writes.                                                         *)

Row(r, id) == [kind |-> r.kind, id |-> id, epc |-> r.epc]

\* The unique index of the assets table.
EpcFree(e, id) == AssetsWith(e) \subseteq {id}

\* MUTANT: the row is logged, the tag stays as it was.
WrittenKeepsTag(r) ==
    CASE r.kind = "take_out" ->
           [assets EXCEPT ![r.id].status = "checked_out"]
      [] r.kind = "return" -> [assets EXCEPT ![r.id].status = "in_stock"]
      [] r.kind = "delete" -> [assets EXCEPT ![r.id] = NoAsset]
      [] OTHER -> assets

\* MUTANT: a deleted asset stays in the table, marked as deleted.
WrittenSoftDelete(r) ==
    CASE r.kind \in {"tag_bind", "tag_rebind"} ->
           [assets EXCEPT ![r.id].epc = r.epc]
      [] r.kind = "tag_unbind" -> [assets EXCEPT ![r.id].epc = NoEpc]
      [] r.kind = "take_out" ->
           [assets EXCEPT ![r.id].status = "checked_out"]
      [] r.kind = "return" -> [assets EXCEPT ![r.id].status = "in_stock"]
      [] r.kind = "delete" -> [assets EXCEPT ![r.id].status = "deleted"]
      [] OTHER -> assets

\* The assets table after the update of request r; only the columns that
\* changed are written.
Written(r) ==
    CASE r.kind \in {"tag_bind", "tag_rebind"} ->
           [assets EXCEPT ![r.id].epc = r.epc]
      [] r.kind = "tag_unbind" -> [assets EXCEPT ![r.id].epc = NoEpc]
      [] r.kind = "take_out" ->
           [assets EXCEPT ![r.id].status = "checked_out"]
      [] r.kind = "return" -> [assets EXCEPT ![r.id].status = "in_stock"]
      [] r.kind = "delete" -> [assets EXCEPT ![r.id] = NoAsset]
      [] OTHER -> assets

\* An update of a row that is gone is an error, as is a tag or a code that
\* another asset has got since; a delete of such a row is only logged again.
WriteAsset(r) ==
    \/ /\ r.kind = "register_in"
       /\ NextId <= MaxAssets
       /\ EpcFree(r.epc, 0) /\ r.code \notin CodesInUse
       /\ assets' = [assets EXCEPT ![NextId] =
                       [epc |-> r.epc, status |-> "in_stock", code |-> r.code]]
       /\ log' = Append(log, Row(r, NextId))
    \/ /\ r.kind # "register_in"
       /\ r.kind # "delete" => r.id \in Existing
       /\ r.kind \in {"tag_bind", "tag_rebind"} => EpcFree(r.epc, r.id)
       /\ assets' = Written(r)
       /\ log' = Append(log, Row(r, r.id))

WriteSlot(r) ==
    /\ r.epc # NoEpc => \A t \in Slots \ {r.slot} : slotEpc[t] # r.epc
    /\ slotEpc' = [slotEpc EXCEPT ![r.slot] = r.epc]

\* What requests have read, and not written, when o's does.
OpenElsewhere(o) ==
    {request[p] : p \in {q \in Operators \ {o} : request[q] # NoRequest}}

Commit(o) ==
    LET r == request[o] IN
    /\ r # NoRequest
    /\ \/ r.kind = "slot_tag" /\ WriteSlot(r) /\ UNCHANGED <<assets, log>>
       \/ /\ r.kind # "slot_tag" /\ Len(log) < MaxRows
          /\ WriteAsset(r)
          /\ UNCHANGED slotEpc
    /\ request' = [request EXCEPT ![o] = NoRequest]
    /\ raced' = raced \cup ({r.epc} \cap Epcs
                              \cap {other.epc : other \in OpenElsewhere(o)})
    /\ racedIds' = racedIds \cup ({r.id} \cap AssetIds
                              \cap {other.id : other \in OpenElsewhere(o)})
    /\ UNCHANGED cabEpc

\* The request ends in an error: the session rolls back.
Fails(o) ==
    /\ request[o] # NoRequest
    /\ request' = [request EXCEPT ![o] = NoRequest]
    /\ UNCHANGED <<slotEpc, cabEpc, assets, log, raced, racedIds>>

-----------------------------------------------------------------------------
(* Writes that ask nobody: create_bin, update_bin and delete_bin, and       *)
(* update_slot; the unique index of the one table is all that stops them.   *)

PatchCabinet(c, e) ==
    /\ e # NoEpc => \A d \in Cabinets \ {c} : cabEpc[d] # e
    /\ cabEpc' = [cabEpc EXCEPT ![c] = e]
    /\ raced' = raced \cup ({e} \cap Epcs)
    /\ UNCHANGED <<slotEpc, assets, log, request, racedIds>>

PatchSlot(s, e) ==
    /\ e # NoEpc => \A t \in Slots \ {s} : slotEpc[t] # e
    /\ slotEpc' = [slotEpc EXCEPT ![s] = e]
    /\ raced' = raced \cup ({e} \cap Epcs)
    /\ UNCHANGED <<cabEpc, assets, log, request, racedIds>>

\* clear_all_inventory_operations: no asset ever has a pending row.
ClearLog ==
    /\ log # <<>>
    /\ log' = <<>>
    /\ UNCHANGED <<slotEpc, cabEpc, assets, request, raced, racedIds>>

DeskNext ==
    \/ \E o \in Operators :
         \/ ReadRegister(o) \/ ReadAsset(o) \/ ReadSlotTag(o)
         \/ Commit(o) \/ Fails(o)
    \/ \E e \in Epcs \cup {NoEpc} :
         \/ \E c \in Cabinets : PatchCabinet(c, e)
         \/ \E s \in Slots : PatchSlot(s, e)
    \/ ClearLog

DeskSpec == DeskInit /\ [][DeskNext]_deskVars

-----------------------------------------------------------------------------

Holders(e) ==
    Cardinality({s \in Slots : slotEpc[s] = e})
      + Cardinality(AssetsWith(e))
      + Cardinality({c \in Cabinets : cabEpc[c] = e})

\* check_epc_available: a tag belongs to one slot, asset or cabinet, unless two
\* requests about it overlapped or a form that does not ask wrote it.
TagMeansOneThing == \A e \in Epcs \ raced : Holders(e) <= 1

LastRow(id, kinds) ==
    LET rows == {i \in DOMAIN log : log[i].id = id /\ log[i].kind \in kinds}
    IN  IF rows = {} THEN 0
        ELSE CHOOSE i \in rows : \A j \in rows : j <= i

\* However requests overlap, an asset's tag and its loan are what the last
\* rows about it say, although ids of deleted assets are given out again.
LogTellsAsset ==
    \A id \in Existing :
        LET tagged == LastRow(id, TagKinds)
            lent == LastRow(id, LoanKinds)
        IN
        /\ tagged # 0 => assets[id].epc = IF log[tagged].kind = "tag_unbind"
                                          THEN NoEpc ELSE log[tagged].epc
        /\ lent # 0 => (assets[id].status = "checked_out")
                         = (log[lent].kind = "take_out")

\* An asset is not lent twice, nor returned twice, in a row, unless requests
\* about it overlapped.
LoansAlternate ==
    ~\E i, j \in DOMAIN log :
        /\ i < j
        /\ log[i].kind = log[j].kind /\ log[i].kind \in {"take_out", "return"}
        /\ log[i].id = log[j].id /\ log[i].id \notin racedIds
        /\ \A k \in i + 1..j - 1 :
             log[k].id = log[i].id => log[k].kind \notin LoanKinds
=============================================================================
