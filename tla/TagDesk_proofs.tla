--------------------------- MODULE TagDesk_proofs ---------------------------
(***************************************************************************)
(* What holds of tags, loans and the log's rows about assets, for any      *)
(* number of operators, slots, cabinets and tags.                          *)
(***************************************************************************)
EXTENDS TagDesk, SequenceTheorems, FiniteSetTheorems, WellFoundedInduction, TLAPS

(* A bounded set of positive numbers has a largest one.                    *)
LEMMA LargestExists ==
    ASSUME NEW n \in Nat, NEW S, S \subseteq 1..n, S # {}
    PROVE  \E m \in S : \A k \in S : k <= m
  <1> DEFINE Below == {pair \in Nat \X Nat : pair[1] < pair[2]}
             T == {n - k : k \in S}
  <1>1. IsWellFoundedOn(Below, Nat)
    BY NatLessThanWellFounded DEF OpToRel
  <1>2. \A k \in S : k \in 1..n /\ n - k \in Nat
    OBVIOUS
  <1>3. T \subseteq Nat /\ T # {}
    BY <1>2
  <1>4. PICK x \in T : \A y \in T : <<y, x>> \notin Below
    <2> HIDE DEF Below, T
    <2> QED BY <1>1, <1>3, WFMin
  <1>5. \A y \in T : ~(y < x)
    BY <1>3, <1>4
  <1>6. PICK m \in S : x = n - m
    OBVIOUS
  <1>7. ASSUME NEW k \in S PROVE k <= m
    <2>1. n - k \in T /\ k \in Int /\ m \in Int
      BY <1>2
    <2> QED BY <2>1, <1>5, <1>6
  <1> QED BY <1>7

(* What each kind of request carries.                                      *)
LEMMA RequestFields ==
    ASSUME NEW r \in Requests
    PROVE  /\ r # NoRequest
           /\ r.kind \in {"register_in", "tag_bind", "tag_rebind", "tag_unbind",
                          "manual_edit", "delete", "take_out", "return", "slot_tag"}
           /\ r.epc \in Epcs \cup {NoEpc}
           /\ r.kind = "register_in" => r.id = 0 /\ r.epc \in Epcs /\ r.code \in Codes
           /\ r.kind \in {"tag_bind", "tag_rebind"} => r.epc \in Epcs
           /\ r.kind \notin {"register_in", "slot_tag"} => r.id \in AssetIds
           /\ r.kind = "slot_tag" => r.slot \in Slots /\ r.id = 0
  BY SentinelAssumption DEF Requests

LEMMA NextIdIsNew ==
    ASSUME DeskTypeOK
    PROVE  /\ NextId \in Nat \ {0} /\ NextId \notin Existing
           /\ Existing # {} => NextId - 1 \in Existing
  <1>1. CASE Existing = {}
    BY <1>1 DEF NextId
  <1>2. CASE Existing # {}
    <2> DEFINE last == CHOOSE id \in Existing : \A other \in Existing : other <= id
    <2>1. Existing \subseteq 1..MaxAssets /\ MaxAssets \in Nat
      BY DeskAssumption DEF Existing, AssetIds
    <2>2. \E id \in Existing : \A other \in Existing : other <= id
      BY <1>2, <2>1, LargestExists
    <2>3. last \in Existing /\ \A other \in Existing : other <= last
      BY <2>2
    <2>4. NextId = 1 + last
      BY <1>2 DEF NextId
    <2> HIDE DEF last
    <2>5. last \in 1..MaxAssets
      BY <2>1, <2>3
    <2>6. NextId \in Nat \ {0} /\ NextId - 1 = last
      BY <2>4, <2>5
    <2>7. NextId \notin Existing
      BY <2>1, <2>3, <2>4, <2>5
    <2> QED BY <2>3, <2>6, <2>7
  <1> QED BY <1>1, <1>2

LEMMA NextCodeIsACode == DeskTypeOK => NextCode \in Codes
  <1> SUFFICES ASSUME DeskTypeOK PROVE NextCode \in Codes
    OBVIOUS
  <1>1. CASE Existing = {} \/ assets[NextId - 1].code \notin Nat
    BY <1>1 DEF NextCode, Codes
  <1>2. CASE ~(Existing = {} \/ assets[NextId - 1].code \notin Nat)
    BY <1>2 DEF NextCode, Codes
  <1> QED BY <1>1, <1>2

-----------------------------------------------------------------------------
(* Type correctness.                                                       *)

(* Reading changes nothing but the request of the operator who reads.      *)
Reads(o) == \E r \in Requests : Ask(o, r)

LEMMA ReadingAsks ==
    ASSUME DeskTypeOK, NEW o \in Operators,
           ReadRegister(o) \/ ReadAsset(o) \/ ReadSlotTag(o)
    PROVE  Reads(o)
  <1>1. CASE ReadRegister(o)
    <2>1. PICK e \in Epcs, code \in CustomCodes \cup {NextCode} :
            Ask(o, [kind |-> "register_in", id |-> 0, epc |-> e, code |-> code])
      BY <1>1 DEF ReadRegister
    <2>2. code \in Codes
      BY NextCodeIsACode DEF Codes
    <2> QED BY <2>1, <2>2 DEF Reads, Requests
  <1>2. CASE ReadAsset(o)
    <2>1. \A id \in Existing : id \in AssetIds /\ assets[id].epc \in Epcs \cup {NoEpc}
      BY DEF Existing, DeskTypeOK, AssetRows
    <2>2. \A e : AssetOf(e) \subseteq Existing
      BY DEF AssetOf, AssetsWith
    <2> DEFINE Binds == {"tag_bind", "tag_rebind"}
               Others == {"tag_unbind", "manual_edit", "delete", "take_out", "return"}
    <2>3. \E id \in AssetIds :
             \/ \E e \in Epcs, kind \in Binds : AskAbout(o, kind, id, e)
             \/ \E e \in Epcs \cup {NoEpc}, kind \in Others : AskAbout(o, kind, id, e)
      BY <1>2, <2>1, <2>2
         DEF ReadAsset, ReadBind, ReadRebind, ReadUnbind, ReadEdit, ReadDelete,
             ReadTakeOut, ReadReturn
    <2>4. ASSUME NEW id \in AssetIds
          PROVE  /\ \A e \in Epcs, kind \in Binds :
                      [kind |-> kind, id |-> id, epc |-> e] \in Requests
                 /\ \A e \in Epcs \cup {NoEpc}, kind \in Others :
                      [kind |-> kind, id |-> id, epc |-> e] \in Requests
      BY DEF Requests
    <2> QED BY <2>3, <2>4 DEF AskAbout, Reads
  <1>3. CASE ReadSlotTag(o)
    BY <1>3 DEF ReadSlotTag, Reads, Requests
  <1> QED BY <1>1, <1>2, <1>3

(* What a commit writes to the assets and the log.                         *)
LEMMA WriteAssetCases ==
    ASSUME DeskTypeOK, NEW r \in Requests, r.kind # "slot_tag", WriteAsset(r)
    PROVE  \E id \in AssetIds :
             /\ log' = Append(log, Row(r, id)) /\ Row(r, id) \in LogRows
             /\ IF r.kind = "register_in"
                THEN /\ id \notin Existing
                     /\ assets' = [assets EXCEPT ![id] = [epc |-> r.epc,
                                     status |-> "in_stock", code |-> r.code]]
                ELSE /\ id = r.id /\ assets' = Written(r)
                     /\ r.kind # "delete" => id \in Existing
             /\ assets' \in [AssetIds -> AssetRows \cup {NoAsset}]
  <1>1. CASE r.kind = "register_in"
    <2>1. NextId \in AssetIds /\ NextId \notin Existing
      BY <1>1, NextIdIsNew, DeskAssumption DEF WriteAsset, AssetIds
    <2>2. Row(r, NextId) \in LogRows
      BY <1>1, <2>1, RequestFields DEF Row, LogRows, TagKinds, LoanKinds
    <2>3. /\ log' = Append(log, Row(r, NextId))
          /\ assets' = [assets EXCEPT ![NextId] = [epc |-> r.epc,
                          status |-> "in_stock", code |-> r.code]]
      BY <1>1 DEF WriteAsset
    <2>4. [epc |-> r.epc, status |-> "in_stock", code |-> r.code] \in AssetRows
      BY <1>1, RequestFields DEF AssetRows, Statuses
    <2>5. assets' \in [AssetIds -> AssetRows \cup {NoAsset}]
      BY <2>3, <2>4 DEF DeskTypeOK
    <2> QED BY <1>1, <2>1, <2>2, <2>3, <2>5
  <1>2. CASE r.kind # "register_in"
    <2>1. r.id \in AssetIds /\ assets' = Written(r)
          /\ (r.kind # "delete" => r.id \in Existing) /\ log' = Append(log, Row(r, r.id))
      BY <1>2, RequestFields DEF WriteAsset
    <2>2. Row(r, r.id) \in LogRows
      BY <2>1, RequestFields DEF Row, LogRows, TagKinds, LoanKinds
    <2>3. r.kind # "delete" => assets[r.id] \in AssetRows
      BY <2>1 DEF Existing, DeskTypeOK
    <2>4. Written(r) \in [AssetIds -> AssetRows \cup {NoAsset}]
      <3>1. r.epc \in Epcs \cup {NoEpc}
        BY RequestFields
      <3>2. r.kind # "delete" => assets[r.id] \in [epc : Epcs \cup {NoEpc}, status : {"in_stock", "checked_out"},
                              code : Codes]
        BY <2>3 DEF AssetRows, Statuses
      <3>3. r.kind # "delete" =>
            /\ [assets[r.id] EXCEPT !.epc = r.epc] \in AssetRows
            /\ [assets[r.id] EXCEPT !.epc = NoEpc] \in AssetRows
            /\ [assets[r.id] EXCEPT !.status = "checked_out"] \in AssetRows
            /\ [assets[r.id] EXCEPT !.status = "in_stock"] \in AssetRows
        BY <3>1, <3>2 DEF AssetRows, Statuses
      <3>4. assets \in [AssetIds -> AssetRows \cup {NoAsset}]
        BY DEF DeskTypeOK
      <3>5. \A row \in AssetRows \cup {NoAsset} :
               [assets EXCEPT ![r.id] = row] \in [AssetIds -> AssetRows \cup {NoAsset}]
        BY <3>4
      <3> QED BY <3>3, <3>4, <3>5 DEF Written
    <2> QED BY <1>2, <2>1, <2>2, <2>4
  <1> QED BY <1>1, <1>2

LEMMA DeskTypeStep == DeskTypeOK /\ [DeskNext]_deskVars => DeskTypeOK'
  <1> SUFFICES ASSUME DeskTypeOK, [DeskNext]_deskVars PROVE DeskTypeOK'
    OBVIOUS
  <1> USE DEF DeskTypeOK
  <1>1. ASSUME NEW o \in Operators, ReadRegister(o) \/ ReadAsset(o) \/ ReadSlotTag(o)
        PROVE  DeskTypeOK'
    BY <1>1, ReadingAsks DEF Reads, Ask
  <1>2. ASSUME NEW o \in Operators, Commit(o) PROVE DeskTypeOK'
    <2> DEFINE r == request[o]
    <2>1. r \in Requests
      BY <1>2 DEF Commit
    <2>2. request' \in [Operators -> Requests \cup {NoRequest}]
          /\ cabEpc' = cabEpc /\ raced' \in SUBSET Epcs /\ racedIds' \in SUBSET AssetIds
      BY <1>2 DEF Commit
    <2>3. CASE r.kind = "slot_tag"
      <3>1. slotEpc' = [slotEpc EXCEPT ![r.slot] = r.epc] /\ assets' = assets /\ log' = log
        BY <1>2, <2>3 DEF Commit, WriteSlot
      <3> QED BY <2>1, <2>2, <3>1, RequestFields
    <2>4. CASE r.kind # "slot_tag"
      <3>1. WriteAsset(r) /\ slotEpc' = slotEpc
        BY <1>2, <2>4 DEF Commit
      <3>2. /\ assets' \in [AssetIds -> AssetRows \cup {NoAsset}]
            /\ \E row \in LogRows : log' = Append(log, row)
        BY <2>1, <2>4, <3>1, WriteAssetCases
      <3>3. log' \in Seq(LogRows)
        BY <3>2, AppendProperties
      <3> QED BY <2>2, <3>1, <3>2, <3>3
    <2> QED BY <2>3, <2>4
  <1>3. ASSUME NEW o \in Operators, Fails(o) PROVE DeskTypeOK'
    BY <1>3 DEF Fails
  <1>4. ASSUME NEW e \in Epcs \cup {NoEpc}, NEW c \in Cabinets, PatchCabinet(c, e)
        PROVE  DeskTypeOK'
    BY <1>4 DEF PatchCabinet
  <1>5. ASSUME NEW e \in Epcs \cup {NoEpc}, NEW s \in Slots, PatchSlot(s, e)
        PROVE  DeskTypeOK'
    BY <1>5 DEF PatchSlot
  <1>6. CASE ClearLog
    BY <1>6 DEF ClearLog
  <1>7. CASE UNCHANGED deskVars
    BY <1>7 DEF deskVars
  <1> QED
    BY <1>1, <1>2, <1>3, <1>4, <1>5, <1>6, <1>7 DEF DeskNext

(* Slots, cabinets and assets carry tags or none, and the rows of the log   *)
(* are about assets, however many there are.                               *)
THEOREM DeskTypeCorrect == DeskSpec => []DeskTypeOK
  <1>1. DeskInit => DeskTypeOK
    BY DEF DeskInit, DeskTypeOK
  <1> QED
    BY <1>1, DeskTypeStep, PTL DEF DeskSpec

-----------------------------------------------------------------------------
(* A tag belongs to one thing.                                             *)

SlotsWith(e) == {s \in Slots : slotEpc[s] = e}
CabinetsWith(e) == {c \in Cabinets : cabEpc[c] = e}

(* At most one slot, asset or cabinet has tag e.                           *)
OneHolder(e) ==
    /\ \A s, t \in SlotsWith(e) : s = t
    /\ \A i, j \in AssetsWith(e) : i = j
    /\ \A c, d \in CabinetsWith(e) : c = d
    /\ SlotsWith(e) = {} \/ AssetsWith(e) = {}
    /\ SlotsWith(e) = {} \/ CabinetsWith(e) = {}
    /\ AssetsWith(e) = {} \/ CabinetsWith(e) = {}

(* Requests that are going to give their tag to something.                 *)
GivesTag(r) ==
    r # NoRequest /\ r.kind \in {"register_in", "tag_bind", "tag_rebind", "slot_tag"}

SlotOf(r) == IF r.kind = "slot_tag" THEN r.slot ELSE NoSlot

(* A tag that was free when the request asked still is when it writes.     *)
StillFree ==
    \A o \in Operators :
        GivesTag(request[o]) /\ request[o].epc \in Epcs \ raced =>
            Available(request[o].epc, SlotOf(request[o]), request[o].id)

TagInv ==
    /\ DeskTypeOK
    /\ \A e \in Epcs \ raced : OneHolder(e)
    /\ StillFree

(* Nothing gets tag e.                                                     *)
NoNewHolder(e) ==
    /\ SlotsWith(e)' \subseteq SlotsWith(e)
    /\ AssetsWith(e)' \subseteq AssetsWith(e)
    /\ CabinetsWith(e)' \subseteq CabinetsWith(e)

(* A tag that nothing gets stays with one thing, and free if it was free.  *)
LEMMA NobodyGetsIt ==
    ASSUME NEW e, NoNewHolder(e)
    PROVE  /\ OneHolder(e) => OneHolder(e)'
           /\ \A s, id : Available(e, s, id) => Available(e, s, id)'
  <1>1. OneHolder(e) => OneHolder(e)'
    BY DEF NoNewHolder, OneHolder
  <1>2. ASSUME NEW s, NEW id, Available(e, s, id) PROVE Available(e, s, id)'
    BY <1>2 DEF NoNewHolder, Available, SlotsWith, CabinetsWith
  <1> QED BY <1>1, <1>2

(* Tables that do not change give nothing away.                            *)
LEMMA SameTables ==
    UNCHANGED <<slotEpc, cabEpc, assets>> => \A e : NoNewHolder(e)
  BY DEF NoNewHolder, SlotsWith, CabinetsWith, AssetsWith, Existing

(* A write gives away no tag but that of its request.                      *)
LEMMA OnlyItsTag ==
    ASSUME DeskTypeOK, NEW o \in Operators, Commit(o), NEW e \in Epcs,
           ~(GivesTag(request[o]) /\ request[o].epc = e)
    PROVE  NoNewHolder(e)
  <1> DEFINE r == request[o]
  <1>1. r \in Requests /\ e # NoEpc /\ cabEpc' = cabEpc
    BY DeskAssumption DEF Commit, DeskTypeOK
  <1>2. CASE r.kind = "slot_tag"
    <2>1. slotEpc' = [slotEpc EXCEPT ![r.slot] = r.epc] /\ assets' = assets /\ r.epc # e
      BY <1>1, <1>2, RequestFields DEF Commit, WriteSlot, GivesTag
    <2> QED BY <1>1, <2>1 DEF NoNewHolder, SlotsWith, CabinetsWith, AssetsWith, Existing,
                              DeskTypeOK
  <1>3. CASE r.kind # "slot_tag"
    <2>1. WriteAsset(r) /\ slotEpc' = slotEpc
      BY <1>3 DEF Commit
    <2>2. PICK id \in AssetIds :
             IF r.kind = "register_in"
             THEN assets' = [assets EXCEPT ![id] = [epc |-> r.epc,
                               status |-> "in_stock", code |-> r.code]]
             ELSE id = r.id /\ assets' = Written(r) /\ (r.kind # "delete" => id \in Existing)
      BY <1>1, <1>3, <2>1, WriteAssetCases
    <2>3. AssetsWith(e)' \subseteq AssetsWith(e)
      <3>1. CASE r.kind = "register_in"
        <4>1. r.epc # e
          BY <1>1, <3>1, RequestFields DEF GivesTag
        <4> QED BY <2>2, <3>1, <4>1 DEF AssetsWith, Existing, DeskTypeOK
      <3>2. CASE r.kind \in {"tag_bind", "tag_rebind"}
        <4>1. r.epc # e
          BY <1>1, <3>2, RequestFields DEF GivesTag
        <4>2. assets' = [assets EXCEPT ![r.id].epc = r.epc] /\ r.id \in Existing
          BY <2>2, <3>2 DEF Written
        <4>3. assets[r.id] \in AssetRows
          BY <4>2 DEF Existing, DeskTypeOK
        <4>4. assets'[r.id].epc = r.epc
          BY <4>2, <4>3 DEF AssetRows, Existing, DeskTypeOK
        <4> QED BY <4>1, <4>2, <4>4 DEF AssetsWith, Existing, DeskTypeOK
      <3>3. CASE r.kind \notin {"register_in", "tag_bind", "tag_rebind"}
        <4>1. /\ r.id \in AssetIds /\ assets' = Written(r)
              /\ r.kind # "delete" => r.id \in Existing
          BY <2>2, <3>3
        <4>2. r.kind # "delete" => assets[r.id] \in AssetRows
          BY <4>1 DEF Existing, DeskTypeOK
        <4>3. /\ \A i \in AssetIds \ {r.id} : assets'[i] = assets[i]
              /\ \/ assets'[r.id] = NoAsset
                 \/ /\ r.id \in Existing
                    /\ assets'[r.id].epc \in {NoEpc, assets[r.id].epc}
          <5>1. CASE r.kind = "delete"
            BY <4>1, <5>1 DEF Written, DeskTypeOK
          <5>2. CASE r.kind # "delete"
            BY <3>3, <4>1, <4>2, <5>2 DEF Written, AssetRows, Existing, DeskTypeOK
          <5> QED BY <5>1, <5>2
        <4> QED BY <1>1, <4>1, <4>3 DEF AssetsWith, Existing
      <3> QED BY <3>1, <3>2, <3>3
    <2> QED BY <1>1, <2>1, <2>3 DEF NoNewHolder, SlotsWith, CabinetsWith
  <1> QED BY <1>2, <1>3

(* A request that gives a tag that was free makes its thing the only one   *)
(* that has it.                                                            *)
LEMMA GivenOnce ==
    ASSUME DeskTypeOK, NEW o \in Operators, Commit(o), GivesTag(request[o]),
           NEW e \in Epcs, request[o].epc = e,
           Available(e, SlotOf(request[o]), request[o].id)
    PROVE  OneHolder(e)'
  <1> DEFINE r == request[o]
  <1>1. r \in Requests /\ r.epc = e /\ e # NoEpc /\ cabEpc' = cabEpc
        /\ CabinetsWith(e)' = {}
    BY DeskAssumption DEF Commit, DeskTypeOK, Available, CabinetsWith
  <1>2. CASE r.kind = "slot_tag"
    <2>1. slotEpc' = [slotEpc EXCEPT ![r.slot] = e] /\ assets' = assets
          /\ r.slot \in Slots /\ r.id = 0
      BY <1>1, <1>2, RequestFields DEF Commit, WriteSlot
    <2>2. SlotsWith(e)' \subseteq {r.slot}
      BY <1>2, <2>1 DEF SlotsWith, Available, SlotOf, DeskTypeOK
    <2>3. AssetsWith(e)' = {}
      BY <2>1 DEF Available, AssetsWith, Existing, AssetIds
    <2> QED BY <1>1, <2>2, <2>3 DEF OneHolder
  <1>3. CASE r.kind # "slot_tag"
    <2>1. WriteAsset(r) /\ slotEpc' = slotEpc
      BY <1>3 DEF Commit
    <2>2. SlotsWith(e)' = {}
      BY <1>3, <2>1, SentinelAssumption DEF SlotsWith, Available, SlotOf
    <2>3. PICK id \in AssetIds : AssetsWith(e)' \subseteq {id}
      <3>1. PICK id \in AssetIds :
               IF r.kind = "register_in"
               THEN assets' = [assets EXCEPT ![id] = [epc |-> r.epc,
                                 status |-> "in_stock", code |-> r.code]]
               ELSE id = r.id /\ assets' = Written(r) /\ (r.kind # "delete" => id \in Existing)
        BY <1>1, <1>3, <2>1, WriteAssetCases
      <3>2. \A i \in AssetIds \ {id} : assets'[i] = assets[i]
        BY <3>1 DEF Written, DeskTypeOK, GivesTag
      <3>3. AssetsWith(e) \subseteq {id}
        BY <1>1, <1>3, <3>1, RequestFields DEF Available, AssetsWith, Existing, AssetIds
      <3> QED BY <3>2, <3>3 DEF AssetsWith, Existing
    <2> QED BY <1>1, <2>2, <2>3 DEF OneHolder
  <1> QED BY <1>2, <1>3

(* What a request has read is so when it has read it.                      *)
LEMMA AsksWhatIsFree ==
    ASSUME DeskTypeOK, NEW o \in Operators,
           ReadRegister(o) \/ ReadAsset(o) \/ ReadSlotTag(o)
    PROVE  /\ UNCHANGED <<slotEpc, cabEpc, assets, log, raced, racedIds>>
           /\ \E r \in Requests :
                /\ request' = [request EXCEPT ![o] = r]
                /\ GivesTag(r) /\ r.epc \in Epcs => Available(r.epc, SlotOf(r), r.id)
                /\ r.kind = "take_out" => r.id \in Existing /\ assets[r.id].status = "in_stock"
                /\ r.kind = "return" => r.id \in Existing /\ assets[r.id].status = "checked_out"
  <1>1. PICK r \in Requests : Ask(o, r)
    BY ReadingAsks DEF Reads
  <1>2. /\ UNCHANGED <<slotEpc, cabEpc, assets, log, raced, racedIds>>
        /\ request' = [request EXCEPT ![o] = r] /\ request'[o] = r
    BY <1>1 DEF Ask, DeskTypeOK
  <1>3. NoEpc \notin Epcs
    BY DeskAssumption
  <1> DEFINE Free(q) == GivesTag(q) /\ q.epc \in Epcs => Available(q.epc, SlotOf(q), q.id)
             Loan(q) ==
               /\ q.kind = "take_out" => q.id \in Existing /\ assets[q.id].status = "in_stock"
               /\ q.kind = "return" => q.id \in Existing /\ assets[q.id].status = "checked_out"
  <1>4. Free(r) /\ Loan(r)
    <2>1. CASE ReadRegister(o)
      <3>1. PICK e \in Epcs, code \in CustomCodes \cup {NextCode} :
              /\ Available(e, NoSlot, 0)
              /\ Ask(o, [kind |-> "register_in", id |-> 0, epc |-> e, code |-> code])
        BY <2>1 DEF ReadRegister
      <3>2. r = [kind |-> "register_in", id |-> 0, epc |-> e, code |-> code]
        BY <1>2, <3>1 DEF Ask, DeskTypeOK
      <3> QED BY <3>1, <3>2 DEF SlotOf
    <2>2. CASE ReadAsset(o)
      <3> DEFINE Kinds == {"tag_bind", "tag_rebind", "tag_unbind", "manual_edit",
                           "delete", "take_out", "return"}
      <3>0. \A id \in Existing : id \in AssetIds /\ assets[id].epc \in Epcs \cup {NoEpc}
        BY DEF Existing, DeskTypeOK, AssetRows
      <3>1. PICK id \in AssetIds, e \in Epcs \cup {NoEpc}, kind \in Kinds :
               /\ Ask(o, [kind |-> kind, id |-> id, epc |-> e])
               /\ \/ kind \in {"tag_bind", "tag_rebind"} /\ Available(e, NoSlot, id)
                  \/ kind \in {"tag_unbind", "manual_edit", "delete"}
                  \/ kind = "take_out" /\ id \in Existing /\ assets[id].status = "in_stock"
                  \/ kind = "return" /\ id \in Existing /\ assets[id].status = "checked_out"
        BY <2>2, <3>0
           DEF ReadAsset, ReadBind, ReadRebind, ReadUnbind, ReadEdit, ReadDelete,
               ReadTakeOut, ReadReturn, AskAbout, AssetOf, AssetsWith
      <3>2. r = [kind |-> kind, id |-> id, epc |-> e]
        BY <1>2, <3>1 DEF Ask, DeskTypeOK
      <3> QED BY <3>1, <3>2 DEF SlotOf, GivesTag
    <2>3. CASE ReadSlotTag(o)
      <3>1. PICK s \in Slots, e \in Epcs \cup {NoEpc} :
               /\ Ask(o, [kind |-> "slot_tag", slot |-> s, id |-> 0, epc |-> e])
               /\ e = NoEpc \/ Available(e, s, 0)
        BY <2>3 DEF ReadSlotTag
      <3>2. r = [kind |-> "slot_tag", slot |-> s, id |-> 0, epc |-> e]
        BY <1>2, <3>1 DEF Ask, DeskTypeOK
      <3> QED BY <1>3, <3>1, <3>2 DEF SlotOf, GivesTag
    <2> QED BY <2>1, <2>2, <2>3
  <1> QED BY <1>2, <1>4

(* The request that commits, and what the others' requests mark as raced.  *)
LEMMA CommitRaces ==
    ASSUME DeskTypeOK, NEW o \in Operators, Commit(o)
    PROVE  /\ request[o] \in Requests
           /\ request' = [request EXCEPT ![o] = NoRequest]
           /\ raced \subseteq raced' /\ racedIds \subseteq racedIds'
           /\ \A p \in Operators \ {o} : request[p] # NoRequest =>
                /\ request[p].epc = request[o].epc /\ request[o].epc \in Epcs
                     => request[o].epc \in raced'
                /\ request[p].id = request[o].id /\ request[o].id \in AssetIds
                     => request[o].id \in racedIds'
  BY DEF Commit, OpenElsewhere, DeskTypeOK

LEMMA TagStep == TagInv /\ [DeskNext]_deskVars => TagInv'
  <1> SUFFICES ASSUME TagInv, [DeskNext]_deskVars PROVE TagInv'
    OBVIOUS
  <1>type. DeskTypeOK /\ DeskTypeOK'
    BY DeskTypeStep DEF TagInv
  <1>1. ASSUME NEW o \in Operators, ReadRegister(o) \/ ReadAsset(o) \/ ReadSlotTag(o)
        PROVE  TagInv'
    <2>1. UNCHANGED <<slotEpc, cabEpc, assets, raced>>
      BY <1>type, <1>1, AsksWhatIsFree
    <2>2. PICK r \in Requests :
             /\ request' = [request EXCEPT ![o] = r]
             /\ GivesTag(r) /\ r.epc \in Epcs => Available(r.epc, SlotOf(r), r.id)
      BY <1>type, <1>1, AsksWhatIsFree
    <2>3. \A e \in Epcs \ raced' : OneHolder(e)'
      BY <2>1, SameTables, NobodyGetsIt DEF TagInv
    <2>4. ASSUME NEW p \in Operators, GivesTag(request'[p]),
                 request'[p].epc \in Epcs \ raced'
          PROVE  (Available(request[p].epc, SlotOf(request[p]), request[p].id))'
      <3>1. Available(request'[p].epc, SlotOf(request'[p]), request'[p].id)
        BY <2>1, <2>2, <2>4, <1>type DEF TagInv, StillFree, DeskTypeOK
      <3> QED BY <2>1, <3>1 DEF Available, AssetsWith, Existing, SlotOf
    <2> QED BY <1>type, <2>3, <2>4 DEF TagInv, StillFree, GivesTag, SlotOf
  <1>2. ASSUME NEW o \in Operators, Commit(o) PROVE TagInv'
    <2> DEFINE r == request[o]
    <2>1. \A e \in Epcs \ raced' : OneHolder(e)'
      <3> SUFFICES ASSUME NEW e \in Epcs \ raced' PROVE OneHolder(e)'
        OBVIOUS
      <3>1. OneHolder(e)
        BY <1>type, <1>2, CommitRaces DEF TagInv
      <3>2. CASE GivesTag(r) /\ r.epc = e
        <4>1. Available(e, SlotOf(r), r.id)
          BY <1>type, <1>2, <3>2, CommitRaces DEF TagInv, StillFree
        <4> QED BY <1>type, <1>2, <3>2, <4>1, GivenOnce
      <3>3. CASE ~(GivesTag(r) /\ r.epc = e)
        BY <1>type, <1>2, <3>1, <3>3, OnlyItsTag, NobodyGetsIt
      <3> QED BY <3>2, <3>3
    <2>2. ASSUME NEW p \in Operators, GivesTag(request'[p]),
                 request'[p].epc \in Epcs \ raced'
          PROVE  (Available(request[p].epc, SlotOf(request[p]), request[p].id))'
      <3> DEFINE q == request[p]
      <3>1. p # o /\ request'[p] = q /\ q # NoRequest
        BY <1>type, <1>2, <2>2, CommitRaces DEF GivesTag, DeskTypeOK
      <3>2. Available(q.epc, SlotOf(q), q.id) /\ q.epc # r.epc
        BY <1>type, <1>2, <2>2, <3>1, CommitRaces DEF TagInv, StillFree
      <3>3. NoNewHolder(q.epc) /\ q.epc \in Epcs
        BY <1>type, <1>2, <2>2, <3>1, <3>2, OnlyItsTag
      <3>4. \A e, s, id : e = q.epc /\ Available(e, s, id) => Available(e, s, id)'
        BY <3>3, NobodyGetsIt
      <3> QED BY <3>1, <3>2, <3>4
    <2> QED BY <1>type, <2>1, <2>2 DEF TagInv, StillFree, GivesTag, SlotOf
  <1>3. ASSUME NEW o \in Operators, Fails(o) PROVE TagInv'
    <2>1. /\ UNCHANGED <<slotEpc, cabEpc, assets, raced>>
          /\ request' = [request EXCEPT ![o] = NoRequest]
      BY <1>3 DEF Fails
    <2>2. \A e \in Epcs \ raced' : OneHolder(e)'
      BY <2>1, SameTables, NobodyGetsIt DEF TagInv
    <2> QED BY <1>type, <2>1, <2>2
            DEF TagInv, StillFree, GivesTag, SlotOf, Available, AssetsWith, Existing,
                DeskTypeOK
  <1>4. ASSUME NEW e \in Epcs \cup {NoEpc}, raced' = raced \cup ({e} \cap Epcs),
               \A f \in Epcs \ {e} : NoNewHolder(f), request' = request
        PROVE  TagInv'
    <2>1. \A f \in Epcs \ raced' : NoNewHolder(f) /\ f \in Epcs \ raced
      BY <1>4
    <2>2. \A f \in Epcs \ raced' : OneHolder(f)'
      BY <2>1, NobodyGetsIt DEF TagInv
    <2>3. \A f \in Epcs \ raced' : \A s, id : Available(f, s, id) => Available(f, s, id)'
      BY <2>1, NobodyGetsIt
    <2>4. ASSUME NEW p \in Operators, GivesTag(request[p]),
                 request[p].epc \in Epcs \ raced'
          PROVE  (Available(request[p].epc, SlotOf(request[p]), request[p].id))'
      <3>1. Available(request[p].epc, SlotOf(request[p]), request[p].id)
        BY <2>1, <2>4 DEF TagInv, StillFree
      <3>2. ASSUME NEW f \in Epcs \ raced', NEW s, NEW id, Available(f, s, id)
            PROVE  Available(f, s, id)'
        BY <2>3, <3>2
      <3>3. \A f \in Epcs \ raced' : \A s, id :
               f = request[p].epc /\ s = SlotOf(request[p]) /\ id = request[p].id
                 => Available(f, s, id)'
        BY <3>1, <3>2
      <3> QED BY <1>4, <2>4, <3>3 DEF SlotOf
    <2> QED BY <1>type, <1>4, <2>2, <2>4 DEF TagInv, StillFree, GivesTag, SlotOf
  <1>5. ASSUME NEW e \in Epcs \cup {NoEpc}, NEW c \in Cabinets, PatchCabinet(c, e)
        PROVE  TagInv'
    <2>1. \A f \in Epcs \ {e} : NoNewHolder(f)
      BY <1>5, <1>type, DeskAssumption
         DEF PatchCabinet, NoNewHolder, SlotsWith, AssetsWith, CabinetsWith, Existing,
             DeskTypeOK
    <2> QED BY <1>4, <1>5, <2>1 DEF PatchCabinet
  <1>6. ASSUME NEW e \in Epcs \cup {NoEpc}, NEW s \in Slots, PatchSlot(s, e)
        PROVE  TagInv'
    <2>1. \A f \in Epcs \ {e} : NoNewHolder(f)
      BY <1>6, <1>type, DeskAssumption
         DEF PatchSlot, NoNewHolder, SlotsWith, AssetsWith, CabinetsWith, Existing,
             DeskTypeOK
    <2> QED BY <1>4, <1>6, <2>1 DEF PatchSlot
  <1>7. CASE ClearLog \/ UNCHANGED deskVars
    <2>1. UNCHANGED <<slotEpc, cabEpc, assets, raced, request>>
      BY <1>7 DEF ClearLog, deskVars
    <2>2. \A e \in Epcs \ raced' : OneHolder(e)'
      BY <2>1, SameTables, NobodyGetsIt DEF TagInv
    <2> QED BY <1>type, <2>1, <2>2
            DEF TagInv, StillFree, GivesTag, SlotOf, Available, AssetsWith, Existing
  <1> QED
    BY <1>1, <1>2, <1>3, <1>5, <1>6, <1>7 DEF DeskNext

(* A set without two elements has at most one.                             *)
LEMMA AtMostOne ==
    ASSUME NEW S, \A x, y \in S : x = y
    PROVE  /\ Cardinality(S) \in Nat /\ Cardinality(S) <= 1
           /\ S = {} => Cardinality(S) = 0
  <1>1. CASE S = {}
    BY <1>1, FS_EmptySet
  <1>2. CASE S # {}
    <2>1. PICK x \in S : TRUE
      BY <1>2
    <2>2. S = {x}
      BY <2>1
    <2>3. Cardinality(S) = 1
      BY <2>2, FS_Singleton
    <2> QED BY <1>2, <2>3
  <1> QED BY <1>1, <1>2

(* check_epc_available: a tag belongs to at most one slot, asset or        *)
(* cabinet, for any number of each and of operators, unless two requests   *)
(* about it overlapped or a form that does not ask wrote it.               *)
THEOREM TagMeansOneThingHolds == DeskSpec => []TagMeansOneThing
  <1>1. DeskInit => TagInv
    BY DeskAssumption
       DEF DeskInit, TagInv, DeskTypeOK, OneHolder, SlotsWith, AssetsWith,
           CabinetsWith, Existing, StillFree, GivesTag
  <1>2. TagInv => TagMeansOneThing
    <2> SUFFICES ASSUME TagInv, NEW e \in Epcs \ raced PROVE Holders(e) <= 1
      BY DEF TagMeansOneThing
    <2>1. OneHolder(e)
      BY DEF TagInv
    <2>2. /\ Cardinality(SlotsWith(e)) \in Nat /\ Cardinality(SlotsWith(e)) <= 1
          /\ SlotsWith(e) = {} => Cardinality(SlotsWith(e)) = 0
      BY <2>1, AtMostOne DEF OneHolder
    <2>3. /\ Cardinality(AssetsWith(e)) \in Nat /\ Cardinality(AssetsWith(e)) <= 1
          /\ AssetsWith(e) = {} => Cardinality(AssetsWith(e)) = 0
      BY <2>1, AtMostOne DEF OneHolder
    <2>4. /\ Cardinality(CabinetsWith(e)) \in Nat /\ Cardinality(CabinetsWith(e)) <= 1
          /\ CabinetsWith(e) = {} => Cardinality(CabinetsWith(e)) = 0
      BY <2>1, AtMostOne DEF OneHolder
    <2>5. Holders(e) = Cardinality(SlotsWith(e)) + Cardinality(AssetsWith(e))
                         + Cardinality(CabinetsWith(e))
      BY DEF Holders, SlotsWith, CabinetsWith
    <2> QED BY <2>1, <2>2, <2>3, <2>4, <2>5 DEF OneHolder
  <1> QED
    BY <1>1, <1>2, TagStep, PTL DEF DeskSpec

-----------------------------------------------------------------------------
(* The log and the assets.                                                 *)

(* Row i of the log is the last one of these kinds about its asset.        *)
IsLastOf(i, kinds) ==
    /\ i \in DOMAIN log /\ log[i].kind \in kinds
    /\ \A j \in DOMAIN log :
         j > i /\ log[j].id = log[i].id => log[j].kind \notin kinds

TagTold(i) ==
    assets[log[i].id].epc = IF log[i].kind = "tag_unbind" THEN NoEpc ELSE log[i].epc

LoanTold(i) ==
    (assets[log[i].id].status = "checked_out") <=> (log[i].kind = "take_out")

RowsTell ==
    \A i \in DOMAIN log : log[i].id \in Existing =>
        /\ IsLastOf(i, TagKinds) => TagTold(i)
        /\ IsLastOf(i, LoanKinds) => LoanTold(i)

(* An asset that was in when a request asked still is when it lends it,     *)
(* unless requests about it overlapped; likewise for a return.             *)
StillLendable ==
    \A o \in Operators :
        request[o] # NoRequest /\ request[o].id \notin racedIds =>
          /\ request[o].kind = "take_out" =>
               request[o].id \in Existing /\ assets[request[o].id].status = "in_stock"
          /\ request[o].kind = "return" =>
               request[o].id \in Existing /\ assets[request[o].id].status = "checked_out"

LoanInv == DeskTypeOK /\ RowsTell /\ StillLendable /\ LoansAlternate

(* The log after a commit about an asset, and what the commit does to it.  *)
LEMMA CommitOfAsset ==
    ASSUME DeskTypeOK, NEW o \in Operators, Commit(o), request[o].kind # "slot_tag"
    PROVE  \E id \in AssetIds :
             /\ Len(log) \in Nat /\ DOMAIN log = 1..Len(log)
             /\ DOMAIN log' = 1..Len(log) + 1
             /\ \A i \in 1..Len(log) : log'[i] = log[i]
             /\ log'[Len(log) + 1] = Row(request[o], id)
             /\ \A i \in AssetIds \ {id} : assets'[i] = assets[i]
             /\ IF request[o].kind = "register_in"
                THEN /\ id \notin Existing
                     /\ assets'[id].epc = request[o].epc
                     /\ assets'[id].status = "in_stock"
                ELSE /\ id = request[o].id /\ assets' = Written(request[o])
                     /\ request[o].kind # "delete" => id \in Existing
  <1> DEFINE r == request[o]
  <1>1. r \in Requests /\ WriteAsset(r)
    BY CommitRaces DEF Commit
  <1>2. PICK id \in AssetIds :
          /\ log' = Append(log, Row(r, id)) /\ Row(r, id) \in LogRows
          /\ IF r.kind = "register_in"
             THEN /\ id \notin Existing
                  /\ assets' = [assets EXCEPT ![id] = [epc |-> r.epc,
                                  status |-> "in_stock", code |-> r.code]]
             ELSE id = r.id /\ assets' = Written(r) /\ (r.kind # "delete" => id \in Existing)
    BY <1>1, WriteAssetCases
  <1>3. /\ Len(log) \in Nat /\ DOMAIN log = 1..Len(log)
        /\ DOMAIN log' = 1..Len(log) + 1
        /\ \A i \in 1..Len(log) : log'[i] = log[i]
        /\ log'[Len(log) + 1] = Row(r, id)
    BY <1>2 DEF DeskTypeOK
  <1>4. \A i \in AssetIds \ {id} : assets'[i] = assets[i]
    BY <1>2 DEF Written, DeskTypeOK
  <1>5. r.kind = "register_in" =>
          /\ assets'[id].epc = r.epc
          /\ assets'[id].status = "in_stock"
    BY <1>2 DEF DeskTypeOK
  <1> QED BY <1>2, <1>3, <1>4, <1>5

LEMMA CommitKeepsRowsTelling ==
    ASSUME LoanInv, NEW o \in Operators, Commit(o), request[o].kind # "slot_tag"
    PROVE  RowsTell'
  <1> DEFINE r == request[o]
             n == Len(log) + 1
  <1>type. DeskTypeOK /\ RowsTell /\ r \in Requests
    BY CommitRaces DEF LoanInv
  <1>1. PICK id \in AssetIds :
          /\ Len(log) \in Nat /\ DOMAIN log = 1..Len(log) /\ DOMAIN log' = 1..n
          /\ \A i \in 1..Len(log) : log'[i] = log[i]
          /\ log'[n] = Row(r, id)
          /\ \A i \in AssetIds \ {id} : assets'[i] = assets[i]
          /\ IF r.kind = "register_in"
             THEN /\ id \notin Existing
                  /\ assets'[id].epc = r.epc
                  /\ assets'[id].status = "in_stock"
             ELSE id = r.id /\ assets' = Written(r) /\ (r.kind # "delete" => id \in Existing)
    BY <1>type, CommitOfAsset
  <1>new. log'[n].id = id /\ log'[n].kind = r.kind /\ log'[n].epc = r.epc
    BY <1>1 DEF Row
  <1>row. r.kind \notin {"register_in", "delete"} => assets[id] \in AssetRows
    BY <1>1, <1>type DEF Existing, DeskTypeOK
  <1> SUFFICES ASSUME NEW i \in DOMAIN log', log'[i].id \in Existing'
               PROVE  /\ IsLastOf(i, TagKinds)' => TagTold(i)'
                      /\ IsLastOf(i, LoanKinds)' => LoanTold(i)'
    BY DEF RowsTell
  <1>2. CASE log'[i].id # id
    <2>1. i \in 1..Len(log) /\ log'[i] = log[i]
      BY <1>1, <1>new, <1>2
    <2>2. log[i].id \in AssetIds
      <3>1. log[i] \in LogRows
        BY <2>1, <1>type, <1>1 DEF DeskTypeOK
      <3> QED BY <3>1 DEF LogRows
    <2>3. log[i].id \in Existing /\ assets'[log[i].id] = assets[log[i].id]
      BY <1>1, <1>2, <2>1, <2>2 DEF Existing
    <2>4. /\ IsLastOf(i, TagKinds)' => IsLastOf(i, TagKinds)
          /\ IsLastOf(i, LoanKinds)' => IsLastOf(i, LoanKinds)
      BY <1>1, <2>1 DEF IsLastOf
    <2> QED BY <1>1, <1>type, <2>1, <2>3, <2>4 DEF RowsTell, TagTold, LoanTold
  <1>3. CASE i = n
    <2>1. CASE r.kind = "register_in"
      BY <1>1, <1>new, <1>3, <2>1 DEF TagTold, LoanTold
    <2>2. CASE r.kind \in {"tag_bind", "tag_rebind"}
      <3>1. assets'[id].epc = r.epc
        BY <1>1, <1>row, <1>type, <2>2 DEF Written, DeskTypeOK, AssetRows
      <3> QED BY <1>new, <1>3, <2>2, <3>1 DEF TagTold, LoanTold, IsLastOf, LoanKinds
    <2>3. CASE r.kind = "tag_unbind"
      <3>1. assets'[id].epc = NoEpc
        BY <1>1, <1>row, <1>type, <2>3 DEF Written, DeskTypeOK, AssetRows
      <3> QED BY <1>new, <1>3, <2>3, <3>1 DEF TagTold, LoanTold, IsLastOf, LoanKinds
    <2>4. CASE r.kind \in {"take_out", "return"}
      <3>1. (assets'[id].status = "checked_out") <=> (r.kind = "take_out")
        BY <1>1, <1>row, <1>type, <2>4 DEF Written, DeskTypeOK, AssetRows
      <3> QED BY <1>new, <1>3, <2>4, <3>1 DEF TagTold, LoanTold, IsLastOf, TagKinds
    <2>5. CASE r.kind \in {"manual_edit", "delete"}
      BY <1>new, <1>3, <2>5 DEF IsLastOf, TagKinds, LoanKinds
    <2> QED BY <1>type, <2>1, <2>2, <2>3, <2>4, <2>5, RequestFields, <1>1
  <1>4. CASE log'[i].id = id /\ i # n
    <2>1. i \in 1..Len(log) /\ log'[i] = log[i] /\ i < n
      BY <1>1, <1>4
    <2>2. /\ IsLastOf(i, TagKinds)' => IsLastOf(i, TagKinds) /\ r.kind \notin TagKinds
          /\ IsLastOf(i, LoanKinds)' => IsLastOf(i, LoanKinds) /\ r.kind \notin LoanKinds
      BY <1>1, <1>new, <1>4, <2>1 DEF IsLastOf
    <2>3. CASE r.kind = "register_in"
      BY <2>2, <2>3 DEF TagKinds, LoanKinds
    <2>4. CASE r.kind # "register_in"
      <3>1. assets' = Written(r) /\ id = r.id /\ (r.kind # "delete" => id \in Existing)
        BY <1>1, <2>4
      <3>2. CASE r.kind = "delete"
        <4>1. assets'[id] = NoAsset
          BY <3>1, <3>2, <1>type DEF Written, DeskTypeOK
        <4> QED BY <4>1, <1>4 DEF Existing
      <3>3. CASE r.kind # "delete"
        <4>1. r.kind \notin TagKinds => assets'[id].epc = assets[id].epc
          BY <1>1, <1>row, <1>type, <2>4, <3>1, <3>3 DEF Written, TagKinds, DeskTypeOK, AssetRows
        <4>2. r.kind \notin LoanKinds => assets'[id].status = assets[id].status
          BY <1>1, <1>row, <1>type, <2>4, <3>1, <3>3 DEF Written, LoanKinds, DeskTypeOK, AssetRows
        <4>3. /\ IsLastOf(i, TagKinds) => TagTold(i)
              /\ IsLastOf(i, LoanKinds) => LoanTold(i)
          BY <1>type, <1>1, <1>4, <2>1, <3>1, <3>3 DEF RowsTell
        <4> QED BY <1>4, <2>1, <2>2, <4>1, <4>2, <4>3 DEF TagTold, LoanTold
      <3> QED BY <3>2, <3>3
    <2> QED BY <2>3, <2>4
  <1> QED BY <1>2, <1>3, <1>4

LEMMA CommitKeepsLoansAlternating ==
    ASSUME LoanInv, NEW o \in Operators, Commit(o), request[o].kind # "slot_tag"
    PROVE  LoansAlternate'
  <1> DEFINE r == request[o]
             n == Len(log) + 1
  <1>1. PICK id \in AssetIds :
          /\ Len(log) \in Nat /\ DOMAIN log = 1..Len(log) /\ DOMAIN log' = 1..n
          /\ \A i \in 1..Len(log) : log'[i] = log[i]
          /\ log'[n] = Row(r, id)
          /\ r.kind # "register_in" => id = r.id
          /\ r.kind \notin {"register_in", "delete"} => id \in Existing
    BY CommitOfAsset DEF LoanInv
  <1>2. racedIds \subseteq racedIds' /\ r \in Requests
    BY CommitRaces DEF LoanInv
  <1> SUFFICES ASSUME NEW i \in 1..n, NEW j \in 1..n, i < j,
                      log'[i].kind = log'[j].kind, log'[i].kind \in {"take_out", "return"},
                      log'[i].id = log'[j].id, log'[i].id \notin racedIds',
                      \A k \in i + 1..j - 1 :
                        log'[k].id = log'[i].id => log'[k].kind \notin LoanKinds
               PROVE  FALSE
    BY <1>1 DEF LoansAlternate
  <1>3. i \in 1..Len(log) /\ log'[i] = log[i]
    BY <1>1
  <1>4. CASE j \in 1..Len(log)
    <2>1. log'[j] = log[j] /\ \A k \in i + 1..j - 1 : log'[k] = log[k]
      BY <1>1, <1>3, <1>4
    <2> QED BY <1>1, <1>2, <1>3, <1>4, <2>1 DEF LoanInv, LoansAlternate
  <1>5. CASE j = n
    <2>1. r.kind = log[i].kind /\ id = log[i].id /\ r.kind \in {"take_out", "return"}
      BY <1>1, <1>3, <1>5 DEF Row
    <2>2. IsLastOf(i, LoanKinds)
      <3> SUFFICES ASSUME NEW k \in 1..Len(log), k > i, log[k].id = log[i].id
                   PROVE  log[k].kind \notin LoanKinds
        BY <1>1, <1>3, <2>1 DEF IsLastOf, LoanKinds
      <3>1. k \in i + 1..j - 1 /\ log'[k] = log[k]
        BY <1>1, <1>3, <1>5
      <3> QED BY <1>3, <3>1
    <2>3. id = r.id /\ id \in Existing /\ id \notin racedIds
      BY <1>1, <1>2, <1>3, <2>1
    <2>4. LoanTold(i)
      BY <1>1, <1>3, <2>1, <2>2, <2>3 DEF LoanInv, RowsTell
    <2>5. /\ r.kind = "take_out" => assets[id].status = "in_stock"
          /\ r.kind = "return" => assets[id].status = "checked_out"
      BY <2>3, <1>2, RequestFields DEF LoanInv, StillLendable
    <2> QED BY <2>1, <2>4, <2>5 DEF LoanTold
  <1> QED BY <1>1, <1>4, <1>5

LEMMA CommitKeepsLendable ==
    ASSUME LoanInv, NEW o \in Operators, Commit(o)
    PROVE  StillLendable'
  <1> DEFINE r == request[o]
  <1>type. DeskTypeOK /\ r \in Requests /\ request' = [request EXCEPT ![o] = NoRequest]
    BY CommitRaces DEF LoanInv
  <1> SUFFICES ASSUME NEW p \in Operators, request'[p] # NoRequest,
                      request'[p].id \notin racedIds'
               PROVE  /\ request'[p].kind = "take_out" =>
                           request'[p].id \in Existing'
                             /\ assets'[request'[p].id].status = "in_stock"
                      /\ request'[p].kind = "return" =>
                           request'[p].id \in Existing'
                             /\ assets'[request'[p].id].status = "checked_out"
    BY DEF StillLendable
  <1>1. p # o /\ request'[p] = request[p] /\ request[p] \in Requests
    BY <1>type DEF DeskTypeOK
  <1>2. CASE request[p].kind \in {"take_out", "return"}
    <2> DEFINE id == request[p].id
    <2>1. id \in AssetIds /\ id \notin racedIds /\ r.id # id
      BY <1>type, <1>1, <1>2, RequestFields, CommitRaces
    <2>2. /\ id \in Existing
          /\ request[p].kind = "take_out" => assets[id].status = "in_stock"
          /\ request[p].kind = "return" => assets[id].status = "checked_out"
      BY <1>1, <1>2, <2>1 DEF LoanInv, StillLendable
    <2>3. assets'[id] = assets[id]
      <3>1. CASE r.kind = "slot_tag"
        BY <3>1 DEF Commit
      <3>2. CASE r.kind # "slot_tag"
        BY <1>type, <2>1, <2>2, <3>2, CommitOfAsset
      <3> QED BY <3>1, <3>2
    <2> QED BY <1>1, <2>1, <2>2, <2>3 DEF Existing
  <1> QED BY <1>1, <1>2

LEMMA LoanStep == LoanInv /\ [DeskNext]_deskVars => LoanInv'
  <1> SUFFICES ASSUME LoanInv, [DeskNext]_deskVars PROVE LoanInv'
    OBVIOUS
  <1>type. DeskTypeOK /\ DeskTypeOK'
    BY DeskTypeStep DEF LoanInv
  <1>same. UNCHANGED <<assets, log, racedIds>> => RowsTell' /\ LoansAlternate'
    BY DEF LoanInv, RowsTell, LoansAlternate, IsLastOf, TagTold, LoanTold, Existing
  <1>1. ASSUME NEW o \in Operators, ReadRegister(o) \/ ReadAsset(o) \/ ReadSlotTag(o)
        PROVE  LoanInv'
    <2>1. UNCHANGED <<assets, log, racedIds>>
      BY <1>type, <1>1, AsksWhatIsFree
    <2>2. PICK r \in Requests :
             /\ request' = [request EXCEPT ![o] = r]
             /\ r.kind = "take_out" => r.id \in Existing /\ assets[r.id].status = "in_stock"
             /\ r.kind = "return" => r.id \in Existing /\ assets[r.id].status = "checked_out"
      BY <1>type, <1>1, AsksWhatIsFree
    <2>3. StillLendable'
      BY <1>type, <2>1, <2>2 DEF LoanInv, StillLendable, Existing, DeskTypeOK
    <2> QED BY <1>type, <1>same, <2>1, <2>3 DEF LoanInv
  <1>2. ASSUME NEW o \in Operators, Commit(o) PROVE LoanInv'
    <2>1. CASE request[o].kind = "slot_tag"
      <3>1. UNCHANGED <<assets, log>> /\ racedIds \subseteq racedIds'
        BY <1>2, <2>1 DEF Commit
      <3>2. RowsTell' /\ LoansAlternate'
        BY <3>1 DEF LoanInv, RowsTell, LoansAlternate, IsLastOf, TagTold, LoanTold, Existing
      <3> QED BY <1>type, <1>2, <3>2, CommitKeepsLendable DEF LoanInv
    <2>2. CASE request[o].kind # "slot_tag"
      BY <1>type, <1>2, <2>2, CommitKeepsLendable, CommitKeepsRowsTelling,
         CommitKeepsLoansAlternating DEF LoanInv
    <2> QED BY <2>1, <2>2
  <1>3. ASSUME NEW o \in Operators, Fails(o) PROVE LoanInv'
    <2>1. StillLendable'
      BY <1>type, <1>3 DEF Fails, LoanInv, StillLendable, Existing, DeskTypeOK
    <2> QED BY <1>type, <1>same, <1>3, <2>1 DEF Fails, LoanInv
  <1>4. ASSUME UNCHANGED <<assets, log, racedIds, request>> PROVE LoanInv'
    <2>1. StillLendable'
      BY <1>4 DEF LoanInv, StillLendable, Existing
    <2> QED BY <1>type, <1>same, <1>4, <2>1 DEF LoanInv
  <1>5. ASSUME NEW e \in Epcs \cup {NoEpc},
               \/ \E c \in Cabinets : PatchCabinet(c, e)
               \/ \E s \in Slots : PatchSlot(s, e)
        PROVE  LoanInv'
    BY <1>4, <1>5 DEF PatchCabinet, PatchSlot
  <1>6. CASE ClearLog
    <2>1. RowsTell' /\ LoansAlternate'
      BY <1>6 DEF ClearLog, RowsTell, LoansAlternate
    <2>2. StillLendable'
      BY <1>6 DEF ClearLog, LoanInv, StillLendable, Existing
    <2> QED BY <1>type, <2>1, <2>2 DEF LoanInv
  <1>7. CASE UNCHANGED deskVars
    BY <1>4, <1>7 DEF deskVars
  <1> QED
    BY <1>1, <1>2, <1>3, <1>5, <1>6, <1>7 DEF DeskNext

LEMMA LoanInvCorrect == DeskSpec => []LoanInv
  <1>1. DeskInit => LoanInv
    BY DEF DeskInit, LoanInv, DeskTypeOK, RowsTell, StillLendable, LoansAlternate
  <1> QED
    BY <1>1, LoanStep, PTL DEF DeskSpec

(* LastRow finds the last row, if there is one.                            *)
LEMMA LastRowIsLast ==
    ASSUME DeskTypeOK, NEW id, NEW kinds, LastRow(id, kinds) # 0
    PROVE  /\ IsLastOf(LastRow(id, kinds), kinds)
           /\ log[LastRow(id, kinds)].id = id
  <1> DEFINE rows == {i \in DOMAIN log : log[i].id = id /\ log[i].kind \in kinds}
             last == CHOOSE i \in rows : \A j \in rows : j <= i
  <1>1. Len(log) \in Nat /\ rows \subseteq 1..Len(log)
    BY DEF DeskTypeOK
  <1>2. rows # {} /\ LastRow(id, kinds) = last
    BY DEF LastRow
  <1>3. \E i \in rows : \A j \in rows : j <= i
    <2> HIDE DEF rows
    <2> QED BY <1>1, <1>2, LargestExists
  <1>4. last \in rows /\ \A j \in rows : j <= last
    BY <1>3
  <1> HIDE DEF last
  <1>5. ASSUME NEW j \in DOMAIN log, j > last, log[j].id = log[last].id
        PROVE  log[j].kind \notin kinds
    <2>1. j \in Nat /\ last \in Nat
      BY <1>1, <1>4 DEF DeskTypeOK
    <2> QED BY <1>4, <1>5, <2>1
  <1> QED BY <1>2, <1>4, <1>5 DEF IsLastOf

(* However requests overlap, an asset's tag and its loan are what the last *)
(* rows about it say, although the ids of deleted assets come back.        *)
THEOREM LogTellsAssetHolds == DeskSpec => []LogTellsAsset
  <1>1. LoanInv => LogTellsAsset
    <2> SUFFICES ASSUME LoanInv, NEW id \in Existing
                 PROVE  /\ LastRow(id, TagKinds) # 0 => TagTold(LastRow(id, TagKinds))
                        /\ LastRow(id, TagKinds) # 0 =>
                             log[LastRow(id, TagKinds)].id = id
                        /\ LastRow(id, LoanKinds) # 0 => LoanTold(LastRow(id, LoanKinds))
                        /\ LastRow(id, LoanKinds) # 0 =>
                             log[LastRow(id, LoanKinds)].id = id
      BY DEF LogTellsAsset, TagTold, LoanTold
    <2> QED BY LastRowIsLast DEF LoanInv, RowsTell, IsLastOf
  <1> QED
    BY <1>1, LoanInvCorrect, PTL

(* No asset is lent twice, nor returned twice, in a row, unless requests   *)
(* about it overlapped.                                                    *)
THEOREM LoansAlternateHolds == DeskSpec => []LoansAlternate
  <1>1. LoanInv => LoansAlternate
    BY DEF LoanInv
  <1> QED
    BY <1>1, LoanInvCorrect, PTL
=============================================================================
