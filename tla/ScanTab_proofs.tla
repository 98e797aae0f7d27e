---------------------------- MODULE ScanTab_proofs ----------------------------
(***************************************************************************)
(* What holds of a tab for any number of reads, assets and requests.       *)
(***************************************************************************)
EXTENDS ScanTab, TLAPS

-----------------------------------------------------------------------------
(* The loan dialog.                                                        *)

\* The fields are those of the dialog's asset as long as they count as filled
\* in, and what is on the screen has an asset behind it.
DialogInv ==
    /\ DialogTypeOK
    /\ dialog.filled => written = dialog.asset
    /\ screen # NoOne => dialog.asset # NoOne
    /\ TakeOutNamesItsAsset
    /\ SilentOnlyWhileAsking

LEMMA DialogInitInv == DialogInit => DialogInv
  <1> SUFFICES ASSUME DialogInit PROVE DialogInv
    OBVIOUS
  <1>1. dialog \in [open : BOOLEAN, asset : Assets \cup {NoOne}, mode : Modes,
                    filled : BOOLEAN]
    BY DEF DialogInit, Modes
  <1>2. looking \in [Assets -> Statuses \cup {"no"}]
    BY DEF DialogInit
  <1> QED BY <1>1, <1>2 DEF DialogInit, DialogInv, DialogTypeOK,
             TakeOutNamesItsAsset, SilentOnlyWhileAsking

LEMMA DialogStepInv == DialogInv /\ DialogNext => DialogInv'
  <1> SUFFICES ASSUME DialogInv, DialogNext PROVE DialogInv'
    OBVIOUS
  <1> USE DialogAssumption
      DEF DialogInv, DialogTypeOK, TakeOutNamesItsAsset, SilentOnlyWhileAsking,
          Statuses, Modes
  <1>1. ASSUME NEW a \in Assets, TagSeen(a) PROVE DialogInv'
    BY <1>1 DEF TagSeen
  <1>2. ASSUME NEW a \in Assets, AssetFound(a) PROVE DialogInv'
    <2>1. CASE looking[a] = "maintenance"
      BY <1>2, <2>1 DEF AssetFound
    <2>2. CASE looking[a] # "maintenance"
      <3>1. /\ dialog' \in [open : BOOLEAN, asset : Assets \cup {NoOne}, mode : Modes,
                            filled : BOOLEAN]
            /\ dialog'.asset = a /\ ~dialog'.filled
        <4> DEFINE mode == IF looking[a] = "in_stock" THEN "take_out" ELSE "return"
        <4>1. mode \in Modes /\ dialog' = Opened(a, mode)
          BY <1>2, <2>2 DEF AssetFound
        <4> HIDE DEF mode
        <4> QED BY <4>1 DEF Opened
      <3> QED BY <1>2, <2>2, <3>1 DEF AssetFound
    <2> QED BY <2>1, <2>2
  <1>3. ASSUME NEW a \in Assets, LookupFails(a) PROVE DialogInv'
    BY <1>3 DEF LookupFails
  <1>4. ASSUME NEW a \in Assets, TwoSecondsPass(a) PROVE DialogInv'
    BY <1>4 DEF TwoSecondsPass
  <1>5. ASSUME NEW a \in Assets, Elsewhere(a) PROVE DialogInv'
    BY <1>5 DEF Elsewhere
  <1>6. CASE ScreenFollows
    BY <1>6 DEF ScreenFollows
  <1>7. CASE ClickBeside
    BY <1>7 DEF ClickBeside
  <1>8. CASE HideArrives
    BY <1>8 DEF HideArrives, AfterHide
  <1>9. CASE FillIn
    BY <1>9 DEF FillIn
  <1>10. CASE Submit
    <2>1. [mode |-> dialog.mode, asset |-> dialog.asset,
           meant |-> IF dialog.mode = "take_out" THEN written ELSE screen] \in Requests
      BY <1>10 DEF Submit, Requests
    <2> QED BY <1>10, <2>1 DEF Submit
  <1>11. ASSUME NEW r \in sent, Accepted(r) PROVE DialogInv'
    <2>1. r.asset \in Assets
      BY DEF Requests
    <2> QED BY <1>11, <2>1 DEF Accepted
  <1>12. ASSUME NEW r \in sent, Refused(r) PROVE DialogInv'
    BY <1>12 DEF Refused
  <1>13. CASE Dismiss
    BY <1>13 DEF Dismiss
  <1> QED BY <1>1, <1>2, <1>3, <1>4, <1>5, <1>6, <1>7, <1>8, <1>9, <1>10, <1>11,
             <1>12, <1>13 DEF DialogNext

-----------------------------------------------------------------------------
(* The form that takes a tag.                                              *)

RowsUpTo(n) == {rows[i] : i \in 1..n}

\* Rows are new when they are written; what the table held at the last press
\* lies below the baseline; a page that listens has taken nothing, and one
\* that has taken two tags has no answer to wait for.
CaptureInv ==
    /\ CaptureTypeOK
    /\ \A i \in DOMAIN rows : rows[i] \notin unsaved
    /\ press # None => /\ press.failed \in BOOLEAN
                       /\ press.failed \/ press.held \subseteq RowsUpTo(press.upto)
    /\ old \subseteq RowsUpTo(baseline)
    /\ listening => taken = 0
    /\ ReplacedAtMostOnce
    /\ taken = 2 => poll = None

LEMMA CaptureInitInv == CaptureInit => CaptureInv
  <1> SUFFICES ASSUME CaptureInit PROVE CaptureInv
    OBVIOUS
  <1>1. DOMAIN rows = {} /\ Len(rows) = 0 /\ rows \in Seq(1..reads)
    BY DEF CaptureInit
  <1>2. RowsUpTo(0) = {}
    BY DEF RowsUpTo
  <1>3. CaptureTypeOK
    <2>1. open \in BOOLEAN
      BY DEF CaptureInit
    <2>2. reads \in RowIds /\ unsaved \subseteq 1..reads /\ baseline \in 0..Len(rows)
      BY <1>1, CaptureAssumption DEF CaptureInit, RowIds
    <2>3. rows \in Seq(1..reads)
          /\ \A i, j \in DOMAIN rows : rows[i] = rows[j] => i = j
      BY <1>1
    <2> QED BY <2>1, <2>2, <2>3 DEF CaptureInit, CaptureTypeOK, Empty
  <1> QED BY <1>1, <1>2, <1>3 DEF CaptureInit, CaptureInv, ReplacedAtMostOnce

\* What the rows up to n are does not change when a row is appended.
LEMMA AppendKeeps ==
    ASSUME CaptureTypeOK, NEW n, Save(n)
    PROVE  /\ rows' \in Seq(1..reads) /\ Len(rows') = Len(rows) + 1
           /\ \A i \in 1..Len(rows) : rows'[i] = rows[i]
           /\ rows'[Len(rows) + 1] = n
           /\ \A m \in 0..Len(rows) : RowsUpTo(m)' = RowsUpTo(m)
  <1>1. n \in 1..reads
    BY DEF Save, CaptureTypeOK
  <1>2. /\ rows' \in Seq(1..reads) /\ Len(rows') = Len(rows) + 1
        /\ \A i \in 1..Len(rows) : rows'[i] = rows[i]
        /\ rows'[Len(rows) + 1] = n
    BY <1>1 DEF Save, CaptureTypeOK
  <1>3. \A m \in 0..Len(rows) : \A i \in 1..m : rows'[i] = rows[i]
    <2>1. Len(rows) \in Nat
      BY DEF CaptureTypeOK
    <2> QED BY <1>2, <2>1
  <1>4. ASSUME NEW m \in 0..Len(rows) PROVE RowsUpTo(m)' = RowsUpTo(m)
    BY <1>3 DEF RowsUpTo
  <1> QED BY <1>2, <1>4

\* The first of the new rows: it is one, and it lies beyond the baseline.
LEMMA FirstNewRow ==
    ASSUME CaptureTypeOK, poll # None, NewRows # {}
    PROVE  LET first == CHOOSE id \in NewRows : \A other \in NewRows : id <= other
           IN first \in 1..Len(rows) /\ first > baseline
  <1>1. /\ poll.after \in 0..poll.upto /\ poll.upto \in 0..Len(rows)
        /\ baseline \in 0..Len(rows) /\ Len(rows) \in Nat
    BY DEF CaptureTypeOK
  <1> DEFINE least == IF poll.after < baseline THEN baseline + 1 ELSE poll.after + 1
  <1>2. least \in NewRows /\ \A other \in NewRows : least <= other
    BY <1>1 DEF NewRows
  <1>3. \E id \in NewRows : \A other \in NewRows : id <= other
    BY <1>2
  <1>4. (CHOOSE id \in NewRows : \A other \in NewRows : id <= other) \in NewRows
    BY <1>3
  <1>5. \A id \in NewRows : id \in 1..Len(rows) /\ id > baseline
    BY <1>1 DEF NewRows
  <1> QED BY <1>4, <1>5

LEMMA CaptureStepInv == CaptureInv /\ CaptureNext => CaptureInv'
  <1> SUFFICES ASSUME CaptureInv, CaptureNext PROVE CaptureInv'
    OBVIOUS
  <1>len. Len(rows) \in Nat /\ DOMAIN rows = 1..Len(rows) /\ reads \in Nat
    BY CaptureAssumption DEF CaptureInv, CaptureTypeOK, RowIds
  <1>1. CASE Read
    <2>1. /\ reads' = reads + 1 /\ reads' \in RowIds /\ unsaved' \subseteq 1..reads'
          /\ 1..reads \subseteq 1..reads' /\ rows \in Seq(1..reads')
      <3>1. reads' = reads + 1 /\ reads' \in RowIds /\ 1..reads \subseteq 1..reads'
        BY <1>1, <1>len, CaptureAssumption DEF Read, RowIds
      <3>2. reads + 1 \in 1..reads' /\ unsaved \subseteq 1..reads'
        BY <3>1, <1>len DEF CaptureInv, CaptureTypeOK
      <3> QED BY <3>1, <3>2, <1>1, <1>len DEF Read, CaptureInv, CaptureTypeOK
    <2>2. \A i \in DOMAIN rows : rows[i] \notin unsaved'
      <3>1. \A i \in DOMAIN rows : rows[i] \in 1..reads
        BY <1>len DEF CaptureInv, CaptureTypeOK
      <3> QED BY <3>1, <1>1, <1>len DEF Read, CaptureInv
    <2>3. /\ field' \in {Empty, Typed} \cup 1..reads' /\ listening' \in BOOLEAN
          /\ taken' \in 0..2 /\ (listening' => taken' = 0)
          /\ (taken' = 2 => poll = None)
      <3>1. CASE subscribed /\ listening /\ open
        <4>1. field' = reads + 1 /\ listening' = FALSE /\ taken' = taken + 1
          BY <1>1, <3>1 DEF Read, Live, Take
        <4>2. taken = 0
          BY <3>1 DEF CaptureInv
        <4>3. field' \in 1..reads'
          BY <4>1, <2>1, <1>len
        <4>4. taken' = 1
          BY <4>1, <4>2
        <4>5. taken' \in 0..2 /\ taken' # 2
          BY <4>4
        <4>6. listening' \in BOOLEAN /\ ~listening'
          BY <4>1
        <4> QED BY <4>3, <4>5, <4>6
      <3>2. CASE ~(subscribed /\ listening /\ open)
        BY <1>1, <3>2, <2>1, <1>len
           DEF Read, Live, Take, CaptureInv, CaptureTypeOK, ReplacedAtMostOnce
      <3> QED BY <3>1, <3>2
    <2>4. /\ rows' = rows /\ page' = page /\ subscribed' = subscribed /\ open' = open
          /\ baseline' = baseline /\ press' = press /\ poll' = poll /\ old' = old
      BY <1>1 DEF Read
    <2>5. CaptureTypeOK'
      BY <2>1, <2>3, <2>4 DEF CaptureInv, CaptureTypeOK, Empty, Typed
    <2> QED BY <2>2, <2>3, <2>4, <2>5 DEF CaptureInv, ReplacedAtMostOnce, RowsUpTo
  <1>2. ASSUME NEW n \in unsaved, Save(n) PROVE CaptureInv'
    <2>1. CaptureTypeOK
      BY DEF CaptureInv
    <2>2. /\ rows' \in Seq(1..reads) /\ Len(rows') = Len(rows) + 1
          /\ \A i \in 1..Len(rows) : rows'[i] = rows[i]
          /\ rows'[Len(rows) + 1] = n
          /\ \A m \in 0..Len(rows) : RowsUpTo(m)' = RowsUpTo(m)
      BY <2>1, <1>2, AppendKeeps
    <2>3. /\ unsaved' = unsaved \ {n}
          /\ reads' = reads /\ page' = page /\ subscribed' = subscribed
          /\ open' = open /\ listening' = listening /\ baseline' = baseline
          /\ field' = field /\ press' = press /\ poll' = poll /\ old' = old
          /\ taken' = taken
      BY <1>2 DEF Save, pageVars
    <2>4. DOMAIN rows' = 1..Len(rows) + 1
      BY <2>2
    <2>5. \A i \in 1..Len(rows) : rows[i] # n
      BY <1>len DEF CaptureInv
    <2>6. /\ \A i, j \in DOMAIN rows' : rows'[i] = rows'[j] => i = j
          /\ \A i \in DOMAIN rows' : rows'[i] \notin unsaved'
      <3>1. /\ \A i, j \in 1..Len(rows) : rows[i] = rows[j] => i = j
            /\ \A i \in 1..Len(rows) : rows[i] \notin unsaved
        BY <1>len DEF CaptureInv, CaptureTypeOK
      <3>2. \A i \in 1..Len(rows) + 1 : i \in 1..Len(rows) \/ i = Len(rows) + 1
        BY <1>len
      <3>3. \A i, j \in 1..Len(rows) + 1 : rows'[i] = rows'[j] => i = j
        BY <2>2, <2>5, <3>1, <3>2
      <3>4. \A i \in 1..Len(rows) + 1 : rows'[i] \notin unsaved'
        BY <2>2, <2>3, <3>1, <3>2
      <3> QED BY <2>4, <3>3, <3>4
    <2>7. 0..Len(rows) \subseteq 0..Len(rows')
      BY <2>2, <1>len
    <2>8. CaptureTypeOK'
      BY <2>1, <2>2, <2>3, <2>6, <2>7 DEF CaptureTypeOK, Empty, Typed
    <2>9. press # None => RowsUpTo(press.upto)' = RowsUpTo(press.upto)
      BY <2>1, <2>2, <2>3 DEF CaptureTypeOK
    <2>10. RowsUpTo(baseline)' = RowsUpTo(baseline)
      BY <2>1, <2>2, <2>3 DEF CaptureTypeOK
    <2> QED BY <2>3, <2>6, <2>8, <2>9, <2>10 DEF CaptureInv, ReplacedAtMostOnce
  <1>3. ASSUME NEW n \in unsaved, SaveFails(n) PROVE CaptureInv'
    BY <1>3, <1>len
       DEF SaveFails, pageVars, CaptureInv, CaptureTypeOK, ReplacedAtMostOnce, RowsUpTo
  <1>4. CASE Disconnect
    BY <1>4, <1>len
       DEF Disconnect, pageVars, CaptureInv, CaptureTypeOK, ReplacedAtMostOnce, RowsUpTo
  <1>5. CASE PressListen
    <2>1. PICK newest \in {Len(rows), 0} :
             press' = [upto |-> newest, failed |-> newest < Len(rows),
                       held |-> {rows[i] : i \in DOMAIN rows}]
      BY <1>5 DEF PressListen
    <2>2. press'.upto \in 0..Len(rows) /\ press'.failed \in BOOLEAN
      BY <2>1, <1>len
    <2>3. press'.failed \/ press'.held \subseteq RowsUpTo(press'.upto)
      <3>1. CASE newest = Len(rows)
        BY <2>1, <3>1, <1>len DEF RowsUpTo
      <3>2. CASE newest # Len(rows)
        <4>1. newest < Len(rows)
          BY <3>2, <1>len
        <4> QED BY <2>1, <4>1
      <3> QED BY <3>1, <3>2
    <2>4. /\ reads' = reads /\ unsaved' = unsaved /\ rows' = rows /\ page' = page
          /\ subscribed' = subscribed /\ open' = open /\ listening' = listening
          /\ baseline' = baseline /\ field' = field /\ poll' = poll /\ old' = old
          /\ taken' = taken
      BY <1>5 DEF PressListen
    <2> QED BY <2>2, <2>3, <2>4 DEF CaptureInv, CaptureTypeOK, ReplacedAtMostOnce, RowsUpTo
  <1>6. CASE StartListening
    <2>1. /\ baseline' = press.upto /\ baseline' \in 0..Len(rows)
          /\ old' \subseteq RowsUpTo(baseline') /\ old' \subseteq 1..reads
      <3>1. /\ baseline' = press.upto /\ baseline' \in 0..Len(rows)
            /\ old' \subseteq RowsUpTo(baseline')
        BY <1>6 DEF StartListening, CaptureInv, CaptureTypeOK
      <3>2. RowsUpTo(baseline') \subseteq 1..reads
        BY <3>1, <1>len DEF RowsUpTo, CaptureInv, CaptureTypeOK
      <3> QED BY <3>1, <3>2
    <2>2. field' \in {Empty, Typed} \cup 1..reads
      BY <1>6 DEF StartListening, CaptureInv, CaptureTypeOK
    <2>3. /\ press' = None /\ listening' = TRUE /\ taken' = 0
          /\ reads' = reads /\ unsaved' = unsaved /\ rows' = rows /\ page' = page
          /\ subscribed' = subscribed /\ open' = open /\ poll' = poll
      BY <1>6 DEF StartListening
    <2> QED BY <2>1, <2>2, <2>3 DEF CaptureInv, CaptureTypeOK, ReplacedAtMostOnce, RowsUpTo
  <1>7. CASE PollAsks
    <2>1. poll'.after \in 0..poll'.upto /\ poll'.upto \in 0..Len(rows)
      BY <1>7, <1>len DEF PollAsks, AfterId, CaptureInv, CaptureTypeOK
    <2>2. taken = 0
      BY <1>7 DEF PollAsks, MayPoll, CaptureInv
    <2>3. /\ reads' = reads /\ unsaved' = unsaved /\ rows' = rows /\ page' = page
          /\ subscribed' = subscribed /\ open' = open /\ listening' = listening
          /\ baseline' = baseline /\ field' = field /\ press' = press /\ old' = old
          /\ taken' = taken
      BY <1>7 DEF PollAsks
    <2> QED BY <2>1, <2>2, <2>3 DEF CaptureInv, CaptureTypeOK, ReplacedAtMostOnce, RowsUpTo
  <1>8. CASE PollAnswered
    <2>1. CASE NewRows = {}
      BY <1>8, <2>1, <1>len
         DEF PollAnswered, CaptureInv, CaptureTypeOK, ReplacedAtMostOnce, RowsUpTo
    <2>2. CASE NewRows # {}
      <3> DEFINE first == CHOOSE id \in NewRows : \A other \in NewRows : id <= other
      <3>1. first \in 1..Len(rows) /\ first > baseline
        BY <1>8, <2>2, FirstNewRow DEF PollAnswered, CaptureInv
      <3>2. /\ baseline' = first /\ field' = rows[first] /\ listening' = FALSE
            /\ taken' = taken + 1 /\ poll' = None
            /\ reads' = reads /\ unsaved' = unsaved /\ rows' = rows /\ page' = page
            /\ subscribed' = subscribed /\ open' = open /\ press' = press /\ old' = old
        BY <1>8, <2>2 DEF PollAnswered, Take
      <3>3. taken \in 0..1
        BY <1>8 DEF PollAnswered, CaptureInv, CaptureTypeOK, ReplacedAtMostOnce
      <3> HIDE DEF first
      <3>4. rows[first] \in 1..reads /\ first \in 0..Len(rows)
        BY <3>1, <1>len DEF CaptureInv, CaptureTypeOK
      <3>5. RowsUpTo(baseline) \subseteq RowsUpTo(first)
        BY <3>1, <1>len DEF RowsUpTo, CaptureInv, CaptureTypeOK
      <3>6. CaptureTypeOK'
        <4>1. /\ reads' \in RowIds /\ unsaved' \subseteq 1..reads'
              /\ rows' \in Seq(1..reads')
              /\ \A i, j \in DOMAIN rows' : rows'[i] = rows'[j] => i = j
          BY <3>2 DEF CaptureInv, CaptureTypeOK
        <4>2. /\ page' \in Pages /\ subscribed' \in BOOLEAN /\ open' \in BOOLEAN
              /\ listening' \in BOOLEAN /\ old' \subseteq 1..reads'
          BY <3>2 DEF CaptureInv, CaptureTypeOK
        <4>3. /\ baseline' \in 0..Len(rows') /\ taken' \in Nat
              /\ field' \in {Empty, Typed} \cup 1..reads'
          BY <3>2, <3>3, <3>4
        <4>4. press' = None \/ press'.upto \in 0..Len(rows')
          BY <3>2 DEF CaptureInv, CaptureTypeOK
        <4> QED BY <4>1, <4>2, <4>3, <4>4, <3>2 DEF CaptureTypeOK
      <3>7. RowsUpTo(baseline)' = RowsUpTo(first)
        BY <3>2 DEF RowsUpTo
      <3>8. press # None => RowsUpTo(press.upto)' = RowsUpTo(press.upto)
        BY <3>2 DEF RowsUpTo
      <3> QED BY <3>2, <3>3, <3>5, <3>6, <3>7, <3>8 DEF CaptureInv, ReplacedAtMostOnce
    <2> QED BY <2>1, <2>2
  <1>9. CASE PollFails
    BY <1>9, <1>len
       DEF PollFails, CaptureInv, CaptureTypeOK, ReplacedAtMostOnce, RowsUpTo
  <1>10. CASE TypeTag
    BY <1>10, <1>len
       DEF TypeTag, CaptureInv, CaptureTypeOK, ReplacedAtMostOnce, RowsUpTo
  <1>11. CASE CloseDialog
    BY <1>11, <1>len
       DEF CloseDialog, CaptureInv, CaptureTypeOK, ReplacedAtMostOnce, RowsUpTo
  <1>12. CASE OpenDialog
    BY <1>12, <1>len
       DEF OpenDialog, CaptureInv, CaptureTypeOK, ReplacedAtMostOnce, RowsUpTo
  <1> QED BY <1>1, <1>2, <1>3, <1>4, <1>5, <1>6, <1>7, <1>8, <1>9, <1>10, <1>11,
             <1>12 DEF CaptureNext

-----------------------------------------------------------------------------
(* The tab.                                                                *)

LEMMA TabInvariant == TabSpec => [](CaptureInv /\ DialogInv)
  <1>1. TabInit => CaptureInv /\ DialogInv
    BY CaptureInitInv, DialogInitInv DEF TabInit
  <1>2. CaptureInv /\ UNCHANGED captureVars => CaptureInv'
    <2> SUFFICES ASSUME CaptureInv, UNCHANGED captureVars PROVE CaptureInv'
      OBVIOUS
    <2> QED BY DEF captureVars, CaptureInv, CaptureTypeOK, ReplacedAtMostOnce, RowsUpTo
  <1>3. DialogInv /\ UNCHANGED dialogVars => DialogInv'
    <2> SUFFICES ASSUME DialogInv, UNCHANGED dialogVars PROVE DialogInv'
      OBVIOUS
    <2> QED BY DEF dialogVars, DialogInv, DialogTypeOK, TakeOutNamesItsAsset,
               SilentOnlyWhileAsking
  <1>4. CaptureInv /\ DialogInv /\ [TabNext]_tabVars => CaptureInv' /\ DialogInv'
    BY <1>2, <1>3, CaptureStepInv, DialogStepInv DEF TabNext, tabVars
  <1> QED BY <1>1, <1>4, PTL DEF TabSpec

\* The form's variables hold what their types say, for any number of reads: the
\* baseline and every request stay within the table rfid_events, and no read is
\* written to it twice (_persist_rfid_event, capture_tag, poll_rfid).
THEOREM CaptureTyped == TabSpec => []CaptureTypeOK
  <1>1. CaptureInv => CaptureTypeOK
    BY DEF CaptureInv
  <1> QED BY <1>1, TabInvariant, PTL

\* The loan dialog's variables hold what their types say; a dialog that is on
\* the screen always has an asset (asset_confirm.py).
THEOREM DialogTyped == TabSpec => []DialogTypeOK
  <1>1. DialogInv => DialogTypeOK
    BY DEF DialogInv
  <1> QED BY <1>1, TabInvariant, PTL

\* Both together, as the model checker looks at them: every behaviour of a tab
\* keeps form and loan dialog well-formed.
THEOREM TabTyped == TabSpec => []TabTypeOK
  <1>1. CaptureTypeOK /\ DialogTypeOK => TabTypeOK
    BY DEF TabTypeOK
  <1> QED BY CaptureTyped, DialogTyped, <1>1, PTL

\* A take-out is only sent for the asset whose form was filled in, whatever the
\* reads of other tags do to the dialog meanwhile.
THEOREM TakeOutsNameTheirAsset == TabSpec => []TakeOutNamesItsAsset
  <1>1. DialogInv => TakeOutNamesItsAsset
    BY DEF DialogInv
  <1> QED BY <1>1, TabInvariant, PTL

\* While the tab takes no tag because a dialog counts as open, something is on
\* the screen or on its way that will end it.
THEOREM SilenceIsAsking == TabSpec => []SilentOnlyWhileAsking
  <1>1. DialogInv => SilentOnlyWhileAsking
    BY DEF DialogInv
  <1> QED BY <1>1, TabInvariant, PTL

\* Between two presses of the button the captured tag is replaced at most once.
THEOREM OneReplacement == TabSpec => []ReplacedAtMostOnce
  <1>1. CaptureInv => ReplacedAtMostOnce
    BY DEF CaptureInv
  <1> QED BY <1>1, TabInvariant, PTL

\* Only a read and the answer of a poll put a tag into the field.
LEMMA TakesANewTag ==
    ASSUME CaptureInv, CaptureNext, taken' = taken + 1
    PROVE  field' \notin old
  <1>len. Len(rows) \in Nat /\ DOMAIN rows = 1..Len(rows) /\ reads \in Nat /\ taken \in Nat
    BY CaptureAssumption DEF CaptureInv, CaptureTypeOK, RowIds
  <1>1. CASE Read
    <2>1. CASE subscribed /\ listening /\ open
      <3>1. field' = reads + 1
        BY <1>1, <2>1 DEF Read, Live, Take
      <3>2. reads + 1 \notin 1..reads
        BY <1>len
      <3> QED BY <3>1, <3>2 DEF CaptureInv, CaptureTypeOK
    <2>2. CASE ~(subscribed /\ listening /\ open)
      <3>1. taken' = taken
        BY <1>1, <2>2 DEF Read, Live
      <3> QED BY <3>1, <1>len
    <2> QED BY <2>1, <2>2
  <1>2. CASE PollAnswered
    <2>1. CASE NewRows = {}
      <3>1. taken' = taken
        BY <1>2, <2>1 DEF PollAnswered
      <3> QED BY <3>1, <1>len
    <2>2. CASE NewRows # {}
      <3> DEFINE first == CHOOSE id \in NewRows : \A other \in NewRows : id <= other
      <3>1. first \in 1..Len(rows) /\ first > baseline
        BY <1>2, <2>2, FirstNewRow DEF PollAnswered, CaptureInv
      <3>2. field' = rows[first]
        BY <1>2, <2>2 DEF PollAnswered, Take
      <3> HIDE DEF first
      <3>3. baseline \in 0..Len(rows)
            /\ \A i, j \in 1..Len(rows) : rows[i] = rows[j] => i = j
        BY <1>len DEF CaptureInv, CaptureTypeOK
      <3>4. \A i \in 1..baseline : i \in 1..Len(rows) /\ i # first
        BY <3>1, <3>3, <1>len
      <3>5. \A i \in 1..baseline : rows[i] # rows[first]
        BY <3>1, <3>3, <3>4
      <3>6. rows[first] \notin RowsUpTo(baseline)
        BY <3>5 DEF RowsUpTo
      <3> QED BY <3>2, <3>6 DEF CaptureInv
    <2> QED BY <2>1, <2>2
  <1>3. CASE StartListening
    <2>1. taken' = 0
      BY <1>3 DEF StartListening
    <2> QED BY <2>1, <1>len
  <1>4. CASE ~Read /\ ~PollAnswered /\ ~StartListening
    <2>1. taken' = taken
      BY <1>4 DEF CaptureNext, Save, SaveFails, pageVars, Disconnect, PressListen,
                  PollAsks, PollFails, TypeTag, CloseDialog, OpenDialog
    <2> QED BY <2>1, <1>len
  <1> QED BY <1>1, <1>2, <1>3, <1>4

\* A tag that the table held at the last press is never taken (poll_rfid and
\* on_live_rfid), for any number of reads and however the answers are delayed.
THEOREM OldRowsAreNotTaken == TabSpec => NoOldRowIsTaken
  <1>1. CaptureInv /\ [TabNext]_tabVars
        => [taken' = taken + 1 => field' \notin old]_captureVars
    <2> SUFFICES ASSUME CaptureInv, [TabNext]_tabVars, ~UNCHANGED captureVars,
                        taken' = taken + 1
                 PROVE  field' \notin old
      OBVIOUS
    <2>1. CaptureNext
      BY DEF TabNext, tabVars
    <2> QED BY <2>1, TakesANewTag
  <1> QED BY <1>1, TabInvariant, PTL DEF TabSpec, NoOldRowIsTaken
=============================================================================
