------------------------ MODULE ConfirmDialog_proofs ------------------------
(***************************************************************************)
(* Proofs about ConfirmDialog, for any tabs and any bounds.                *)
(***************************************************************************)
EXTENDS ConfirmDialog, SequenceTheorems, TLAPS

(* A tab without an excuse has one answer under way at most, to the        *)
(* question on display; it has nothing on display when its dialog counts   *)
(* as closed; and a question it has shown is on display while pending.     *)
Kept(t) ==
    /\ dlg[t].open \/ dlg[t].op = 0
    /\ \A r \in sent[t] : sent[t] = {r} /\ dlg[t].op = r.id
    /\ \A i \in seen[t] : IsPending(i) => dlg[t].op = i

KeptOrExcused == \A t \in Tabs : Kept(t) \/ t \in excused

(* The ids of the log are those of the events.                             *)
LEMMA LogIds ==
    ASSUME TypeOK
    PROVE  /\ DOMAIN log = 1..Len(log) /\ Len(log) \in Nat /\ Len(log) <= asked
           /\ DOMAIN log \subseteq Ids /\ asked \in 0..MaxOps
           /\ MaxOps \in Nat /\ MaxPresses \in Nat /\ MaxPurges \in Nat
  BY DialogAssumption DEF TypeOK, Ids

(* Opening the dialog, for a question of the log, keeps its type.          *)
LEMMA OpenForOperationType ==
    ASSUME TypeOK, NEW t \in Tabs, NEW i \in Ids, OpenForOperation(t, i)
    PROVE  dlg' \in [Tabs -> Dialogs] /\ seen' \in [Tabs -> SUBSET Ids]
  <1>1. dlg \in [Tabs -> Dialogs] /\ seen \in [Tabs -> SUBSET Ids]
    BY DEF TypeOK
  <1>2. CASE dlg[t].open \/ i \in dlg[t].prompted
    BY <1>1, <1>2 DEF OpenForOperation
  <1>3. CASE ~(dlg[t].open \/ i \in dlg[t].prompted)
    <2>1. [open |-> TRUE, op |-> i, prompted |-> dlg[t].prompted \cup {i}]
            \in Dialogs
      BY <1>1, LogIds DEF Dialogs, Ids
    <2>2. dlg' \in [Tabs -> Dialogs]
      BY <1>1, <1>3, <2>1 DEF OpenForOperation
    <2>3. seen' \in [Tabs -> SUBSET Ids]
      BY <1>1, <1>3 DEF OpenForOperation
    <2>4. QED
      BY <2>2, <2>3
  <1>4. QED
    BY <1>2, <1>3

(* Closing the dialog keeps its type.                                      *)
LEMMA CloseType ==
    ASSUME TypeOK, NEW t \in Tabs, Close(t)
    PROVE  dlg' \in [Tabs -> Dialogs]
  <1>1. [open |-> FALSE, op |-> 0, prompted |-> dlg[t].prompted] \in Dialogs
    BY LogIds DEF TypeOK, Dialogs
  <1>2. QED
    BY <1>1 DEF TypeOK, Close

(* Answering a pending operation changes its status only.                  *)
LEMMA SettleType ==
    ASSUME TypeOK, NEW i, IsPending(i), Settle(i)
    PROVE  log' \in Seq({"pending", "answered"}) /\ Len(log') <= asked
  <1>1. i \in 1..Len(log)
    BY LogIds DEF IsPending
  <1>2. log' \in Seq({"pending", "answered"}) /\ Len(log') = Len(log)
    BY <1>1, ExceptSeq DEF TypeOK, Settle
  <1>3. QED
    BY <1>2, LogIds

-----------------------------------------------------------------------------

(* An answer given by another client keeps the types.                      *)
LEMMA ElsewhereType ==
    ASSUME TypeOK, AnsweredElsewhere
    PROVE  TypeOK'
  <1>1. log' \in Seq({"pending", "answered"}) /\ Len(log') <= asked'
    BY SettleType DEF AnsweredElsewhere
  <1>2. QED
    BY <1>1 DEF TypeOK, AnsweredElsewhere

(* The server's step keeps the types.                                      *)
LEMMA RequestType ==
    ASSUME TypeOK, Request
    PROVE  TypeOK'
  <1>1. Len(log) + 1 \in Ids /\ asked' \in 0..MaxOps /\ Len(log) + 1 <= asked'
    BY LogIds DEF Request, Ids
  <1>2. log' \in Seq({"pending", "answered"}) /\ Len(log') = Len(log) + 1
    BY DEF TypeOK, Request
  <1>3. told' \in [Tabs -> SUBSET Ids] /\ seen' \in [Tabs -> SUBSET Ids]
    BY <1>1 DEF TypeOK, Request
  <1>4. QED
    BY <1>1, <1>2, <1>3, LogIds DEF TypeOK, Request

(* The steps that open a dialog keep the types.                            *)
LEMMA OpeningType ==
    ASSUME TypeOK, NEW t \in Tabs, OnBusEvent(t) \/ Poll(t) \/ PollResponse(t)
    PROVE  TypeOK'
  <1>1. CASE OnBusEvent(t)
    <2>1. PICK i \in told[t] :
            /\ told' = [told EXCEPT ![t] = @ \ {i}]
            /\ OpenForOperation(t, i)
            /\ UNCHANGED <<log, asked, purges, listed, screen, hidden, sent,
                           cleared, excused>>
      BY <1>1 DEF OnBusEvent
    <2>2. i \in Ids /\ told' \in [Tabs -> SUBSET Ids]
      BY <2>1 DEF TypeOK
    <2>3. dlg' \in [Tabs -> Dialogs] /\ seen' \in [Tabs -> SUBSET Ids]
      BY <2>1, <2>2, OpenForOperationType
    <2>4. QED
      BY <2>1, <2>2, <2>3 DEF TypeOK
  <1>2. CASE Poll(t)
    <2>1. listed' \in [Tabs -> 0..MaxOps]
      BY <1>2, LogIds DEF TypeOK, Poll, Ids
    <2>2. QED
      BY <1>2, <2>1 DEF TypeOK, Poll
  <1>3. CASE PollResponse(t)
    <2>1. listed[t] \in Ids
      BY <1>3, LogIds DEF TypeOK, PollResponse, Ids
    <2>2. dlg' \in [Tabs -> Dialogs] /\ seen' \in [Tabs -> SUBSET Ids]
      BY <1>3, <2>1, OpenForOperationType DEF PollResponse
    <2>3. listed' \in [Tabs -> 0..MaxOps]
      BY <1>3, LogIds DEF TypeOK, PollResponse
    <2>4. QED
      BY <1>3, <2>2, <2>3 DEF TypeOK, PollResponse
  <1>4. QED
    BY <1>1, <1>2, <1>3

(* A pressed button sends the id on display.                               *)
LEMMA PressType ==
    ASSUME TypeOK, NEW t \in Tabs, NEW act \in {"confirm", "cancel"},
           Press(t, act)
    PROVE  TypeOK'
  <1>1. dlg[t].op \in 0..MaxOps
    BY DEF TypeOK, Dialogs
  <1>2. dlg[t].op \in Ids
    <2>1. dlg[t].op # 0 /\ MaxOps \in Nat
      BY LogIds DEF Press
    <2>2. QED
      BY <1>1, <2>1 DEF Ids
  <1>3. PICK n \in 1..MaxPresses :
          sent' = [sent EXCEPT ![t] =
                     @ \cup {[act |-> act, id |-> dlg[t].op, n |-> n]}]
    BY DEF Press
  <1>4. sent' \in [Tabs -> SUBSET Answers]
    <2> DEFINE answer == [act |-> act, id |-> dlg[t].op, n |-> n]
    <2>1. answer \in Answers /\ sent \in [Tabs -> SUBSET Answers]
      BY <1>2 DEF TypeOK, Answers
    <2>2. sent' = [sent EXCEPT ![t] = @ \cup {answer}]
      BY <1>3
    <2> HIDE DEF answer
    <2>3. QED
      BY <2>1, <2>2
  <1>5. excused' \in SUBSET Tabs
    BY DEF TypeOK, Press
  <1>6. QED
    BY <1>4, <1>5 DEF TypeOK, Press

(* The responses keep the types.                                           *)
LEMMA ResponseType ==
    ASSUME TypeOK, NEW t \in Tabs, ConfirmResponse(t) \/ CancelResponse(t)
    PROVE  TypeOK'
  <1>1. PICK r \in sent[t] :
          /\ sent' = [sent EXCEPT ![t] = @ \ {r}]
          /\ (IsPending(r.id) /\ Settle(r.id)) \/ UNCHANGED log
          /\ Close(t) \/ UNCHANGED dlg
          /\ excused' = excused \/ excused' = excused \cup {t}
          /\ UNCHANGED <<asked, purges, told, listed, screen, hidden, cleared,
                         seen>>
    BY DEF ConfirmResponse, CancelResponse
  <1>2. log' \in Seq({"pending", "answered"}) /\ Len(log') <= asked'
    BY <1>1, SettleType DEF TypeOK
  <1>3. dlg' \in [Tabs -> Dialogs]
    BY <1>1, CloseType DEF TypeOK
  <1>4. sent' \in [Tabs -> SUBSET Answers] /\ excused' \in SUBSET Tabs
    BY <1>1 DEF TypeOK
  <1>5. QED
    BY <1>1, <1>2, <1>3, <1>4 DEF TypeOK

(* The browser's steps keep the types.                                     *)
LEMMA BrowserType ==
    ASSUME TypeOK, NEW t \in Tabs, ScreenFollows(t) \/ HideArrives(t)
    PROVE  TypeOK'
  <1>1. CASE ScreenFollows(t)
    <2>1. screen' \in [Tabs -> BOOLEAN]
      BY <1>1 DEF TypeOK, ScreenFollows
    <2>2. hidden' \in [Tabs -> BOOLEAN]
      BY <1>1 DEF TypeOK, ScreenFollows
    <2>3. QED
      BY <1>1, <2>1, <2>2 DEF TypeOK, ScreenFollows
  <1>2. CASE HideArrives(t)
    <2>1. [dlg[t] EXCEPT !.open = FALSE] \in Dialogs
      BY DEF TypeOK, Dialogs
    <2>2. dlg' \in [Tabs -> Dialogs]
      BY <1>2, <2>1 DEF TypeOK, HideArrives
    <2>3. hidden' \in [Tabs -> BOOLEAN] /\ excused' \in SUBSET Tabs
      BY <1>2 DEF TypeOK, HideArrives
    <2>4. QED
      BY <1>2, <2>2, <2>3 DEF TypeOK, HideArrives
  <1>3. QED
    BY <1>1, <1>2

(* Clearing the log keeps the types.                                       *)
LEMMA PurgingType ==
    ASSUME TypeOK, NEW t \in Tabs, Purge(t) \/ PurgeResponse(t)
    PROVE  TypeOK'
  <1>1. CASE Purge(t)
    <2>1. log' \in Seq({"pending", "answered"}) /\ Len(log') <= asked'
      BY <1>1, LogIds DEF Purge
    <2>2. purges' \in 0..MaxPurges
      BY <1>1, LogIds DEF TypeOK, Purge
    <2>3. cleared' \in [Tabs -> BOOLEAN]
      BY <1>1 DEF TypeOK, Purge
    <2>4. QED
      BY <1>1, <2>1, <2>2, <2>3 DEF TypeOK, Purge
  <1>2. CASE PurgeResponse(t)
    <2>1. [dlg[t] EXCEPT !.prompted = {}] \in Dialogs
      BY DEF TypeOK, Dialogs
    <2>2. dlg' \in [Tabs -> Dialogs]
      BY <1>2, <2>1 DEF TypeOK, PurgeResponse
    <2>3. cleared' \in [Tabs -> BOOLEAN]
      BY <1>2 DEF TypeOK, PurgeResponse
    <2>4. QED
      BY <1>2, <2>2, <2>3 DEF TypeOK, PurgeResponse
  <1>3. QED
    BY <1>1, <1>2

(* presence_confirm.py: the dialogs, requests and events of every tab stay *)
(* well-formed; in particular every id a tab shows or answers is an id the *)
(* log can hold.                                                           *)
THEOREM DialogTypeCorrect == Spec => []TypeOK
  <1>1. Init => TypeOK
    <2> SUFFICES ASSUME Init
                 PROVE  TypeOK
      OBVIOUS
    <2>1. MaxOps \in Nat /\ MaxPurges \in Nat
      BY DialogAssumption
    <2>2. dlg \in [Tabs -> Dialogs]
      BY <2>1 DEF Init, Dialogs
    <2>3. log \in Seq({"pending", "answered"}) /\ Len(log) = 0
      BY DEF Init
    <2>4. QED
      BY <2>1, <2>2, <2>3 DEF Init, TypeOK
  <1>2. TypeOK /\ [Next]_vars => TypeOK'
    <2> SUFFICES ASSUME TypeOK, [Next]_vars
                 PROVE  TypeOK'
      OBVIOUS
    <2>1. CASE Request
      BY <2>1, RequestType
    <2>2. ASSUME NEW t \in Tabs, Tab(t) PROVE TypeOK'
      BY <2>2, OpeningType, ResponseType, BrowserType, PurgingType DEF Tab
    <2>3. ASSUME NEW t \in Tabs, Purge(t) PROVE TypeOK'
      BY <2>3, PurgingType
    <2>4. ASSUME NEW t \in Tabs, NEW act \in {"confirm", "cancel"}, Press(t, act)
          PROVE  TypeOK'
      BY <2>4, PressType
    <2>5. CASE UNCHANGED vars
      BY <2>5 DEF TypeOK, vars
    <2>6. CASE AnsweredElsewhere
      BY <2>6, ElsewhereType
    <2>7. QED
      BY <2>1, <2>2, <2>3, <2>4, <2>5, <2>6 DEF Next
  <1>3. QED
    BY <1>1, <1>2, PTL DEF Spec

-----------------------------------------------------------------------------

(* Once an operation is answered it is not pending, and no other becomes so. *)
LEMMA SettleEnds ==
    ASSUME TypeOK, NEW i, IsPending(i), Settle(i)
    PROVE  \A j \in Ids : IsPending(j)' => IsPending(j) /\ j # i
  <1>1. log' = [log EXCEPT ![i] = "answered"] /\ i \in DOMAIN log
    BY DEF Settle, IsPending
  <1>2. DOMAIN log' = DOMAIN log /\ log'[i] = "answered"
        /\ \A j \in DOMAIN log : j # i => log'[j] = log[j]
    BY <1>1
  <1>3. QED
    BY <1>2 DEF IsPending

(* What a step does to one tab decides; for the others it is enough that   *)
(* nothing becomes pending.                                                *)
LEMMA OneTabDecides ==
    ASSUME TypeOK, KeptOrExcused, NEW t \in Tabs,
           \A u \in Tabs : u # t => /\ sent'[u] = sent[u] /\ dlg'[u] = dlg[u]
                                    /\ seen'[u] = seen[u],
           excused \subseteq excused',
           \A i \in Ids : IsPending(i)' => IsPending(i),
           Kept(t)' \/ t \in excused'
    PROVE  KeptOrExcused'
  <1> SUFFICES ASSUME NEW u \in Tabs, u # t, u \notin excused'
               PROVE  Kept(u)'
    BY DEF KeptOrExcused
  <1>1. /\ sent'[u] = sent[u] /\ dlg'[u] = dlg[u] /\ seen'[u] = seen[u]
        /\ seen[u] \subseteq Ids /\ Kept(u)
    BY DEF KeptOrExcused, TypeOK
  <1>2. QED
    BY <1>1 DEF Kept

(* A tab that opens a question had none on display, or has an excuse.      *)
LEMMA OpenForOperationKeeps ==
    ASSUME TypeOK, KeptOrExcused, NEW t \in Tabs, NEW i \in Ids,
           OpenForOperation(t, i), UNCHANGED <<log, sent, excused>>
    PROVE  KeptOrExcused'
  <1>1. CASE dlg[t].open \/ i \in dlg[t].prompted
    BY <1>1 DEF KeptOrExcused, Kept, IsPending, OpenForOperation
  <1>2. CASE ~(dlg[t].open \/ i \in dlg[t].prompted)
    <2>1. /\ dlg'[t].open /\ dlg'[t].op = i /\ seen'[t] = seen[t] \cup {i}
          /\ \A u \in Tabs : u # t => dlg'[u] = dlg[u] /\ seen'[u] = seen[u]
      BY <1>2 DEF TypeOK, OpenForOperation
    <2>2. \A j : IsPending(j)' <=> IsPending(j)
      BY DEF IsPending
    <2>3. ASSUME Kept(t) PROVE Kept(t)'
      <3>1. dlg[t].op = 0
        BY <1>2, <2>3 DEF Kept
      <3>2. \A r \in sent[t] : r.id # 0
        BY DEF TypeOK, Answers, Ids
      <3>3. \A r \in sent'[t] : FALSE
        BY <2>3, <3>1, <3>2 DEF Kept
      <3>4. \A j \in seen[t] : ~IsPending(j)
        <4>1. \A j \in seen[t] : j # 0
          BY DEF TypeOK, Ids
        <4>2. QED
          BY <2>3, <3>1, <4>1 DEF Kept
      <3>5. QED
        BY <2>1, <2>2, <3>3, <3>4 DEF Kept
    <2>4. Kept(t)' \/ t \in excused'
      BY <2>3 DEF KeptOrExcused
    <2>5. QED
      BY <2>1, <2>2, <2>4, OneTabDecides
  <1>3. QED
    BY <1>1, <1>2

(* The server adds a question that no tab has shown.                       *)
LEMMA RequestKeeps ==
    ASSUME TypeOK, KeptOrExcused, Request
    PROVE  KeptOrExcused'
  <1> SUFFICES ASSUME NEW t \in Tabs, t \notin excused'
               PROVE  Kept(t)'
    BY DEF KeptOrExcused
  <1>1. /\ dlg' = dlg /\ sent' = sent /\ Kept(t)
        /\ seen'[t] = seen[t] \ {Len(log) + 1}
    BY DEF Request, KeptOrExcused
  <1>2. \A i \in seen'[t] : IsPending(i)' => IsPending(i)
    BY <1>1 DEF TypeOK, Request, IsPending
  <1>3. QED
    BY <1>1, <1>2 DEF Kept

(* A second press is an excuse.                                            *)
LEMMA PressKeeps ==
    ASSUME TypeOK, KeptOrExcused, NEW t \in Tabs, NEW act, Press(t, act)
    PROVE  KeptOrExcused'
  <1>1. PICK n \in 1..MaxPresses :
          sent' = [sent EXCEPT ![t] =
                     @ \cup {[act |-> act, id |-> dlg[t].op, n |-> n]}]
    BY DEF Press
  <1>2. /\ \A u \in Tabs : u # t => sent'[u] = sent[u]
        /\ sent'[t] = sent[t] \cup {[act |-> act, id |-> dlg[t].op, n |-> n]}
        /\ UNCHANGED <<log, dlg, seen>> /\ excused \subseteq excused'
    BY <1>1 DEF TypeOK, Press
  <1>3. CASE sent[t] # {}
    <2>1. t \in excused'
      BY <1>3 DEF Press
    <2>2. QED
      BY <1>2, <2>1, OneTabDecides DEF IsPending
  <1>4. CASE sent[t] = {}
    <2>1. \A r \in sent'[t] : sent'[t] = {r} /\ dlg[t].op = r.id
      BY <1>2, <1>4
    <2>2. Kept(t) => Kept(t)'
      BY <1>2, <2>1 DEF Kept, IsPending
    <2>3. QED
      BY <1>2, <2>2, OneTabDecides DEF IsPending, KeptOrExcused
  <1>5. QED
    BY <1>3, <1>4

(* The response to the one answer under way ends the question it answers.  *)
LEMMA ResponseKeeps ==
    ASSUME TypeOK, KeptOrExcused, NEW t \in Tabs,
           ConfirmResponse(t) \/ CancelResponse(t)
    PROVE  KeptOrExcused'
  <1>1. PICK r \in sent[t] :
          /\ sent' = [sent EXCEPT ![t] = @ \ {r}] /\ seen' = seen
          /\ \/ IsPending(r.id) /\ Settle(r.id) /\ (Close(t) \/ UNCHANGED dlg)
             \/ UNCHANGED <<log, dlg>>
             \/ ~IsPending(r.id) /\ UNCHANGED log /\ Close(t)
             \/ excused' = excused \cup {t} /\ UNCHANGED log /\ Close(t)
    BY DEF ConfirmResponse, CancelResponse
  <1>2. excused \subseteq excused'
    BY DEF ConfirmResponse, CancelResponse
  <1>3. /\ \A u \in Tabs : u # t => sent'[u] = sent[u] /\ dlg'[u] = dlg[u]
        /\ sent'[t] = sent[t] \ {r}
    BY <1>1 DEF TypeOK, Close
  <1>4. \A i \in Ids : IsPending(i)' => IsPending(i)
    BY <1>1, SettleEnds DEF IsPending
  <1>5. ASSUME Kept(t), t \notin excused' PROVE Kept(t)'
    <2>1. sent'[t] = {} /\ dlg[t].op = r.id /\ seen[t] \subseteq Ids
      BY <1>3, <1>5 DEF Kept, TypeOK
    <2>2. CASE dlg' = dlg
      BY <1>1, <1>4, <1>5, <2>1, <2>2 DEF Kept
    <2>3. CASE Close(t) /\ \A i \in Ids : IsPending(i)' => i # r.id
      <3>1. ~dlg'[t].open /\ dlg'[t].op = 0
        BY <2>3 DEF Close, TypeOK
      <3>2. \A i \in seen[t] : ~IsPending(i)'
        BY <1>4, <1>5, <2>1, <2>3 DEF Kept
      <3>3. QED
        BY <1>1, <2>1, <3>1, <3>2 DEF Kept
    <2>4. ASSUME Close(t), ~IsPending(r.id) PROVE \A i \in Ids : IsPending(i)' => i # r.id
      BY <1>4, <2>4
    <2>5. ASSUME IsPending(r.id), Settle(r.id)
          PROVE \A i \in Ids : IsPending(i)' => i # r.id
      BY <2>5, SettleEnds
    <2>6. QED
      BY <1>1, <1>5, <2>2, <2>3, <2>4, <2>5
  <1>6. QED
    BY <1>1, <1>2, <1>3, <1>4, <1>5, OneTabDecides DEF KeptOrExcused

(* A hide event that finds a question on display is an excuse.             *)
LEMMA HideKeeps ==
    ASSUME TypeOK, KeptOrExcused, NEW t \in Tabs, HideArrives(t)
    PROVE  KeptOrExcused'
  <1>1. /\ \A u \in Tabs : u # t => dlg'[u] = dlg[u]
        /\ dlg'[t].op = dlg[t].op
        /\ excused \subseteq excused' /\ UNCHANGED <<log, sent, seen>>
        /\ dlg[t].op # 0 => t \in excused'
    BY DEF TypeOK, Dialogs, HideArrives
  <1>2. Kept(t)' \/ t \in excused'
    BY <1>1 DEF Kept, KeptOrExcused, IsPending
  <1>3. QED
    BY <1>1, <1>2, OneTabDecides DEF IsPending

(* Clearing the log ends all questions; forgetting the prompted ids does   *)
(* not touch what is on display.                                           *)
LEMMA PurgingKeeps ==
    ASSUME TypeOK, KeptOrExcused, NEW t \in Tabs, Purge(t) \/ PurgeResponse(t)
    PROVE  KeptOrExcused'
  <1>1. /\ \A u \in Tabs : dlg'[u].open = dlg[u].open /\ dlg'[u].op = dlg[u].op
        /\ UNCHANGED <<sent, seen, excused>>
    <2>1. CASE Purge(t)
      BY <2>1 DEF Purge
    <2>2. CASE PurgeResponse(t)
      BY <2>2 DEF TypeOK, Dialogs, PurgeResponse
    <2>3. QED
      BY <2>1, <2>2
  <1>2. \A i : IsPending(i)' => IsPending(i)
    BY DEF Purge, PurgeResponse, IsPending
  <1>3. QED
    BY <1>1, <1>2 DEF KeptOrExcused, Kept

LEMMA KeptOrExcusedStep ==
    ASSUME TypeOK, KeptOrExcused, [Next]_vars
    PROVE  KeptOrExcused'
  <1>1. CASE Request
    BY <1>1, RequestKeeps
  <1>2. ASSUME NEW t \in Tabs, OnBusEvent(t) PROVE KeptOrExcused'
    <2>1. PICK i \in told[t] :
            OpenForOperation(t, i) /\ UNCHANGED <<log, sent, excused>>
      BY <1>2 DEF OnBusEvent
    <2>2. i \in Ids
      BY DEF TypeOK
    <2>3. QED
      BY <2>1, <2>2, OpenForOperationKeeps
  <1>3. ASSUME NEW t \in Tabs, Poll(t) PROVE KeptOrExcused'
    BY <1>3 DEF KeptOrExcused, Kept, IsPending, Poll
  <1>4. ASSUME NEW t \in Tabs, PollResponse(t) PROVE KeptOrExcused'
    <2>1. listed[t] \in Ids
      BY <1>4, LogIds DEF TypeOK, PollResponse, Ids
    <2>2. QED
      BY <1>4, <2>1, OpenForOperationKeeps DEF PollResponse
  <1>5. ASSUME NEW t \in Tabs, ConfirmResponse(t) \/ CancelResponse(t)
        PROVE  KeptOrExcused'
    BY <1>5, ResponseKeeps
  <1>6. ASSUME NEW t \in Tabs, Purge(t) \/ PurgeResponse(t) PROVE KeptOrExcused'
    BY <1>6, PurgingKeeps
  <1>7. ASSUME NEW t \in Tabs, ScreenFollows(t) PROVE KeptOrExcused'
    BY <1>7 DEF KeptOrExcused, Kept, IsPending, ScreenFollows
  <1>8. ASSUME NEW t \in Tabs, HideArrives(t) PROVE KeptOrExcused'
    BY <1>8, HideKeeps
  <1>9. ASSUME NEW t \in Tabs, NEW act \in {"confirm", "cancel"}, Press(t, act)
        PROVE  KeptOrExcused'
    BY <1>9, PressKeeps
  <1>10. CASE AnsweredElsewhere
    <2>1. \A i \in Ids : IsPending(i)' => IsPending(i)
      BY <1>10, SettleEnds DEF AnsweredElsewhere
    <2>2. \A t \in Tabs : seen[t] \subseteq Ids
      BY DEF TypeOK
    <2>3. UNCHANGED <<dlg, sent, seen, excused>>
      BY <1>10 DEF AnsweredElsewhere
    <2>4. QED
      BY <2>1, <2>2, <2>3 DEF KeptOrExcused, Kept
  <1>11. CASE UNCHANGED vars
    BY <1>11 DEF KeptOrExcused, Kept, IsPending, vars
  <1>12. QED
    BY <1>1, <1>2, <1>3, <1>4, <1>5, <1>6, <1>7, <1>8, <1>9, <1>10, <1>11
       DEF Next, Tab

(* presence_confirm.py: a question leaves the screen of a tab while it is  *)
(* still pending only if the tab had a second press, a late hide event or  *)
(* a lost cancel, with any number of tabs, clients and clearings.          *)
THEOREM ShownUntilAnsweredHolds == Spec => []ShownUntilAnswered
  <1>1. Init => KeptOrExcused
    BY DEF Init, KeptOrExcused, Kept
  <1>2. TypeOK /\ KeptOrExcused /\ [Next]_vars => KeptOrExcused'
    BY KeptOrExcusedStep
  <1>3. KeptOrExcused => ShownUntilAnswered
    BY DEF KeptOrExcused, Kept, ShownUntilAnswered
  <1>4. QED
    BY <1>1, <1>2, <1>3, DialogTypeCorrect, PTL DEF Spec
=============================================================================
