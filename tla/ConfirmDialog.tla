---------------------------- MODULE ConfirmDialog ----------------------------
(***************************************************************************)
(* The dialog that asks an operator to confirm a take-out or a return.     *)
(* Every browser tab has one (presence_confirm.py, mounted by the tab's    *)
(* GlobalInventoryEventHub).  It is opened by PRESENCE_CONFIRM_REQUIRED    *)
(* events and by a poll of the pending operations every 5 s, and its       *)
(* buttons call the API and wait for the response.  The browser follows    *)
(* what the server says and reports a dialog that it has hidden.           *)
(*                                                                         *)
(* Of the server only the log remains: which operations are pending.  Its  *)
(* ids start again at 1 once the log has been cleared.                     *)
(***************************************************************************)
EXTENDS Integers, Sequences, FiniteSets

CONSTANTS
    Tabs,       \* browser tabs that are open
    Purgers,    \* the tabs whose operator may clear the log
    MaxOps,     \* bound: operations the watchdog asks about, in all
    MaxPresses, \* bound: answers a tab has under way at once
    MaxPurges   \* bound: how often the log is cleared

ASSUME DialogAssumption ==
    /\ Purgers \subseteq Tabs
    /\ MaxOps \in Nat /\ MaxPresses \in Nat /\ MaxPurges \in Nat

VARIABLES
    log,        \* status of each operation, by id
    asked,      \* how many operations there have been (for the bound)
    purges,     \* times the log was cleared
    told,       \* [Tabs -> ids]: events on their way to the tab
    listed,     \* [Tabs -> id]: first operation of a poll's response (0: none)
    dlg,        \* [Tabs -> Dialogs]: the state dict of the tab's dialog
    screen,     \* [Tabs]: the browser has the dialog on the screen
    hidden,     \* [Tabs]: a hide event is on its way
    sent,       \* [Tabs -> requests under way]
    cleared,    \* [Tabs]: the tab waits for the response to its purge
    seen,       \* history: the ids each tab has shown since they were created
    excused     \* history: the tabs that had an excuse to give a question up

vars == <<log, asked, purges, told, listed, dlg, screen, hidden, sent, cleared,
          seen, excused>>

Ids == 1..MaxOps

\* open: dialog_open, op: pending_op (0: None), prompted: prompted_ids.  The
\* dialog is persistent, and open() and close() come with an op and its end: the
\* browser is to show it as long as there is an op.
Dialogs == [open : BOOLEAN, op : 0..MaxOps, prompted : SUBSET Ids]

\* n tells two presses of the same button apart.
Answers == [act : {"confirm", "cancel"}, id : Ids, n : 1..MaxPresses]

\* The dialogs, events and requests of every tab are well-formed: every id a
\* tab is told, shows or answers is one the log can hold.
TypeOK ==
    /\ log \in Seq({"pending", "answered"}) /\ Len(log) <= asked
    /\ asked \in 0..MaxOps
    /\ purges \in 0..MaxPurges
    /\ told \in [Tabs -> SUBSET Ids]
    /\ listed \in [Tabs -> 0..MaxOps]
    /\ dlg \in [Tabs -> Dialogs]
    /\ screen \in [Tabs -> BOOLEAN]
    /\ hidden \in [Tabs -> BOOLEAN]
    /\ sent \in [Tabs -> SUBSET Answers]
    /\ cleared \in [Tabs -> BOOLEAN]
    /\ seen \in [Tabs -> SUBSET Ids]
    /\ excused \in SUBSET Tabs

Init ==
    /\ log = <<>>
    /\ asked = 0 /\ purges = 0
    /\ told = [t \in Tabs |-> {}]
    /\ listed = [t \in Tabs |-> 0]
    /\ dlg = [t \in Tabs |-> [open |-> FALSE, op |-> 0, prompted |-> {}]]
    /\ screen = [t \in Tabs |-> FALSE]
    /\ hidden = [t \in Tabs |-> FALSE]
    /\ sent = [t \in Tabs |-> {}]
    /\ cleared = [t \in Tabs |-> FALSE]
    /\ seen = [t \in Tabs |-> {}]
    /\ excused = {}

IsPending(i) == i \in DOMAIN log /\ log[i] = "pending"

-----------------------------------------------------------------------------
(* The server.                                                             *)

\* MUTANT: the event names the id the next operation will get.
RequestTellsNextId ==
    /\ asked < MaxOps /\ asked' = asked + 1
    /\ log' = Append(log, "pending")
    /\ told' = [t \in Tabs |-> told[t] \cup {Len(log) + 2}]
    /\ seen' = [t \in Tabs |-> seen[t] \ {Len(log) + 1}]
    /\ UNCHANGED <<purges, listed, dlg, screen, hidden, sent, cleared, excused>>

\* A watchdog transition adds a pending operation and publishes it.
Request ==
    /\ asked < MaxOps /\ asked' = asked + 1
    /\ log' = Append(log, "pending")
    /\ told' = [t \in Tabs |-> told[t] \cup {Len(log) + 1}]
    /\ seen' = [t \in Tabs |-> seen[t] \ {Len(log) + 1}]
    /\ UNCHANGED <<purges, listed, dlg, screen, hidden, sent, cleared, excused>>

\* The server answers the operation if it is still pending.
Settle(i) == log' = [log EXCEPT ![i] = "answered"]

\* Any other client of the API, a second tab of no concern here or a script,
\* confirms or cancels an operation.
AnsweredElsewhere ==
    /\ \E i \in DOMAIN log : IsPending(i) /\ Settle(i)
    /\ UNCHANGED <<asked, purges, told, listed, dlg, screen, hidden, sent,
                   cleared, seen, excused>>

-----------------------------------------------------------------------------
(* Opening the dialog.                                                     *)

\* MUTANT: the operation counts as prompted although another one is shown.
OpenForOperationMarksFirst(t, i) ==
    IF dlg[t].open \/ i \in dlg[t].prompted
    THEN /\ dlg' = [dlg EXCEPT ![t].prompted = @ \cup {i}]
         /\ UNCHANGED seen
    ELSE /\ dlg' = [dlg EXCEPT ![t] = [open |-> TRUE, op |-> i,
                                          prompted |-> @.prompted \cup {i}]]
         /\ seen' = [seen EXCEPT ![t] = @ \cup {i}]

\* MUTANT: a question that is already on display is replaced.
OpenForOperationOverwrites(t, i) ==
    IF i \in dlg[t].prompted
    THEN UNCHANGED <<dlg, seen>>
    ELSE /\ dlg' = [dlg EXCEPT ![t] = [open |-> TRUE, op |-> i,
                                          prompted |-> @.prompted \cup {i}]]
         /\ seen' = [seen EXCEPT ![t] = @ \cup {i}]

\* open_for_operation(op), op being pending when it was read.
OpenForOperation(t, i) ==
    IF dlg[t].open \/ i \in dlg[t].prompted
    THEN UNCHANGED <<dlg, seen>>
    ELSE /\ dlg' = [dlg EXCEPT ![t] = [open |-> TRUE, op |-> i,
                                          prompted |-> @.prompted \cup {i}]]
         /\ seen' = [seen EXCEPT ![t] = @ \cup {i}]

\* _on_bus_event(PRESENCE_CONFIRM_REQUIRED)
OnBusEvent(t) ==
    \E i \in told[t] :
        /\ told' = [told EXCEPT ![t] = @ \ {i}]
        /\ OpenForOperation(t, i)
        /\ UNCHANGED <<log, asked, purges, listed, screen, hidden, sent,
                       cleared, excused>>

\* _poll_pending_operations asks for the ten newest pending operations, in
\* ascending order, and looks at the first one only.
Poll(t) ==
    /\ listed[t] = 0
    /\ \E i \in DOMAIN log :
        /\ IsPending(i) /\ \A j \in 1..(i - 1) : ~IsPending(j)
        /\ listed' = [listed EXCEPT ![t] = i]
    /\ UNCHANGED <<log, asked, purges, told, dlg, screen, hidden, sent, cleared,
                   seen, excused>>

\* ... and goes on when the response is there.
PollResponse(t) ==
    /\ listed[t] # 0
    /\ OpenForOperation(t, listed[t])
    /\ listed' = [listed EXCEPT ![t] = 0]
    /\ UNCHANGED <<log, asked, purges, told, screen, hidden, sent, cleared,
                   excused>>

-----------------------------------------------------------------------------
(* Its buttons.                                                            *)

\* The handlers run up to their request; with no op they do nothing.
\* Neither button is ever disabled: a second press while an answer is under way
\* is an excuse.
Press(t, act) ==
    /\ screen[t] /\ dlg[t].op # 0
    /\ Cardinality(sent[t]) < MaxPresses
    /\ \E n \in 1..MaxPresses :
        LET answer(k) == [act |-> act, id |-> dlg[t].op, n |-> k] IN
        /\ answer(n) \notin sent[t]
        /\ \A k \in 1..(n - 1) : answer(k) \in sent[t]
        /\ sent' = [sent EXCEPT ![t] = @ \cup {answer(n)}]
    /\ excused' = IF sent[t] = {} THEN excused ELSE excused \cup {t}
    /\ UNCHANGED <<log, asked, purges, told, listed, dlg, screen, hidden,
                   cleared, seen>>

\* The handler's last steps, whatever is on display by now: state reset,
\* dialog.close().
Close(t) ==
    dlg' = [dlg EXCEPT ![t] = [open |-> FALSE, op |-> 0, prompted |-> @.prompted]]

\* submit_confirm: a refusal, or any exception, leaves the dialog open.
ConfirmResponse(t) ==
    \E r \in sent[t] :
        /\ r.act = "confirm"
        /\ \/ IsPending(r.id) /\ Settle(r.id) /\ (Close(t) \/ UNCHANGED dlg)
           \/ UNCHANGED <<log, dlg>>
        /\ sent' = [sent EXCEPT ![t] = @ \ {r}]
        /\ UNCHANGED <<asked, purges, told, listed, screen, hidden, cleared,
                       seen, excused>>

\* cancel_pending: every exception is swallowed and the dialog is closed; a
\* request that does not reach the server is an excuse.
CancelResponse(t) ==
    \E r \in sent[t] :
        /\ r.act = "cancel"
        /\ \/ IsPending(r.id) /\ Settle(r.id) /\ UNCHANGED excused
           \/ ~IsPending(r.id) /\ UNCHANGED <<log, excused>>
           \/ UNCHANGED log /\ excused' = excused \cup {t}
        /\ sent' = [sent EXCEPT ![t] = @ \ {r}]
        /\ Close(t)
        /\ UNCHANGED <<asked, purges, told, listed, screen, hidden, cleared,
                       seen>>

-----------------------------------------------------------------------------
(* The browser.                                                            *)

\* It shows and hides the dialog as the server last said, and a dialog that goes
\* away says so.
ScreenFollows(t) ==
    /\ screen[t] # (dlg[t].op # 0)
    /\ screen' = [screen EXCEPT ![t] = ~@]
    /\ hidden' = [hidden EXCEPT ![t] = @ \/ screen[t]]
    /\ UNCHANGED <<log, asked, purges, told, listed, dlg, sent, cleared, seen,
                   excused>>

\* _on_hide; the event of one question that comes when the next is open is an
\* excuse.
HideArrives(t) ==
    /\ hidden[t]
    /\ hidden' = [hidden EXCEPT ![t] = FALSE]
    /\ dlg' = [dlg EXCEPT ![t].open = FALSE]
    /\ excused' = IF dlg[t].op = 0 THEN excused ELSE excused \cup {t}
    /\ UNCHANGED <<log, asked, purges, told, listed, screen, sent, cleared, seen>>

-----------------------------------------------------------------------------
(* Clearing the log (do_clear of the operations page).                     *)

Purge(t) ==
    /\ t \in Purgers /\ ~cleared[t] /\ purges < MaxPurges
    /\ log' = <<>>
    /\ purges' = purges + 1
    /\ cleared' = [cleared EXCEPT ![t] = TRUE]
    /\ UNCHANGED <<asked, told, listed, dlg, screen, hidden, sent, seen,
                   excused>>

\* The response: the tab, and only this tab, forgets its prompted_ids.
PurgeResponse(t) ==
    /\ cleared[t]
    /\ cleared' = [cleared EXCEPT ![t] = FALSE]
    /\ dlg' = [dlg EXCEPT ![t].prompted = {}]
    /\ UNCHANGED <<log, asked, purges, told, listed, screen, hidden, sent, seen,
                   excused>>

-----------------------------------------------------------------------------

Tab(t) ==
    \/ OnBusEvent(t) \/ Poll(t) \/ PollResponse(t)
    \/ ConfirmResponse(t) \/ CancelResponse(t)
    \/ ScreenFollows(t) \/ HideArrives(t)
    \/ PurgeResponse(t)

Next ==
    \/ Request \/ AnsweredElsewhere
    \/ \E t \in Tabs : \/ Tab(t) \/ Purge(t)
                       \/ \E act \in {"confirm", "cancel"} : Press(t, act)

Spec == Init /\ [][Next]_vars

\* The event loop, the 5 s timer and the browser run, and an operator who looks
\* at a dialog does not leave it alone for ever.
Fairness ==
    \A t \in Tabs :
        /\ WF_vars(OnBusEvent(t)) /\ WF_vars(Poll(t)) /\ WF_vars(PollResponse(t))
        /\ WF_vars(ConfirmResponse(t)) /\ WF_vars(CancelResponse(t))
        /\ WF_vars(ScreenFollows(t)) /\ WF_vars(HideArrives(t))
        /\ WF_vars(PurgeResponse(t))
        /\ SF_vars(Press(t, "cancel"))

FairSpec == Spec /\ Fairness

-----------------------------------------------------------------------------

\* The poll stops at an operation that the tab has shown, no longer shows and
\* will not show again.
StopsAtGivenUp(t) ==
    \E i \in seen[t] :
        /\ IsPending(i) /\ \A j \in 1..(i - 1) : ~IsPending(j)
        /\ dlg[t].op # i

\* PROJECT_SUMMARY (5s 兜底，防止漏弹待确认操作): whatever happens to its event, an
\* operation that stays pending is put to the operator of every tab, until the
\* log is cleared or the tab has given an earlier operation up.
EveryPendingIsPrompted ==
    \A t \in Tabs, i \in Ids :
        []<>(IsPending(i) => \/ i \in seen[t]
                             \/ purges > 0 \/ StopsAtGivenUp(t))

\* A tab gives a question up, one it has shown and no longer shows although it
\* is pending, only after it has had an excuse: a button pressed while an answer
\* was under way, a hide event that came when the next question was open, or a
\* cancel that did not reach the server.
ShownUntilAnswered ==
    \A t \in Tabs : \A i \in seen[t] :
        IsPending(i) => dlg[t].op = i \/ t \in excused
=============================================================================
