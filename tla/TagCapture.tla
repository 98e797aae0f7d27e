----------------------------- MODULE TagCapture ------------------------------
(***************************************************************************)
(* How a page takes the tag that an operator holds to the antenna: the     *)
(* register page (inventory_register.py) and the tag dialog of the stock   *)
(* page (inventory.py).  A read reaches the page on the event bus, and is  *)
(* written to rfid_events by a task of its own; the page also polls that   *)
(* table once a second, "HTTP fallback if an in-process event was missed". *)
(*                                                                         *)
(* Rows are numbered by their id; a row is the number of its read.         *)
(***************************************************************************)
EXTENDS Integers, Sequences, FiniteSets

CONSTANTS
    Pages,              \* pages looked at: subset of {"register", "manage"}
    MaxReads            \* bound: reads of tags

ASSUME CaptureAssumption ==
    /\ Pages \subseteq {"register", "manage"}
    /\ MaxReads \in Nat

VARIABLES
    reads,              \* tags read so far; the last read has this number
    unsaved,            \* reads whose row is still to be written
    rows,               \* the table rfid_events
    page,               \* the page that is open in the browser
    subscribed,         \* RfidEventListener is subscribed
    open,               \* the form is on the screen
    listening, baseline,
    field,              \* what the EPC field holds
    press,              \* start_listen: the request for the newest id
    poll,               \* poll_rfid: the request for newer rows
    old,                \* history: reads in the table at the last press
    taken               \* history: tags the page took since the last press

captureVars == <<reads, unsaved, rows, page, subscribed, open, listening,
                 baseline, field, press, poll, old, taken>>

pageVars == <<open, listening, baseline, field, press, poll, old, taken>>

Reads == 1..MaxReads
RowIds == 0..MaxReads
Empty == 0
Typed == -1             \* typed in by hand
None == [upto |-> -1]   \* no request on its way

\* No read is written to the table twice, and the page's baseline and its
\* requests never name a row that is not there.
CaptureTypeOK ==
    /\ reads \in RowIds /\ unsaved \subseteq 1..reads
    /\ rows \in Seq(1..reads) /\ \A i, j \in DOMAIN rows : rows[i] = rows[j] => i = j
    /\ page \in Pages
    /\ subscribed \in BOOLEAN /\ open \in BOOLEAN /\ listening \in BOOLEAN
    /\ baseline \in 0..Len(rows)
    /\ field \in {Empty, Typed} \cup 1..reads
    /\ press = None \/ press.upto \in 0..Len(rows)
    /\ poll # None => poll.after \in 0..poll.upto /\ poll.upto \in 0..Len(rows)
    /\ old \subseteq 1..reads /\ taken \in Nat

CaptureInit ==
    /\ reads = 0 /\ unsaved = {} /\ rows = <<>>
    /\ page \in Pages
    /\ subscribed = TRUE
    /\ open = (page = "register")
    /\ listening = FALSE /\ baseline = 0 /\ field = Empty
    /\ press = None /\ poll = None
    /\ old = {} /\ taken = 0

-----------------------------------------------------------------------------
(* capture_tag, and its counterpart in the dialog.                         *)
Take(n) ==
    /\ field' = n
    /\ listening' = FALSE
    /\ taken' = taken + 1

\* on_live_rfid
Live(n) ==
    IF subscribed /\ listening /\ open THEN Take(n)
    ELSE UNCHANGED <<field, listening, taken>>

\* _on_gateway_event: the subscribers have had the read before the task that
\* writes its row is started.
Read ==
    /\ reads < MaxReads
    /\ reads' = reads + 1
    /\ unsaved' = unsaved \cup {reads + 1}
    /\ Live(reads + 1)
    /\ UNCHANGED <<rows, page, subscribed, open, baseline, press, poll, old>>

\* _persist_rfid_event: tasks of several reads end in any order.
Save(n) ==
    /\ n \in unsaved
    /\ unsaved' = unsaved \ {n}
    /\ rows' = Append(rows, n)
    /\ UNCHANGED <<reads, page, subscribed>> /\ UNCHANGED pageVars

\* ... and log an exception.
SaveFails(n) ==
    /\ n \in unsaved
    /\ unsaved' = unsaved \ {n}
    /\ UNCHANGED <<reads, rows, page, subscribed>> /\ UNCHANGED pageVars

\* RfidEventListener._stop when the browser is disconnected; start is not
\* called again when it comes back.
Disconnect ==
    /\ subscribed /\ subscribed' = FALSE
    /\ UNCHANGED <<reads, unsaved, rows, page>> /\ UNCHANGED pageVars

\* start_listen and start_tag_listen, up to the answer: 0 stands for an error.
PressListen ==
    /\ open /\ press = None
    /\ \E newest \in {Len(rows), 0} :
          press' = [upto |-> newest, failed |-> newest < Len(rows),
                    held |-> {rows[i] : i \in DOMAIN rows}]
    /\ UNCHANGED <<reads, unsaved, rows, page, subscribed, open, listening,
                   baseline, field, poll, old, taken>>

StartListening ==
    /\ press # None
    /\ press' = None
    /\ baseline' = press.upto
    /\ listening' = TRUE
    /\ field' = IF page = "register" THEN Empty ELSE field
    /\ old' = IF press.failed THEN {} ELSE press.held
    /\ taken' = 0
    /\ UNCHANGED <<reads, unsaved, rows, page, subscribed, open, poll>>

\* MUTANT: the request skips the row right after the baseline.
AfterIdSkipsOne == baseline + 1

\* after_id of the request.
AfterId == baseline

\* MUTANT: asked whether or not the page listens.
MayPollAlways == open /\ poll = None

MayPoll == listening /\ open /\ poll = None

\* poll_rfid, up to the answer.
PollAsks ==
    /\ MayPoll
    /\ poll' = [after |-> AfterId, upto |-> Len(rows)]
    /\ UNCHANGED <<reads, unsaved, rows, page, subscribed, open, listening,
                   baseline, field, press, old, taken>>

\* MUTANT: rows are not compared with the baseline.
NewRowsAnyAge == (poll.after + 1)..poll.upto

\* The rows of the answer that are beyond the baseline of now.
NewRows == {id \in (poll.after + 1)..poll.upto : id > baseline}

\* Nothing asks again whether the page still listens.
PollAnswered ==
    /\ poll # None
    /\ poll' = None
    /\ IF NewRows = {} THEN UNCHANGED <<baseline, field, listening, taken>>
       ELSE LET first == CHOOSE id \in NewRows : \A other \in NewRows : id <= other
            IN baseline' = first /\ Take(rows[first])
    /\ UNCHANGED <<reads, unsaved, rows, page, subscribed, open, press, old>>

\* An error ends the listening of the register page; the dialog goes on.
PollFails ==
    /\ poll # None
    /\ poll' = None
    /\ listening' = (page = "manage" /\ listening)
    /\ UNCHANGED <<reads, unsaved, rows, page, subscribed, open, baseline,
                   field, press, old, taken>>

\* apply_manual_epc; in the dialog the operator writes into the field.
TypeTag ==
    /\ open
    /\ field' = Typed
    /\ listening' = (page = "manage" /\ listening)
    /\ UNCHANGED <<reads, unsaved, rows, page, subscribed, open, baseline,
                   press, poll, old, taken>>

\* The dialog is cancelled, or its request was answered: the page listens on.
CloseDialog ==
    /\ page = "manage" /\ open
    /\ open' = FALSE
    /\ UNCHANGED <<reads, unsaved, rows, page, subscribed, listening, baseline,
                   field, press, poll, old, taken>>

\* open_tag_action, for the same record or another; an unbind hides the field
\* and leaves what it holds.
OpenDialog ==
    /\ page = "manage" /\ ~open
    /\ open' = TRUE
    /\ field' \in {Empty, field}
    /\ UNCHANGED <<reads, unsaved, rows, page, subscribed, listening, baseline,
                   press, poll, old, taken>>

CaptureNext ==
    \/ Read \/ \E n \in unsaved : (Save(n) \/ SaveFails(n))
    \/ Disconnect
    \/ PressListen \/ StartListening
    \/ PollAsks \/ PollAnswered \/ PollFails
    \/ TypeTag \/ CloseDialog \/ OpenDialog

-----------------------------------------------------------------------------
(* Properties.                                                             *)

\* A read that the table already held when the operator pressed the button is
\* never taken for the tag he holds up now: an answer that was asked for at an
\* earlier press is compared with the baseline of this one (unless the request
\* for the newest id failed, in inventory_register.py:62 and inventory.py:363).
NoOldRowIsTaken ==
    [][taken' = taken + 1 => field' \notin old]_captureVars

\* A tag the page has taken is replaced by another at most once before the
\* next press: by the one answer that was on its way (poll_rfid does not look
\* at listening again after its await).
ReplacedAtMostOnce == taken <= 2

Armed == listening /\ open /\ \E id \in 1..Len(rows) : id > baseline

\* "HTTP fallback if an in-process event was missed" (inventory_register.py:102):
\* a page that listens does not sit on a read that is in the table, even if
\* every event on the bus is lost to it.
FallbackTakesTheRead == Armed ~> ~Armed
=============================================================================
