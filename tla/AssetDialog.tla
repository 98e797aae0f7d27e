----------------------------- MODULE AssetDialog -----------------------------
(***************************************************************************)
(* The loan dialog of a browser tab (asset_confirm.py): the tag of a       *)
(* single asset is read, the tab asks the server what state the asset is   *)
(* in, and opens a dialog to take it out or to return it.  The dialog's    *)
(* state lives on the server; the screen follows it, and what the operator *)
(* does on the screen is applied to the state of the server at that time.  *)
(***************************************************************************)
EXTENDS Integers, FiniteSets

CONSTANTS
    Assets, NoOne,
    MaxSent             \* bound: requests of the dialog on their way

ASSUME DialogAssumption == NoOne \notin Assets /\ MaxSent \in Nat

VARIABLES
    status,             \* status of each asset in the database
    looking,            \* open_for_tag: what get_assets will say
    dialog,             \* state["dialog_open"], ["pending_asset"], ["mode"],
                        \* and whether the required fields are filled in
    visible,            \* the value of the dialog element
    screen,             \* the asset the operator sees asked about
    hidden,             \* a hide event is on its way from the browser
    dismissed, recent,  \* dismissed_epcs; prompted_at less than 2 s ago
    sent,               \* requests on their way
    written             \* history: the asset the fields were filled in for

dialogVars == <<status, looking, dialog, visible, screen, hidden, dismissed,
                recent, sent, written>>

Statuses == {"in_stock", "checked_out", "maintenance"}
Modes == {"take_out", "return"}
Requests == [mode : Modes, asset : Assets, meant : Assets \cup {NoOne}]

\* The dialog is on the screen only with an asset, and every request of it is
\* about one.
DialogTypeOK ==
    /\ status \in [Assets -> Statuses]
    /\ looking \in [Assets -> Statuses \cup {"no"}]
    /\ dialog \in [open : BOOLEAN, asset : Assets \cup {NoOne}, mode : Modes,
                   filled : BOOLEAN]
    /\ visible \in BOOLEAN /\ hidden \in BOOLEAN
    /\ visible => dialog.asset # NoOne
    /\ screen \in Assets \cup {NoOne} /\ written \in Assets \cup {NoOne}
    /\ dismissed \subseteq Assets /\ recent \subseteq Assets
    /\ sent \subseteq Requests

DialogInit ==
    /\ status \in [Assets -> Statuses]
    /\ looking = [a \in Assets |-> "no"]
    /\ dialog = [open |-> FALSE, asset |-> NoOne, mode |-> "take_out", filled |-> FALSE]
    /\ visible = FALSE /\ screen = NoOne /\ hidden = FALSE
    /\ dismissed = {} /\ recent = {}
    /\ sent = {} /\ written = NoOne

-----------------------------------------------------------------------------
\* open_for_tag up to get_assets: the tab looks at dialog_open here only.
TagSeen(a) ==
    /\ ~dialog.open
    /\ a \notin dismissed /\ a \notin recent
    /\ looking[a] = "no"
    /\ looking' = [looking EXCEPT ![a] = status[a]]
    /\ UNCHANGED <<status, dialog, visible, screen, hidden, dismissed, recent,
                   sent, written>>

\* MUTANT: the fields keep what was typed.
OpenedKeepsFields(a, mode) ==
    [open |-> TRUE, asset |-> a, mode |-> mode, filled |-> dialog.filled]

\* MUTANT: pending_asset is not replaced.
OpenedForgetsAsset(a, mode) ==
    [open |-> TRUE, asset |-> dialog.asset, mode |-> mode, filled |-> FALSE]

Opened(a, mode) ==
    [open |-> TRUE, asset |-> a, mode |-> mode, filled |-> FALSE]

\* open_for_tag from there on: an open dialog is turned into this one.
AssetFound(a) ==
    /\ looking[a] # "no"
    /\ looking' = [looking EXCEPT ![a] = "no"]
    /\ IF looking[a] = "maintenance" THEN UNCHANGED <<dialog, visible, recent>>
       ELSE /\ dialog' = Opened(a, IF looking[a] = "in_stock" THEN "take_out" ELSE "return")
            /\ visible' = TRUE
            /\ recent' = recent \cup {a}
    /\ UNCHANGED <<status, screen, hidden, dismissed, sent, written>>

\* httpx.HTTPError, or the asset has been deleted.
LookupFails(a) ==
    /\ looking[a] # "no"
    /\ looking' = [looking EXCEPT ![a] = "no"]
    /\ UNCHANGED <<status, dialog, visible, screen, hidden, dismissed, recent,
                   sent, written>>

\* The browser shows what the server last said; a dialog that goes away says so.
ScreenFollows ==
    LET due == IF visible THEN dialog.asset ELSE NoOne
    IN /\ screen # due
       /\ screen' = due
       /\ hidden' = (hidden \/ due = NoOne)
       /\ UNCHANGED <<status, looking, dialog, visible, dismissed, recent, sent, written>>

\* The dialog is not persistent: a click beside it closes it.
ClickBeside ==
    /\ screen # NoOne
    /\ screen' = NoOne /\ visible' = FALSE /\ hidden' = TRUE
    /\ UNCHANGED <<status, looking, dialog, dismissed, recent, sent, written>>

\* MUTANT: a dialog that was hidden is not noticed.
AfterHideNothing == dialog

\* _on_hide
AfterHide == [dialog EXCEPT !.open = FALSE]

HideArrives ==
    /\ hidden /\ hidden' = FALSE
    /\ dialog' = AfterHide
    /\ UNCHANGED <<status, looking, visible, screen, dismissed, recent, sent, written>>

\* The operator writes a user and a project: that takes longer than the screen
\* needs to follow the server.
FillIn ==
    /\ visible /\ screen = dialog.asset
    /\ dialog.mode = "take_out"
    /\ dialog' = [dialog EXCEPT !.filled = TRUE]
    /\ written' = screen
    /\ UNCHANGED <<status, looking, visible, screen, hidden, dismissed, recent, sent>>

\* submit up to its request; a take-out needs both fields.
Submit ==
    /\ screen # NoOne /\ Cardinality(sent) < MaxSent
    /\ dialog.mode = "take_out" => dialog.filled
    /\ sent' = sent \cup {[mode |-> dialog.mode, asset |-> dialog.asset,
                           meant |-> IF dialog.mode = "take_out" THEN written ELSE screen]}
    /\ UNCHANGED <<status, looking, dialog, visible, screen, hidden, dismissed,
                   recent, written>>

\* submit from there on: whichever dialog is open by now is closed.
Accepted(r) ==
    /\ r \in sent
    /\ status[r.asset] = IF r.mode = "take_out" THEN "in_stock" ELSE "checked_out"
    /\ status' = [status EXCEPT ![r.asset] =
                     IF r.mode = "take_out" THEN "checked_out" ELSE "in_stock"]
    /\ sent' = sent \ {r}
    /\ dialog' = [dialog EXCEPT !.open = FALSE]
    /\ visible' = FALSE
    /\ UNCHANGED <<looking, screen, hidden, dismissed, recent, written>>

\* Refused by the server, or lost: the dialog stays.
Refused(r) ==
    /\ r \in sent
    /\ sent' = sent \ {r}
    /\ UNCHANGED <<status, looking, dialog, visible, screen, hidden, dismissed,
                   recent, written>>

\* dismiss: the asset of the server's state, whatever the screen shows.
Dismiss ==
    /\ screen # NoOne
    /\ dismissed' = dismissed \cup {dialog.asset}
    /\ dialog' = [dialog EXCEPT !.open = FALSE]
    /\ visible' = FALSE
    /\ UNCHANGED <<status, looking, screen, hidden, recent, sent, written>>

TwoSecondsPass(a) ==
    /\ a \in recent /\ recent' = recent \ {a}
    /\ UNCHANGED <<status, looking, dialog, visible, screen, hidden, dismissed,
                   sent, written>>

\* Another tab or client books a loan (TagDesk has how); nothing in the program
\* puts an asset into maintenance or takes it out of it.
Elsewhere(a) ==
    /\ status[a] # "maintenance"
    /\ status' = [status EXCEPT ![a] =
                     IF status[a] = "in_stock" THEN "checked_out" ELSE "in_stock"]
    /\ UNCHANGED <<looking, dialog, visible, screen, hidden, dismissed, recent,
                   sent, written>>

DialogNext ==
    \/ \E a \in Assets : \/ TagSeen(a) \/ AssetFound(a) \/ LookupFails(a)
                         \/ TwoSecondsPass(a) \/ Elsewhere(a)
    \/ ScreenFollows \/ ClickBeside \/ HideArrives
    \/ FillIn \/ Submit \/ Dismiss
    \/ \E r \in sent : Accepted(r) \/ Refused(r)

-----------------------------------------------------------------------------
(* Properties.                                                             *)

\* A take-out is only sent for the asset whose form was filled in: the read of
\* another tag may turn the dialog into its own at any moment
\* (asset_confirm.py:146 asks before the await), but it empties the fields.  A
\* return has no field that would protect it.
TakeOutNamesItsAsset ==
    \A r \in sent : r.mode = "take_out" => r.meant = r.asset

\* The tab does not go silent: while it takes no tag because a dialog is open,
\* a dialog is on the screen or about to be, or the event that ends this is on
\* its way.
SilentOnlyWhileAsking ==
    dialog.open => visible \/ screen # NoOne \/ hidden
=============================================================================
