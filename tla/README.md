# Smart EE Inventory — TLA+ models and proofs

The program keeps electronic parts in cabinets of slots. Every slot may carry an
RFID tag. A reader polls the tags in one read zone; a watchdog turns the reads
into *appear* and *disappear* transitions; a transition of a slot's tag puts a
pending operation (take-out or return) in a log and asks an operator to confirm
or cancel it. Single assets carry tags too and are lent and returned by hand;
bills of materials are imported from CSV and compared with the stock. This
directory models the program from the serial line to the browser tab in TLA+,
checks it with TLC and proves its main invariants with TLAPS.

Paths below are relative to the repository (`src/`).

## 1. Inventory

| Component | State | Operations | Hard behaviour | What makes it correct |
|---|---|---|---|---|
| Slots, stock, operation log (`backend/services/inventory_service.py`, `operation_service.py`, `inventory_manage_service.py`, `inventory_edit_service.py`) | `bin_slots`, `inventory_items`, `bin_cabinets`, `inventory_operations` | register, bind / rebind / unbind tag, delete, edit, PATCH, watchdog transition, confirm, cancel, clear all | answers arrive long after the request; six slot statuses; a log whose rows are rewritten; a cabinet status derived by hand | one open question per slot; questions stay answerable; log rows chain up to the stock; statuses match the questions; back in stock only by a confirmed return |
| Stock ledger (`inventory_transactions`) | rows written in the same commit as some stock changes | register, take-out, return | not every handler writes it; ids of the log are reused | every answer is booked with its quantities; the ledger states the stock; returns never exceed take-outs |
| Database sessions (`backend/db/session.py`) | one session per request or transition | SELECTs, one commit | no lock and no version column: check-then-act across awaits | commits have the effect of whole handlers; an operation is answered once |
| Presence watchdog (`backend/services/presence_watchdog.py`) | present set, streaks, last-seen times | `on_tag`, `tick`, `end_bootstrap` | late ticks, stray reads, bootstrap | no early disappearance; appear needs a number of reads; presence and absence are noticed |
| Presence flow (`backend/core/lifespan.py`) | watchdog, tick task, bootstrap task | gateway event, tick, start, stop | reads in line, slow subscribers, exceptions, restart | slots say where the watchdog has their tags; lasting absence and presence reach the slots |
| Gateway, reader and board (`gateway/`) | port, frame buffer, loop task; the board's inventory | start, poll, hand over, stop; command, report | cuts of the stream, noise, a dying task, failed open and write, a killed program | tags are handed over as sent, in order, once; noise costs only the frames it claims |
| Frame protocol (`gateway/protocol/frames.py`) | the buffer | build, check, parse, feed | half headers, corrupt lengths | the buffer never sits on a whole frame |
| Event bus and websockets (`backend/core/events.py`, `backend/ws/`) | subscribers, sockets | publish, broadcast, disconnect | a slow subscriber holds up the reader | every live client is told |
| Confirmation dialog and tab hub (`frontend/components/presence_confirm.py`, `frontend/services/global_inventory_events.py`) | per tab: dialog state, prompted ids | open by event or poll, confirm, cancel, clear log | responses in any order, failed requests, several tabs, id reuse | every pending operation is shown; a question stays on the screen until it is answered |
| Capture of tags in the pages (`inventory_register.py`, `inventory.py`, `rfid_listener.py`) | listening flag, baseline row, EPC field | press, read, poll | the same read comes by bus and by poll, in any order; answers on their way | no read from before the press is taken; a read the bus dropped is taken from the table |
| Tag registry (`backend/services/epc_binding.py`) | tags of slots, assets, cabinets | look-up, availability check | uniqueness across tables is asked for, not enforced | a tag means one thing |
| Asset loan (`operation_service.py`, `inventory_manage_service.py`, `asset_confirm.py`) | assets, their log rows; the loan dialog | register, tag changes, edit, delete, take-out, return | ids of deleted assets come back; look-ups overtake each other; the dialog follows the last tag | status and tag are what the log says; loans alternate; a take-out names the asset its form was filled in for |
| BOM analysis (`bom_service.py`) | bills of materials | import, preview, analyse | three layouts, concurrent imports, repeated parts, part numbers in two spellings | a saved BOM is one file as written; verdicts tell whether the kits can be picked |
| Unbound-tag prompt (`global_inventory_events.py`) | dismissed, snoozed, prompted times | prompt, ignore, go to register | repeated reads | no prompt while snoozed or dismissed |
| Remaining pages, schemas, configuration, migration, seed, tools | — | — | — | not modelled, see section 8 |

Interactions: the gateway task awaits `_on_gateway_event` for every read, which
publishes on the in-process bus (websockets and browser tabs) and then calls the
watchdog; the tick loop calls it too. Both hand their transitions to
`create_presence_pending_action`, in a database session of its own, and publish
the pending operation. A tab shows it, calls the API, and the API handler opens
another session. All of this shares one event loop; the interleaving points are
the awaits.

## 2. Modules

| Module | Models | Built on |
|---|---|---|
| `Custody` | abstract: where each slot's container is held to be and when its stock may change | — |
| `SlotOperations` | the handlers of slots, stock and log, each one atomic action | — |
| `SlotCustody` | the refinement mapping: `SlotOperations` implements `Custody` | `SlotOperations`, instance of `Custody` |
| `StockLedger` | the ledger beside it | `SlotOperations` |
| `SlotSessions` | the handlers opened up into database sessions | `SlotOperations` |
| `PresenceWatchdog` | the watchdog with its clock | — |
| `PresenceFlow` | the tasks of the lifespan between reader, watchdog and slots, faults, restarts | `PresenceWatchdog`, instance of `Custody` |
| `RfFrames` | frames, checksums, tag-length-value blocks, the frame buffer | — |
| `Gateway` | board, serial line, reader and gateway service | `RfFrames` |
| `ConfirmDialog` | the dialogs of browser tabs, against a server that is only its log | — |
| `TagCapture` | how the register page and the tag dialog take a tag | — |
| `AssetDialog` | the loan dialog of a tab | — |
| `ScanTab` | a tab with either of the two | `TagCapture`, `AssetDialog` |
| `TagDesk` | tags across slots, assets and cabinets; the life of single assets | — |
| `BomCsv` | the CSV layouts as operators | — |
| `BomDesk` | catalogue, imports, analysis | `BomCsv` |
| `…_proofs` | theorems about the module of that name; `SlotOperations_proofs` about `SlotCustody` and `StockLedger` too, `PresenceFlow_proofs` about `PresenceWatchdog`, `Gateway_proofs` about `RfFrames`, `BomDesk_proofs` about `BomCsv` | that module, TLAPS |
| `MC…` | constants for TLC | the module of that name (`MCSlotOperations`: `SlotCustody`) |

### SlotOperations

`slotStatus`, `slotEpc`, `hasItem`, `qty`, `cabStatus` are the columns of
`bin_slots`, `inventory_items` and `bin_cabinets`; `ops` is
`inventory_operations` with the row id as index. SQLite's ids are max(rowid)+1
(the column is no `AUTOINCREMENT`), so they start again at 1 when the log is
cleared, which is what a sequence does. A slot that is not created yet is
`"absent"`. `Register`, `BindTag`, `RebindTag`, `UnbindTag`, `DeleteRecord`,
`EditItem`, `PatchSlot` are the operator's changes; `LeaveUnregistered`,
`RequestTakeOut`, `RequestReturn` the three effects of a watchdog transition;
`ConfirmTakeOut`, `ConfirmReturn`, `Cancel`, `ClearAll` the answers. A refused
request (`ValueError`, HTTP 4xx) changes nothing and is no step. The log row's
free-text note is reduced to the one thing the code reads back from it, the
`from_checkout_unregistered` mark (`reconcile`). User and project names, part
data and row statuses that nothing reads are left out. `PatchStatuses` is what
the slot editor offers (`frontend/pages/slots.py`), `PatchEpcs` the tags it may
write, taken as normalised; both empty means nobody uses PATCH.

### Custody and SlotCustody

`Custody` knows no log, no statuses, no tags: a container is in, out, asked
about, or was moved without being booked; the stock changes with an answer or a
manual count only, and a return gives back one unit only if one was booked out.
`SlotCustody` reads the open questions from the log, the "was it booked" from
the row's mark, and the rest from the slot's status.

### StockLedger

Adds `txns`. `BookedRegister` and `BookedAnswer` conjoin the handler with its
ledger row, `Unbooked` lists the handlers that write none. `ref` is
`reference_id`, 0 for a registration.

### SlotSessions

Each watchdog task and each API request is a session: a request opens it
(`Ask…`), `Read…` is one SELECT on the state committed by then, `Commit…` all
writes and the commit in one step. That is SQLite's behaviour under the engine
of `backend/db/session.py`: reads run outside a transaction, the first write
takes the database lock, and the lock is kept until commit. SQLAlchemy's UPDATE
names the changed columns only (`Column`), the rest of the row is as others left
it. A request may also end without a commit (`Refuse`). The SELECTs of the other
slots by `_sync_cabinet_status` run after the first write, under the lock.
`Synced` is `SlotOperations` seen with every cabinet's status computed anew from
its slots: a commit is a step of it if it does what the whole handler would have
done to everything but the cabinets. `Settled` says of an operation that it is
answered and that no session that read it as pending is still under way.

### PresenceWatchdog

Time is discrete, and the ages `now - last_seen` stop counting at `MaxAge`. The
tick loop sleeps before every tick, so two ticks are `TickEvery` or more apart:
late ticks are allowed, early ones are not. `heard`, a history variable, is the
true time since the tag was last read.

### PresenceFlow

The reads the board has sent wait in `line`, which stands for the serial buffer and
the list `poll_tags` returned, in the order they came. The gateway's task takes
the first (`Receive`) when it has nothing in hand and no transition left to
handle. `_on_gateway_event` is cut where it waits: `Receive` is also the look-up
and the start of the publishing, `Deliver` the call of `on_tag` after the last
subscriber. A tag's true silence (`heard`) ends when the board reads it
(`Report`); its age only when the read is delivered. Tags of no slot (`Others`)
have their reads looked up and published too: they take the task's time.
Each of the two
tasks handles the transitions it was given one by one (`work`,
`HandleTransition`), so their handling interleaves. `Handle` is an ask step of
`Custody`, `NothingToDo` the cases in which `create_presence_pending_action`
returns `None`. Fault `"lookup"` is an exception that leaves
`_on_gateway_event` and ends the gateway's task; `"handling"` one that
`_handle_presence_transition` logs. `Restart` keeps the database and loses
everything else. `missed` (history) holds the tags whose slot nothing has told
of their last move, by one of the ways the properties name.

### RfFrames and Gateway

Bytes have `ByteRange` values; the layout, the checksum, the signed strength and
the two-byte length are the code's. `Drain` is `FrameBuffer._drain` applied
until nothing changes. In `Gateway` the line is a queue of bytes (`wire`), a
read takes any number of them up to the chunk size, and a poll is as many reads
as find something. Opening a port discards its input, but not the rest of a frame
that is being sent (`FreshLine`). `SerialPort.open` returns at once when the port
is open already, which a `stop` that raised leaves it: the bytes that wait in it
stay, the half-read frame in front of them is gone with the old buffer
(`SameLine`). An EPC is short enough for the one-byte length of its block, on a
longer one `build_tag_upload_notification` raises. Faults: the port does not open, a command cannot be
written, a read raises, `on_event` raises, a byte is added or changed, the
program is killed. `stream` and `sent` (history) are what came down the line and
where each frame was put in it; `Expected`, the tags of the frames that came
through whole, is read from them without the buffer. A header claims the bytes up
to the end of its frame, and begins one unless it lies in bytes that are claimed
(`Beginnings`). A frame is `Swallowed` when the header that claims its first byte
is none that was sent, or one whose length field arrived changed; a `Coincidence`
is a checksum that fits a frame nobody sent.

The board is `board_simulator.py`, the only description of it in the
repository.

### ConfirmDialog

`dlg` is the `state` dict of `mount_presence_confirm_dialog`, `told` the bus
events on their way to a tab, `listed` the poll's response, `sent` the requests
of the buttons under way, `seen` history. The poll returns the ten newest
pending operations in ascending order and looks at the first one, so with fewer
than ten that is the oldest. The browser follows `open()` and `close()` when it
gets to it (`screen`, `ScreenFollows`) and reports a dialog that it has hidden
(`hidden`); `_on_hide` may run when the next question is open (`HideArrives`). The
buttons are never disabled: `Press` may happen while answers are under way, up
to `MaxPresses` of them. `excused` (history) holds the tabs that had one of the
three excuses to lose a question: a second press, a late hide event, a cancel
that did not reach the server. The dialog that a row of the operations page
opens (`inventory_operations.py:125-131`) and its loading of the pending
operations are left out.

### TagCapture, AssetDialog, ScanTab

A read goes to the bus and, by a task of its own, to the table `rfid_events`.
A page that listens takes it from the bus or, once a second, asks for the newest
row with an id above the baseline it got when the button was pressed. Bus
events may be lost (`on_disconnect` unsubscribes the listener for good), rows
may be late or never come, and answers of polls come back whenever they do. The
two pages differ: an error or a typed tag ends the listening of the register
page; the dialog of the stock page listens on, even after it was closed, and an
unbinding opens it with what its field held.

The loan dialog asks the server for the asset of a tag and opens when the answer
comes; its Python state is shared by all openings, while what the operator sees
(`screen`) follows it later. The hide event of a closed dialog arrives at any
time. `ScanTab` puts the two side by side; they share no state, and the operator
is busy with one of them.

### TagDesk

A request reads and decides (`Read…`), later it writes and commits (`Commit`);
others may come between. The unique index of each table is kept, the check
across tables is part of the reading only. `PatchCabinet` and `PatchSlot` are
the forms that do not ask (`create_bin`, `update_bin`, `update_slot`). Ids and
automatic codes are given out as SQLite and `_next_asset_code` do, so those of a
deleted last asset come back. A delete of a row that is already gone matches
nothing and still commits its log row. `raced` and `racedIds` (history) note about which
tags and assets requests overlapped.

### BomCsv and BomDesk

`Parse` is `parse_bom_csv` on rows of cells: section for head and lines, one
flat table, or lines alone. In `BomDesk` a file also carries `doc`, what its
author meant, from which the properties are stated. `InLayout` says, apart from
the parser, when rows say what `doc` says: which row holds the head, which one the
headings, and that each row below has one cell under each heading. The columns
stand in any order, under any of their names, with others between them; a cell
that overflows, a row too short or a heading twice is in no layout. An import reads
(`ReadImport`) and writes in one transaction (`WriteImport`); SQLAlchemy updates
only the columns that differ from what was read, so two imports can mix the
name of one with the version of the other (`stale`). Part numbers are compared
in upper case by an import, exactly by the catalogue.

## 3. Runs

Passing runs and what they show:

| Run | Instance | Shows |
|---|---|---|
| `SlotsTwo` | 2 slots, 1 cabinet, 2 tags, stock ≤ 2, 3 log rows, no PATCH, symmetric | `TypeOK`, `PendingMatchesSlot`, `CabinetAlertIsCurrent`, `BackInStockOnlyByReturn`, `ImplementsCustody` |
| `LedgerBooked` | 1 slot, 1 tag, PATCH, stock ≤ 1, consumption ≤ 2, 3 log rows, 3 ledger rows | `LedgerTypeOK`, `AnswersAreBooked`, `AuditTrail`, `PendingIsAnswerable` |
| `SessionsOneOperator` | 1 slot, both watchdog sessions, 1 operator confirming, cancelling and editing | `SesTypeOK`, `OnePendingPerSlot`, `ActsAtomically` (until the operator edits, every commit is a step of `SlotOperations`), `AnsweredOnce` |
| `WatchdogTwoTags` | 2 tags, counts 2 / 3, grace 2, tick 2, fair | `DisappearOnlyAfterSilence`, `AbsenceIsNoticed`, `PresenceIsNoticed` |
| `Flow` | 1 tag with a slot, 1 passing tag, counts 2 / 2, grace 1, tick 1, 1 read of each tag in line, reads held up for up to 2, both faults, 2 restarts, fair | `FlowTypeOK`, `SlotFollowsTag`, `EarlyOnlyWhileHeldUp`, `AbsenceReachesSlot`, `PresenceReachesSlot` |
| `Dialogs` | 1 tab, 3 operations, 2 answers under way, lost cancels, late hide events, answers from elsewhere, one clearing of the log, fair | `TypeOK`, `EveryPendingIsPrompted`, `ShownUntilAnswered` |
| `Gateway` | 16-valued bytes, 2 tags in the field, reads of 1–12 bytes, 2 frames a connection, 2 starts, 1 fault of any kind | `GatewayTypeOK`, `TagsAsSent`, `BufferHoldsOneFrame` |
| `TagDesk` | 2 operators, 2 tags, 1 slot, 1 cabinet, 1 asset id, 3 log rows, symmetric | `DeskTypeOK`, `TagMeansOneThing`, `LogTellsAsset`, `LoansAlternate` |
| `ScanTab` | both forms, 3 reads; 2 assets, 2 requests on their way; fair | `TabTypeOK`, `NoOldRowIsTaken`, `ReplacedAtMostOnce`, `FallbackTakesTheRead`, `TakeOutNamesItsAsset`, `SilentOnlyWhileAsking` |
| `Bom` | 2 operators, 2 slots, 4 files of the 3 layouts, 3 catalogue entries, 1 unit a slot, 1–2 kits, symmetric | `BomTypeOK`, `SavedAsWritten`, `VerdictsTellPicking` |

Violated claims (each is a finding in `PROJECT.json`, with the line that claims
it):

| Run | Claim | What happens |
|---|---|---|
| `LedgerOvercount` | cancelling keeps status and stock together | cancel take-out, cancel return, leave, return: one unit too many |
| `SessionsTwoAnswers` | a handled operation is refused | two overlapping answers both commit |

The passing runs hold where their instances and their exceptions say, and not
beyond:

* `PendingMatchesSlot`, `BackInStockOnlyByReturn` and `ImplementsCustody` need
  operators who do not PATCH a slot's status: the slot editor offers `occupied`
  for every slot, and one PATCH puts a slot that is out back in stock.
* `CabinetAlertIsCurrent` tells alerts apart, not `active` from `empty`:
  registration does not call `_sync_cabinet_status`. It is about atomic handlers;
  overlapping sessions on two slots of a cabinet can leave a stale status.
* `PendingIsAnswerable` is about atomic handlers; an edit that looked at the log
  before a take-out was requested may commit after it. `AnsweredOnce` needs a
  single operator, `ActsAtomically` one who has not edited and, as the run has it,
  cabinets of one slot (section 6 has what remains for several).
* The ledger is complete for registrations, take-outs and returns. Edits are not
  booked, so its last row need not state the stock.
* `PresenceIsNoticed` does not say that the reads that make a tag appear are
  consecutive, as `docs/RFID_MULTIPLEXER_WATCHDOG.md:296` asks: a streak of reads
  is only forgotten when the tag appears, never by a tick that misses it.
* `SlotFollowsTag`, `AbsenceReachesSlot` and `PresenceReachesSlot` except a tag
  whose move crossed an open question, was overtaken by the move back while the
  other task was still handling, was lost in an exception, or happened while the
  program was down, and a slot filled while its tag was away. Nothing repairs
  these until the tag moves again. `PresenceReachesSlot` also needs the gateway's
  task: once `_on_gateway_event` has raised, it is dead while `connected` is
  still true, and the watchdog goes on to report the tags gone.
* `EarlyOnlyWhileHeldUp` does not say that no tag is reported gone early: the
  code does it to a tag whose read waits, behind the subscribers, behind the
  reads of other tags, or while the task handles a transition, and to every tag
  once the task is dead. It says that there is no other way.
* `ShownUntilAnswered` has three excuses, each of which does lose a question. A
  cancel whose request fails closes the dialog although the operation stays
  pending (`presence_confirm.py:126` swallows the error). The second of two
  presses gets its response when the next question is open, and closes that one.
  The hide event of a question that was closed comes when the next is open and
  clears `dialog_open`, so that the one after it takes its place.
* `EveryPendingIsPrompted` excepts the times at which the poll stops at an
  operation that the tab has given up in this way: it is in `prompted_ids` and
  never opened again, and a later operation whose event was dropped is not shown
  before someone answers it elsewhere. It is promised until the log is first
  cleared: other tabs keep their `prompted_ids` when the ids start again at 1.
* `TagsAsSent` allows for the frames a changed length field swallows, and for a
  checksum that fits by chance. `Gateway` has the failures the service does not
  recover from as steps: a port that could not be opened is not tried again, a
  start command that could not be written leaves the port open, and `stop` on a
  dead task raises before it disconnects. No property promises otherwise.
* `TagMeansOneThing` excepts tags about which requests overlapped and those a
  form wrote without asking; `LoansAlternate` excepts assets about which requests
  overlapped. `LogTellsAsset` excepts nothing.
* `TakeOutNamesItsAsset` is about take-outs. A return has no field to fill in:
  pressing its button books the asset of whichever dialog came last.
* `SavedAsWritten` excepts the head of a BOM written over one that had changed
  since it was read. `VerdictsTellPicking` needs a catalogue with one spelling of
  each part number, and, for "all ok means it can be picked", no part on two
  lines: each line is given the whole stock.

## 4. Bounds

* Log rows (`MaxOps` 3): take-out and return of one slot with a row before them;
  the cycles repeat after that. `LedgerOvercount` has 4, the length of its
  counterexample. `ClearAll` empties the log, so runs are not cut short.
* Stock (`MaxQty` 2 in `SlotsTwo`) has the three cases the code tells apart:
  none, last unit, more. `MaxConsumed` 2 exceeds the stock a return can find, so
  the clamp is met.
* Two slots in one cabinet: enough for each alert to hide another. Slots are
  symmetric there because the cabinet map is constant.
* Two tags: one bound and one to rebind to; `ForeignEpcs` is empty in the runs
  because a foreign tag only removes steps, and arbitrary in the proofs.
* Watchdog: `MaxAge` 7 exceeds grace + two ticks (6), beyond which ages are not
  compared. Tags do not interact; two of them show that the loop treats them
  apart.
* Flow: `MaxAge` 3 exceeds grace + one tick, `MaxDelay` 2 is as much, so a read can
  be held up until the silence seems over. One read of each tag in line is
  enough for one to wait behind the other, and behind a transition; a further
  read of a tag that waits already would not bring its delivery forward. The
  passing tag has no slot: that the slots of several tags do not meet, and longer
  lines, are in the theorems, which cover any number of both. Two restarts: one
  that loses a move, one after it.
* Dialog: three operations are one on display, one whose event is lost while it
  is, and one that blocks the poll; two answers under way are a first and a second
  press, of the same button or of both. One tab: tabs share only the log, so what
  another tab does arrives as an answer from elsewhere; what several tabs do to
  each other by clearing is excepted (section 3).
* Gateway: four-bit bytes keep every computation's wrap-around (checksum, sign,
  length) while EPCs that contain the header bytes `R`, `F` and their prefix make
  false headers happen. Two frames in one connection are one that may be damaged
  and one behind it, with one fault of any kind. The history variables grow with
  the frames, hence the bound. The theorems hold for any number of both; several
  faults can do what one cannot (a false header whose length a second one changes).
* Tag desk: one asset id is enough for reuse, since a deleted last asset gives its
  id to the next; two operators are what an overlap takes.
* Scan tab: three reads are one before the press, one the bus loses, one that
  replaces; two requests on their way can be answered in either order.
* BOM: four files cover the three layouts, a repeated part, both spellings of a
  number, an optional line, and three of them share one code. Two kits and one
  unit a slot make every verdict occur.

Deadlock is checked in all runs except `Dialogs`, where everything may have been
answered with no row left to add, and `Gateway`, where the service may be stopped
with no start left.

## 5. Fairness

* Watchdog: time passes, the tick loop and the bootstrap task are started by the
  lifespan and never end (weak fairness of `Elapse`, `Tick`, `EndBootstrap`); the
  reader polls continuously, so a tag that stays in the zone is read again
  (weak fairness of `OnTag`). Moving tags has no fairness.
* Flow: the same; the task takes the next read, a subscriber returns and each task
  goes on with its list (weak fairness of `Receive`, `Deliver`,
  `HandleTransition`). The board reports every tag in its field on every round
  (weak fairness of `Report`, per tag). Passing tags, faults, restarts, moves and
  operators have no fairness.
* Dialog: the event loop delivers events and responses, the 5 s timer fires, and
  the browser shows, hides and reports (weak fairness). An operator who is shown a dialog, which is persistent and
  covers the page, does not leave it for ever: strong fairness of pressing
  *cancel*, because an open request disables the step in between. New
  operations, confirmations and clearing the log have no fairness.
* Scan tab: the page's timer fires (weak fairness of `PollAsks`), and the server
  does not fail every request for ever (strong fairness of `PollAnswered`).
  Neither the read, nor the bus, nor the writing of the row is promised.

## 6. Proofs

`SlotOperations_proofs` proves for every set of slots, cabinets, tags and every
bound, from the named assumptions of `SlotOperations` only:

* `TypeCorrect` : `Spec => []TypeOK`. `qty \in [Slots -> Nat]` is part of it: no
  stock is ever negative.
* `LogCorrect`, and from it `OnePendingPerSlotHolds`, `AuditTrailHolds`,
  `PendingIsAnswerableHolds`. None of the three is inductive: an answer appends
  nothing but rewrites an old row, so the chain would break if anything had been
  logged behind it. `LogInv` adds `PendingRowIsFresh`: an open question is the
  last row about its slot, states the present stock as before and after, and its
  record exists. Every handler that logs a row first checks that no question is
  open (`Manageable`, `PresenceApplies`) or that the slot has no stock record
  (`Register`), which contradicts an open question. PATCH is included.
* `SlotsCorrect`, and from it `PendingMatchesSlotHolds` and
  `BackInStockOnlyByReturnHolds`, under `PatchStatuses = {}`: nobody overwrites a
  status with PATCH. Without this assumption both are false (section 3).
  `SlotInv` adds that a slot without stock record is absent or empty.

`CabinetAlertIsCurrentHolds` is proved under the same assumption. The alert depends only on which kinds of trouble the cabinet's slots have
(`AlertCases`); a handler that does not call `_sync_cabinet_status` moves slots
between statuses that raise none (`Neutral`), by `SlotInv` for registration.

Then the two refinements. `SlotsImplementCustody`, under
`PatchStatuses = {}`: every handler maps to a step of `Custody` or to a stutter.
The mapping reads the log; with `SlotInv` a place can be told from the slot's
status, and only the mark of an open return has to be looked up (`Where`). The
invariant adds `EmptyHasNone`: an empty slot has no units, and a slot with a stock
record is neither absent nor disabled. `LedgerImplementsSlots`
(`LedgerSpec => Spec`, the variables keep their names): the theorems above hold
with the ledger. `LedgerTypeCorrect`; and `AnswersAreBookedHolds`: an answer is the
only step that makes a row of the log bookable, and it books it in the same step.

`SlotSessions_proofs`, where a handler is several statements and anything may come
between them, for any number of slots, cabinets and rows:

* `SessionsTypeCorrect`, for any number of operators: a session may hold a slot, a
  quantity or a row that has changed since, and still no stock goes below zero and
  no row is written that is not one.
* `SettledForGoodHolds`, for any number of operators: once an operation is settled it
  stays so. A second answer can only come from a session that read the operation
  before the first answer was committed; the two must overlap, as they do in run
  `SessionsTwoAnswers`. Answers that do not overlap are refused whoever gives them.
* `OneQuestionPerSlotInSessions`, `LogOfSessionsCorrect` and
  `ActsAtomicallyButCabinetsHolds`, for one operator beside the watchdogs
  (`OneOperator`). The invariant `OneInv` says of each session what it still *knows*
  (`Knows`): what a session has read of its slot and of its operation is what is
  there now, until it commits. It is inductive because the other sessions that are
  live are about other slots (`LiveApart`), or are a second request that will be
  refused. With two operators it is false.
* What `LogOfSessionsCorrect` and `ActsAtomicallyButCabinetsHolds` say ends with the
  first edit by hand (`NoManual`, `NoEdits`). The latter holds for any number of slots
  in a cabinet because it leaves the cabinets' own status out: that one is computed
  under the lock from what the other slots show, but compared with what the session
  read before, and two sessions on slots of one cabinet can leave it stale. The
  theorem says that nothing else is.

`TagDesk_proofs`, for any slots, cabinets, assets, operators and rows:
`DeskTypeCorrect`; `TagMeansOneThingHolds`, from `TagInv`: a request under way that
found its tag free has it still free, unless the tag is noted in `raced`;
`LogTellsAssetHolds`, which has no exception, because the row is written in the
commit that writes the asset, and `LoansAlternateHolds`, from `LoanInv`: a request
that found an asset in or out will find it so when it commits, unless the asset is
noted in `racedIds`. Ids that come back are no exception: the row of a new asset is
the last one about its id.

`BomDesk_proofs`, for any files, catalogue, slots, stock and operators:

* `BomTypeCorrect`: whatever overlaps, every line that is saved or about to be is
  about a part of the catalogue. Parts are never removed, so what `AllKnown` found
  stays true.
* `FilesAreReadAsWritten`: for rows of any number and length, if they say `doc` in
  one of the layouts, then `Parse` returns `doc`. The lines are read by induction
  over the rows (`RowsAreLines`); the columns are found wherever they stand
  (`ColumnIs`, `HeadingAt`).
* `SavedAsWrittenHolds`, for files that keep to a layout (`MCBomDesk` checks that
  the four of the run do): `SavedInv` adds that what an import has read says what
  its file says, although catalogue entries were added since, and that a head
  that was found is one that a file has.
* `VerdictsTellPickingHolds`, from the types alone: a sum over slots is that of
  the lit ones, because the others hold nothing (`SumWithoutNothing`); a plan is
  bounded slot by slot, so its sums are (`SumsAreOrdered`); and one line's units
  are no more than all that is needed (`SumIsAtLeast`).

`PresenceFlow_proofs` begins with the watchdog alone, for every configuration:
`WatchdogTypeCorrect` and `DisappearOnlyAfterSilenceHolds`. The property speaks of
one state only; the invariant relates the count of misses to time: a tag with
n > 0 misses has an age above grace + (n − 1) ticks + the time since the last tick
(`MissesTakeTime`), and the watchdog's age never exceeds the true silence, which
the end of the bootstrap would otherwise break. `MaxAge` must lie above grace +
(`DisappearCount` − 1) ticks, or ages could not tell a full silence.

Then the flow, for any number of tags, every configuration and all faults:
`FlowTypeCorrect`, `SlotFollowsTagHolds`, `EarlyOnlyWhileHeldUpHolds`.
`FlowInv` joins them with the watchdog's own invariant of counts and time, which
the flow keeps, and with three facts: a task has handled its transitions before
it takes the next read (`HandsFree`), a unit the operator is asked to book out is
there (`CabinetOK`), and the watchdog's clock runs ahead of the silence of a
present tag only while a read of that tag waits, in line or in hand (`ReadWaits`),
or after the gateway's task has died (`AgeBehindUnlessHeld`). A read that joins the
line makes the tag's true silence zero and leaves its age; taking the first read
moves it from line to hand, and delivering it makes the age zero too.

`ConfirmDialog_proofs`, for any tabs, presses and bounds: `DialogTypeCorrect`, and
`ShownUntilAnsweredHolds`, from `KeptOrExcused`: a tab without an excuse has at most
one answer under way, to the question on display, has nothing on display when its
dialog counts as closed, and has every question it has shown on display while it
is pending. Only the first of the three keeps a response from closing another
question, only the second keeps an event from replacing one.

`ScanTab_proofs`, for any number of reads, assets and requests: `CaptureInv`
gives `TabTyped`, `OneReplacement` and `OldRowsAreNotTaken`, `DialogInv` gives
`TakeOutsNameTheirAsset` and `SilenceIsAsking`. Both are kept by the steps of the
other half because those leave their variables alone.

The layout is one lemma per group of actions for each invariant (`…Keeps…`),
which the step of the theorem combines; the effects of appending and of
replacing a row are lemmas of their own.

`Gateway_proofs`, for any tags in the field, chunk size, noise, number of frames,
faults and starts, from `GatewayAssumption` and the assumptions of `RfFrames`:
`GatewayTypeCorrect`, `BufferHoldsOneFrameHolds`, `TagsAsSentHolds`. They rest on
two results about the frame buffer alone.

* `FramesInPieces`: for any bytes b and c, feeding b and then c returns the tags
  and leaves the bytes that feeding b followed by c does. `Walk(b, i)` is `Drain` of
  the bytes from i on, without copying; it stops at a header whose frame is not
  complete, keeps a last `R`, or cuts a frame off and goes on behind it, and each of
  these goes on the same way when c has been added (`WalkGoesOn`, by induction from
  the end of the buffer). Two corollaries: what is kept holds nothing more to report
  (`DrainTwice`), and is shorter than the frame it waits for (`DrainLeavesShort`).
* `StreamIsReportedAsSent`: frames that were written one behind the other, with
  bytes added or changed anywhere, are returned if they arrived intact and are not
  swallowed, unless a checksum fits by chance. A position of the walk is `Reached`
  when no header before it begins anything that ends behind it; from there the next
  header is one that begins (`FirstBegins`) and the walk reaches the end of what it
  claims (`CutGoesOn`). What is cut off there is either a frame that arrived intact
  (`IntactIsReported`) or brings no tags and covers no frame that was due
  (`OthersAreNot`). That the board's frames tell their own length (`Framed`) and
  that their places follow each other (`Laid`) is proved about `BuildFrame`,
  `TagNotification` and `Put`.

The inductive invariant `GatewayInv` says that the bytes of the connection are
those that were read followed by those that wait (`HasRead`), that the buffer is
what parsing the former leaves, and, while the service is reading, that the tags
reported and in hand are what it returns. So nothing depends on where the reads
ended. A changed byte is one that waits, hence behind all that was read.
`TagsAsSent` by itself is not inductive: it does not say which bytes the tags so far
came from, and one more frame or a changed byte changes what is expected of them.

Induction over data: the library's induction theorems take an operator as a
parameter, which the installed provers cannot instantiate. Where a recursion has to
be unfolded, the induction goes over a *set* of numbers instead: the numbers for
which a fact holds contain 0 and, with k − 1, also k (`SetInduction`, from the
well-foundedness of the order on the naturals). That a recursive definition has a
value at all (`RecursionDefines`, `TotalsExist`), what it computes step by step
(`LinesOfRuns`), and sums over finite sets (`SubsetInduction`, `SumTakes`) follow
from it. `RECURSIVE` operators lose the SMT prover in a module, so the modules
proved about declare none.

Only model-checked are the liveness properties: `AbsenceIsNoticed`,
`PresenceIsNoticed`, `AbsenceReachesSlot`, `PresenceReachesSlot`,
`EveryPendingIsPrompted`, `FallbackTakesTheRead`. Liveness under fairness and
anything with ENABLED stay with TLC: the prover has no support for them. So do
`ActsAtomically` and `AnsweredOnce`, which hold in the run's instance and not in
general; the theorems say what does (`ActsAtomicallyButCabinetsHolds`,
`SettledForGoodHolds`). Every other property of a passing run is a theorem.

## 7. Plan

In order of importance:

1. Sessions for registration, tag changes and clearing the log, and for two slots
   of one cabinet, whose statuses overlapping sessions leave stale.
2. `Gateway` under `PresenceFlow`: the tags the one hands over as the `line` of the
   other.
3. The generation of the log in `ConfirmDialog`, so that an answer to an old id
   can be told apart, and the dialog the operations page opens by hand.
4. `delete_bin` with the slots and stock records it takes along; the unbound-tag
   prompt; the dashboard's feed.

## 8. Not modelled

* The unbound-tag prompt keeps dismissals, snoozes and a repeat interval in one
  tab and asks the server nothing but a link to the register page.
* `apply_presence_transition` books movements without asking; it is exported but
  nothing calls it.
* The websocket broadcast (`backend/ws/`): no client of it is in the repository,
  so what a message that is skipped costs cannot be read from the source. The bus
  is modelled where it matters: how long its subscribers take (`PresenceFlow`) and
  what reaches a tab (`ConfirmDialog`, `TagCapture`).
* Cabinets: the tags `create_bin`, `update_bin` and `update_slot` write are in
  `TagDesk`, a slot's statuses in `SlotOperations`; `delete_bin`'s cascade is
  not modelled, nor the edits of components, which are single-row writes.
* In BOMs: designators, notes, the listing and the preview, which is the analysis
  without the writes; that a code is made of word characters.
* Pages contribute the calls they make and their tag forms; layout, the
  formatting of texts, logging, migrations, seed data, the simulator's window and
  the serial test tools are outside the models.

`hazards` in `PROJECT.json` lists, at its line, what each property watches and
what no property covers.
