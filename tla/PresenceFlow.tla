---------------------------- MODULE PresenceFlow ----------------------------
(***************************************************************************)
(* How reads become questions (lifespan.py): the board's reads wait in     *)
(* line for the gateway's task, which looks a read tag up, waits for every *)
(* subscriber of the event bus and only then tells the watchdog; the tick  *)
(* loop runs beside it.  Each of the two tasks handles the transitions the *)
(* watchdog returned to it one by one and does nothing else meanwhile.  A  *)
(* handled transition is an Ask step of Custody for the slot the tag is    *)
(* bound to.                                                               *)
(*                                                                         *)
(* The program may stop and start again at any time.  The database keeps   *)
(* the slots; the watchdog and all transitions under way are gone.         *)
(***************************************************************************)
EXTENDS PresenceWatchdog, Sequences, FiniteSets

CONSTANTS
    Others,         \* tags of no slot: their reads only take the task's time
    NoTag,
    MaxReads,       \* bound: how many reads of one tag wait in line
    MaxDelay,       \* how long the subscribers may hold up a read
    MaxQty,
    MaxConsumed,
    Faults,         \* what may go wrong
    MaxRestarts     \* bound: how often the program is started again

\* "lookup": the binding lookup raises, and the gateway's task ends for good.
\* "handling": create_presence_pending_action raises; the transition is lost.
FaultKinds == {"lookup", "handling"}

ASSUME FlowAssumption ==
    /\ NoTag \notin Epcs \cup Others /\ Epcs \cap Others = {}
    /\ MaxReads \in Nat \ {0}
    /\ MaxDelay \in Nat /\ MaxRestarts \in Nat
    /\ MaxQty \in Nat /\ MaxConsumed \in Nat
    /\ Faults \subseteq FaultKinds

VARIABLES
    line,           \* the reads in the serial buffer and the list of poll_tags
    alive,          \* the gateway's task is running
    inHand,         \* the read it has not told the watchdog yet
    waited,         \* for how long
    work,           \* the transitions each task has still to handle
    place, stock,   \* Custody, with one slot for each tag
    restarts,
    missed          \* history: tags whose slot nothing has told of their move

Tasks == {"gateway", "tick"}

flowVars == <<vars, line, alive, inHand, waited, work, place, stock, restarts, missed>>

Cabinet == INSTANCE Custody WITH Slots <- Epcs

\* Watchdog, slots and tasks stay well-formed through faults and restarts: a
\* counter never passes its limit, a transition under way is one of the
\* watchdog's, no slot books out a unit it does not have.
FlowTypeOK ==
    /\ TypeOK /\ Cabinet!CustodyTypeOK
    /\ line \in Seq(Epcs \cup Others)
    /\ alive \in BOOLEAN
    /\ inHand \in Epcs \cup Others \cup {NoTag}
    /\ waited \in 0..MaxDelay
    /\ work \in [Tasks -> SUBSET Transitions]
    /\ restarts \in 0..MaxRestarts
    /\ missed \in SUBSET Epcs

FlowInit ==
    /\ Init /\ Cabinet!CustodyInit
    /\ line = <<>>
    /\ alive = TRUE
    /\ inHand = NoTag
    /\ waited = 0
    /\ work = [p \in Tasks |-> {}]
    /\ restarts = 0
    /\ missed = {}

\* The slot of tag e says where the watchdog has the tag; slots without a
\* record or without stock say nothing.
InStep(e) ==
    \/ place[e] \in {"none", "used_up"}
    \/ place[e] = "in" /\ stock[e] = 0
    \/ e \in present /\ place[e] \in Cabinet!Inside
    \/ e \notin present /\ place[e] \in Cabinet!Away

-----------------------------------------------------------------------------
(* The zone and the clock.                                                 *)

FlowMove(e) ==
    /\ Move(e)
    /\ UNCHANGED <<line, alive, inHand, waited, work, place, stock, restarts, missed>>

FlowElapse ==
    /\ Elapse
    /\ inHand # NoTag => waited < MaxDelay
    /\ waited' = IF inHand = NoTag THEN 0 ELSE waited + 1
    /\ UNCHANGED <<line, alive, inHand, work, place, stock, restarts, missed>>

-----------------------------------------------------------------------------
(* The two tasks.                                                          *)

\* A read takes its place behind the others, whatever the task is doing.
LineUp(r) ==
    line' = IF Cardinality({i \in DOMAIN line : line[i] = r}) < MaxReads
            THEN Append(line, r) ELSE line

Report(e) ==
    /\ Heard(e)
    /\ LineUp(e)
    /\ out' = {}
    /\ UNCHANGED <<bootstrapping, present, appearStreak, missStreak, age,
                   sinceTick, alive, inHand, waited, work, place, stock,
                   restarts, missed>>

ReportOther(r) ==
    /\ LineUp(r)
    /\ out' = {}
    /\ UNCHANGED <<bootstrapping, present, appearStreak, missStreak, age,
                   sinceTick, inZone, heard, alive, inHand, waited, work,
                   place, stock, restarts, missed>>

\* MUTANT: of the reads that came in together only the first is taken.
ReceiveFirstOnly ==
    /\ alive /\ inHand = NoTag /\ work["gateway"] = {}
    /\ line # <<>>
    /\ inHand' = Head(line)
    /\ line' = <<>>
    /\ waited' = 0
    /\ out' = {}
    /\ UNCHANGED <<bootstrapping, present, appearStreak, missStreak, age,
                   sinceTick, inZone, heard, alive, work, place, stock,
                   restarts, missed>>

\* The loop's next read, and the first half of _on_gateway_event: lookup and
\* publish.
Receive ==
    /\ alive /\ inHand = NoTag /\ work["gateway"] = {}
    /\ line # <<>>
    /\ inHand' = Head(line)
    /\ line' = Tail(line)
    /\ waited' = 0
    /\ out' = {}
    /\ UNCHANGED <<bootstrapping, present, appearStreak, missStreak, age,
                   sinceTick, inZone, heard, alive, work, place, stock,
                   restarts, missed>>

\* The lookup raises: the exception leaves _on_gateway_event and _loop.
LookupFails ==
    /\ "lookup" \in Faults
    /\ alive /\ inHand # NoTag
    /\ alive' = FALSE
    /\ inHand' = NoTag
    /\ waited' = 0
    /\ out' = {}
    /\ UNCHANGED <<bootstrapping, present, appearStreak, missStreak, age,
                   sinceTick, inZone, heard, line, work, place, stock,
                   restarts, missed>>

\* The transitions a call returned are work for the task p that made it; each
\* of them is news about its tag.
TakeOn(p) ==
    /\ work' = [work EXCEPT ![p] = out']
    /\ missed' = missed \ {t.epc : t \in out'}

\* ... and its second half: _process_presence_transitions.  The watchdog keeps
\* each tag by itself.
Deliver ==
    /\ \/ inHand \in Epcs /\ NoteRead(inHand) /\ TakeOn("gateway")
       \/ /\ inHand \in Others
          /\ out' = {}
          /\ UNCHANGED <<bootstrapping, present, appearStreak, missStreak,
                         age, sinceTick, work, missed>>
    /\ inHand' = NoTag
    /\ waited' = 0
    /\ UNCHANGED <<inZone, heard, line, alive, place, stock, restarts>>

FlowTick ==
    /\ work["tick"] = {}
    /\ Tick
    /\ TakeOn("tick")
    /\ UNCHANGED <<line, alive, inHand, waited, place, stock, restarts>>

\* create_presence_pending_action where it changes something.
Handle(t) ==
    \/ /\ t.kind = "disappear"
       /\ Cabinet!AskOut(t.epc) \/ Cabinet!LeaveAgain(t.epc)
    \/ /\ t.kind = "appear"
       /\ Cabinet!AskIn(t.epc)

\* ... and where it returns None: the slot is where the tag is already, has no
\* record or stock, or is the subject of an open question.
NothingToDo(t) ==
    /\ \/ /\ t.kind = "disappear"
          /\ place[t.epc] # "in_unbooked"
          /\ place[t.epc] = "in" => stock[t.epc] = 0
       \/ /\ t.kind = "appear"
          /\ place[t.epc] \notin {"out", "out_unbooked"}
    /\ UNCHANGED <<place, stock>>

\* The open question is about the opposite move: nothing will be asked again
\* when it is answered.
Crossed(t) ==
    \/ t.kind = "appear" /\ place[t.epc] = "asked_out"
    \/ t.kind = "disappear"
         /\ place[t.epc] \in {"asked_in", "asked_in_unbooked"}

\* The other task has been told since that the tag has moved back.
Overtaken(t) == (t.kind = "appear") # (t.epc \in present)

\* _handle_presence_transition, for any of the transitions the task was given.
HandleTransition(p) ==
    /\ \E t \in work[p] :
        /\ work' = [work EXCEPT ![p] = @ \ {t}]
        /\ \/ /\ Handle(t) \/ NothingToDo(t)
              /\ missed' = IF Crossed(t) \/ Overtaken(t)
                           THEN missed \cup {t.epc} ELSE missed
           \/ /\ "handling" \in Faults
              /\ missed' = missed \cup {t.epc}
              /\ UNCHANGED <<place, stock>>
    /\ out' = {}
    /\ UNCHANGED <<bootstrapping, present, appearStreak, missStreak, age,
                   sinceTick, inZone, heard, line, alive, inHand, waited,
                   restarts>>

-----------------------------------------------------------------------------
(* Operators, the end of the bootstrap, and restarts.                      *)

\* What the operator does to the slots is none of the watchdog's business.  A
\* slot that is filled while its tag is not in the zone is out of step.
Operate ==
    /\ \/ \E e \in Epcs :
            /\ Cabinet!Manual(e)
            /\ missed' = IF place'[e] = "in" /\ e \notin present
                         THEN missed \cup {e} ELSE missed
       \/ (\E e \in Epcs : Cabinet!Reply(e)) /\ UNCHANGED missed
       \/ Cabinet!DropQuestions /\ UNCHANGED missed
    /\ out' = {}
    /\ UNCHANGED <<bootstrapping, present, appearStreak, missStreak, age,
                   sinceTick, inZone, heard, line, alive, inHand, waited,
                   work, restarts>>

\* _end_watchdog_bootstrap: the tags read by now are the baseline; nobody is
\* asked about the slots that say otherwise.
FlowEndBootstrap ==
    /\ EndBootstrap
    /\ missed' = {e \in Epcs : ~InStep(e)}
    /\ UNCHANGED <<line, alive, inHand, waited, work, place, stock, restarts>>

\* The program ends, or is killed, and lifespan runs again: the port is opened
\* anew, what waited in line is gone.
Restart ==
    /\ restarts < MaxRestarts
    /\ restarts' = restarts + 1
    /\ bootstrapping' = TRUE
    /\ present' = {}
    /\ appearStreak' = [e \in Epcs |-> 0]
    /\ missStreak' = [e \in Epcs |-> 0]
    /\ age' = [e \in Epcs |-> MaxAge]
    /\ sinceTick' = 0
    /\ alive' = TRUE
    /\ line' = <<>>
    /\ inHand' = NoTag
    /\ waited' = 0
    /\ work' = [p \in Tasks |-> {}]
    /\ out' = {}
    /\ UNCHANGED <<inZone, heard, place, stock, missed>>

-----------------------------------------------------------------------------

FlowNext ==
    \/ \E e \in Epcs : FlowMove(e) \/ Report(e)
    \/ \E r \in Others : ReportOther(r)
    \/ Receive
    \/ FlowElapse \/ FlowTick \/ FlowEndBootstrap
    \/ Deliver \/ LookupFails
    \/ \E p \in Tasks : HandleTransition(p)
    \/ Operate
    \/ Restart

\* The two tasks and the bootstrap task run, time passes, and a tag that stays
\* in the zone is read again and again.
FlowFairness ==
    /\ WF_flowVars(FlowElapse) /\ WF_flowVars(FlowTick)
    /\ WF_flowVars(FlowEndBootstrap)
    /\ WF_flowVars(Receive) /\ WF_flowVars(Deliver)
    /\ \A p \in Tasks : WF_flowVars(HandleTransition(p))
    /\ \A e \in Epcs : WF_flowVars(Report(e))

FlowSpec == FlowInit /\ [][FlowNext]_flowVars

FairFlowSpec == FlowSpec /\ FlowFairness

-----------------------------------------------------------------------------

\* Once its transitions are handled, a slot says where the watchdog has its
\* tag, unless the move crossed an open question, was overtaken by the move
\* back, was lost in an exception, happened while the program was down, or
\* the slot was filled while its tag was away.
SlotFollowsTag ==
    \A e \in Epcs :
        \/ bootstrapping \/ e \in missed \/ InStep(e)
        \/ \E p \in Tasks : \E t \in work[p] : t.epc = e

\* A read of tag e has not reached the watchdog yet.
ReadWaits(e) == inHand = e \/ \E i \in DOMAIN line : line[i] = e

\* A tag is reported gone before its silence is over only while a read of it
\* waits for the gateway's task, in line behind other reads or for the
\* subscribers of the event bus, or after the task has died.
EarlyOnlyWhileHeldUp ==
    \A e \in Epcs : [epc |-> e, kind |-> "disappear"] \in out =>
        \/ heard[e] > Grace + (DisappearCount - 1) * TickEvery
        \/ ReadWaits(e) \/ ~alive

\* A container that is taken away for good is not kept as being inside, through
\* restarts and the death of the gateway's task.
AbsenceReachesSlot ==
    \A e \in Epcs :
        <>[](e \notin inZone) =>
            <>[](e \in missed \/ stock[e] = 0 \/ place[e] \notin Cabinet!Inside)

\* One that stays in the zone is not kept as being away, as long as the
\* gateway's task lives.
PresenceReachesSlot ==
    \A e \in Epcs :
        <>[](e \in inZone /\ alive) =>
            []<>(e \in missed \/ place[e] \notin Cabinet!Away)
=============================================================================
