-------------------------- MODULE PresenceWatchdog --------------------------
(***************************************************************************)
(* The presence watchdog (presence_watchdog.py): it debounces the reads of *)
(* one read zone into "appear" and "disappear" transitions.                *)
(*                                                                         *)
(* Time is discrete.  The wall clock enters the code only as a difference  *)
(* now - last_seen, kept here as an age that stops counting at MaxAge.     *)
(* Reads come from the gateway task, ticks from _presence_tick_loop, which *)
(* sleeps TickEvery before every tick and may be late, never early.        *)
(***************************************************************************)
EXTENDS Integers

CONSTANTS
    Epcs,
    AppearCount,        \* RFID_PRESENCE_APPEAR_COUNT
    DisappearCount,     \* RFID_PRESENCE_DISAPPEAR_COUNT
    Grace,              \* RFID_PRESENCE_MISS_GRACE_MS, in units of time
    TickEvery,          \* RFID_PRESENCE_TICK_MS, in units of time
    MaxAge              \* bound: ages are not told apart from here on

ASSUME WatchdogAssumption ==
    /\ AppearCount \in Nat \ {0}
    /\ DisappearCount \in Nat \ {0}
    /\ Grace \in Nat \ {0}
    /\ TickEvery \in Nat \ {0}
    /\ MaxAge \in Nat /\ MaxAge > Grace + (DisappearCount - 1) * TickEvery

VARIABLES
    bootstrapping,
    present,            \* _present
    appearStreak,       \* _appear_streak (0: no entry)
    missStreak,         \* _miss_streak (0: no entry)
    age,                \* now - _last_seen
    sinceTick,          \* time since the last tick, up to TickEvery
    out,                \* transitions returned by the last call
    inZone,             \* the tags that lie in the read zone
    heard               \* history: time since the tag was last read

vars == <<bootstrapping, present, appearStreak, missStreak, age, sinceTick,
          out, inZone, heard>>

Transitions == [epc : Epcs, kind : {"appear", "disappear"}]

\* Streaks and misses stay within the counts at which they end, and every
\* transition names a tag.
TypeOK ==
    /\ bootstrapping \in BOOLEAN
    /\ present \in SUBSET Epcs
    /\ appearStreak \in [Epcs -> 0..AppearCount]
    /\ missStreak \in [Epcs -> 0..DisappearCount]
    /\ age \in [Epcs -> 0..MaxAge]
    /\ sinceTick \in 0..TickEvery
    /\ out \in SUBSET Transitions
    /\ inZone \in SUBSET Epcs
    /\ heard \in [Epcs -> 0..MaxAge]

Init ==
    /\ bootstrapping = TRUE
    /\ present = {}
    /\ appearStreak = [e \in Epcs |-> 0]
    /\ missStreak = [e \in Epcs |-> 0]
    /\ age = [e \in Epcs |-> MaxAge]
    /\ sinceTick = 0
    /\ out = {}
    /\ inZone \in SUBSET Epcs
    /\ heard = [e \in Epcs |-> MaxAge]

-----------------------------------------------------------------------------

UpTo(bound, n) == IF n > bound THEN bound ELSE n

\* The environment: tags are put down and taken away, and time passes.
Move(e) ==
    /\ inZone' = IF e \in inZone THEN inZone \ {e} ELSE inZone \cup {e}
    /\ out' = {}
    /\ UNCHANGED <<bootstrapping, present, appearStreak, missStreak, age,
                   sinceTick, heard>>

Elapse ==
    /\ age' = [e \in Epcs |-> UpTo(MaxAge, age[e] + 1)]
    /\ heard' = [e \in Epcs |-> UpTo(MaxAge, heard[e] + 1)]
    /\ sinceTick' = UpTo(TickEvery, sinceTick + 1)
    /\ out' = {}
    /\ UNCHANGED <<bootstrapping, present, appearStreak, missStreak, inZone>>

\* A tag that lies in the zone is read.
Heard(e) ==
    /\ e \in inZone
    /\ heard' = [heard EXCEPT ![e] = 0]
    /\ UNCHANGED inZone

\* MUTANT: a read of a present tag does not refresh last_seen.
NoteReadNoRefresh(e) ==
    /\ missStreak' = [missStreak EXCEPT ![e] = 0]
    /\ IF e \in present \/ appearStreak[e] + 1 >= AppearCount
       THEN /\ present' = present \cup {e}
            /\ appearStreak' = [appearStreak EXCEPT ![e] = 0]
            /\ out' = IF e \in present \/ bootstrapping THEN {}
                      ELSE {[epc |-> e, kind |-> "appear"]}
       ELSE /\ appearStreak' = [appearStreak EXCEPT ![e] = @ + 1]
            /\ out' = {}
            /\ UNCHANGED present
    /\ age' = IF e \in present THEN age ELSE [age EXCEPT ![e] = 0]
    /\ UNCHANGED <<bootstrapping, sinceTick>>

\* MUTANT: the streak of a tag that became present is kept.
NoteReadKeepsStreak(e) ==
    /\ age' = [age EXCEPT ![e] = 0]
    /\ missStreak' = [missStreak EXCEPT ![e] = 0]
    /\ appearStreak' = [appearStreak EXCEPT ![e] = @ + 1]
    /\ present' = IF appearStreak[e] + 1 >= AppearCount THEN present \cup {e}
                  ELSE present
    /\ out' = IF e \in present \/ bootstrapping THEN {}
              ELSE {[epc |-> f, kind |-> "appear"] : f \in present' \ present}
    /\ UNCHANGED <<bootstrapping, sinceTick>>

\* MUTANT: the streak is forgotten between two reads.
NoteReadForgetsStreak(e) ==
    /\ age' = [age EXCEPT ![e] = 0]
    /\ missStreak' = [missStreak EXCEPT ![e] = 0]
    /\ IF e \in present \/ AppearCount = 1
       THEN /\ present' = present \cup {e}
            /\ out' = IF e \in present \/ bootstrapping THEN {}
                      ELSE {[epc |-> e, kind |-> "appear"]}
       ELSE /\ out' = {}
            /\ UNCHANGED present
    /\ UNCHANGED <<bootstrapping, appearStreak, sinceTick>>

\* MUTANT: the tag is entered before it is looked up, nothing is reported.
NoteReadReportsNothing(e) ==
    /\ age' = [age EXCEPT ![e] = 0]
    /\ missStreak' = [missStreak EXCEPT ![e] = 0]
    /\ IF e \in present \/ appearStreak[e] + 1 >= AppearCount
       THEN /\ present' = present \cup {e}
            /\ appearStreak' = [appearStreak EXCEPT ![e] = 0]
       ELSE /\ appearStreak' = [appearStreak EXCEPT ![e] = @ + 1]
            /\ UNCHANGED present
    /\ out' = {}
    /\ UNCHANGED <<bootstrapping, sinceTick>>

\* on_tag: the read is noted; the AppearCount-th read of an absent tag makes
\* it present, silently during the bootstrap.
NoteRead(e) ==
    /\ age' = [age EXCEPT ![e] = 0]
    /\ missStreak' = [missStreak EXCEPT ![e] = 0]
    /\ IF e \in present \/ appearStreak[e] + 1 >= AppearCount
       THEN /\ present' = present \cup {e}
            /\ appearStreak' = [appearStreak EXCEPT ![e] = 0]
            /\ out' = IF e \in present \/ bootstrapping THEN {}
                      ELSE {[epc |-> e, kind |-> "appear"]}
       ELSE /\ appearStreak' = [appearStreak EXCEPT ![e] = @ + 1]
            /\ out' = {}
            /\ UNCHANGED present
    /\ UNCHANGED <<bootstrapping, sinceTick>>

OnTag(e) == Heard(e) /\ NoteRead(e)

\* MUTANT: every missed tick is counted as the first.
MissesRestart(e) ==
    IF e \notin present THEN missStreak[e]
    ELSE IF age[e] > Grace THEN 1 ELSE 0

\* The count of missed ticks of tag e after this tick.
Misses(e) ==
    IF e \notin present THEN missStreak[e]
    ELSE IF age[e] > Grace THEN missStreak[e] + 1 ELSE 0

\* tick: every present tag is looked at; DisappearCount misses in a row make
\* it absent.
Tick ==
    LET gone == {e \in present : Misses(e) >= DisappearCount} IN
    /\ ~bootstrapping
    /\ sinceTick = TickEvery
    /\ sinceTick' = 0
    /\ present' = present \ gone
    /\ missStreak' = [e \in Epcs |-> IF e \in gone THEN 0 ELSE Misses(e)]
    /\ appearStreak' = [e \in Epcs |-> IF e \in gone THEN 0
                                       ELSE appearStreak[e]]
    /\ out' = {[epc |-> e, kind |-> "disappear"] : e \in gone}
    /\ UNCHANGED <<bootstrapping, age, inZone, heard>>

\* end_bootstrap: the tags seen so far are the baseline, read just now.
EndBootstrap ==
    /\ bootstrapping
    /\ bootstrapping' = FALSE
    /\ missStreak' = [e \in Epcs |-> 0]
    /\ appearStreak' = [e \in Epcs |-> 0]
    /\ age' = [e \in Epcs |-> IF e \in present THEN 0 ELSE age[e]]
    /\ out' = {}
    /\ UNCHANGED <<present, sinceTick, inZone, heard>>

Next ==
    \/ \E e \in Epcs : Move(e) \/ OnTag(e)
    \/ Elapse
    \/ Tick
    \/ EndBootstrap

\* The tick loop and the bootstrap task run, time passes, and the reader
\* keeps reading a tag that stays in the zone.
Fairness ==
    /\ WF_vars(Elapse) /\ WF_vars(Tick) /\ WF_vars(EndBootstrap)
    /\ \A e \in Epcs : WF_vars(OnTag(e))

Spec == Init /\ [][Next]_vars

FairSpec == Spec /\ Fairness

-----------------------------------------------------------------------------

\* A tag is reported gone only after a silence of the grace and DisappearCount
\* ticks: late ticks, reads in between and the end of the bootstrap never
\* make the report come early.
DisappearOnlyAfterSilence ==
    \A e \in Epcs : [epc |-> e, kind |-> "disappear"] \in out =>
        heard[e] > Grace + (DisappearCount - 1) * TickEvery

\* A tag that is taken away for good is given up by the watchdog, and one
\* that stays in the zone is (again and again) held to be present.
AbsenceIsNoticed ==
    \A e \in Epcs : <>[](e \notin inZone) => <>[](e \notin present)

PresenceIsNoticed ==
    \A e \in Epcs : <>[](e \in inZone) => []<>(e \in present)
=============================================================================
