------------------------ MODULE PresenceFlow_proofs ------------------------
(***************************************************************************)
(* What holds of the watchdog alone, and between it and the slots, for any *)
(* tags, counts, delays, faults and restarts.                              *)
(***************************************************************************)
EXTENDS PresenceFlow, FiniteSetTheorems, TLAPS

(* The watchdog.                                                           *)

(* A count or an age that stops at its bound stays between 0 and it, and   *)
(* does not fall.                                                          *)
LEMMA UpToBounds ==
    ASSUME NEW bound \in Nat, NEW n \in 0..bound
    PROVE  /\ UpTo(bound, n + 1) \in 0..bound
           /\ UpTo(bound, n + 1) >= n
           /\ n < bound => UpTo(bound, n + 1) = n + 1
  BY DEF UpTo

(* What the counters of the watchdog satisfy between two calls: a streak   *)
(* that has reached its count has been consumed, and only a tag that is    *)
(* present has missed ticks.                                               *)
Counters ==
    \A e \in Epcs :
        /\ appearStreak[e] < AppearCount
        /\ missStreak[e] < DisappearCount
        /\ e \notin present => missStreak[e] = 0

(* n missed ticks are a grace and n - 1 tick periods of the tag's age.     *)
MissesTakeTime ==
    \A e \in Epcs :
        missStreak[e] > 0 =>
            age[e] > Grace + (missStreak[e] - 1) * TickEvery + sinceTick

(* What the watchdog keeps to, whoever calls it and when.                  *)
ClockInv == TypeOK /\ Counters /\ MissesTakeTime

(* The watchdog's own clock never runs ahead of the silence of a tag.      *)
AgeBehindSilence == \A e \in Epcs : age[e] <= heard[e]

WatchdogInv == ClockInv /\ AgeBehindSilence /\ DisappearOnlyAfterSilence

-----------------------------------------------------------------------------

(* A missed tick adds one to the count of a present tag, a tick after a    *)
(* read starts it again; what counts as gone has been silent long enough.  *)
LEMMA MissesEffect ==
    ASSUME ClockInv, sinceTick = TickEvery,
           NEW e \in Epcs
    PROVE  /\ Misses(e) \in 0..DisappearCount
           /\ e \notin present => Misses(e) = 0
           /\ Misses(e) > 0 =>
                age[e] > Grace + (Misses(e) - 1) * TickEvery
  <1> USE DEF ClockInv
  <1>1. /\ missStreak[e] \in 0..(DisappearCount - 1) /\ age[e] \in Nat
        /\ Grace \in Nat /\ TickEvery \in Nat /\ DisappearCount \in Nat \ {0}
    BY WatchdogAssumption DEF TypeOK, Counters
  <1>2. CASE e \notin present
    BY <1>1, <1>2 DEF Misses, Counters
  <1>3. CASE e \in present /\ age[e] <= Grace
    BY <1>1, <1>3 DEF Misses
  <1>4. CASE e \in present /\ age[e] > Grace
    <2>1. Misses(e) = missStreak[e] + 1
      BY <1>1, <1>4 DEF Misses
    <2>2. CASE missStreak[e] = 0
      BY <1>1, <1>4, <2>1, <2>2
    <2>3. CASE missStreak[e] > 0
      <3>1. age[e] > Grace + (missStreak[e] - 1) * TickEvery + TickEvery
        BY <2>3 DEF MissesTakeTime
      <3>2. (missStreak[e] - 1) * TickEvery + TickEvery
              = missStreak[e] * TickEvery
        BY <1>1
      <3>3. missStreak[e] * TickEvery \in Nat
        BY <1>1
      <3>4. (missStreak[e] - 1) * TickEvery \in Nat
        BY <1>1, <2>3
      <3>5. age[e] > Grace + missStreak[e] * TickEvery
        BY <1>1, <3>1, <3>2, <3>3, <3>4
      <3>6. QED
        BY <1>1, <1>4, <2>1, <3>5
    <2>4. QED
      BY <1>1, <2>2, <2>3
  <1>5. QED
    BY <1>1, <1>2, <1>3, <1>4

-----------------------------------------------------------------------------

(* Moving a tag touches nothing the watchdog knows.                        *)
LEMMA MoveKeeps ==
    ASSUME ClockInv, NEW e \in Epcs, Move(e)
    PROVE  ClockInv'
  BY DEF ClockInv, TypeOK, Counters, MissesTakeTime, Move

(* Time makes ages, silence and the time since the tick grow together.     *)
LEMMA ElapseKeeps ==
    ASSUME ClockInv, Elapse
    PROVE  /\ ClockInv'
           /\ \A e \in Epcs : age[e] <= heard[e] => age'[e] <= heard'[e]
  <1> USE DEF ClockInv
  <1>1. MaxAge \in Nat /\ Grace \in Nat /\ TickEvery \in Nat
        /\ DisappearCount \in Nat \ {0}
        /\ MaxAge > Grace + (DisappearCount - 1) * TickEvery
    BY WatchdogAssumption
  <1>2. ASSUME NEW e \in Epcs
        PROVE  /\ age[e] \in 0..MaxAge /\ heard[e] \in 0..MaxAge
               /\ age'[e] = UpTo(MaxAge, age[e] + 1)
               /\ heard'[e] = UpTo(MaxAge, heard[e] + 1)
               /\ age'[e] \in 0..MaxAge /\ heard'[e] \in 0..MaxAge
    BY <1>1, UpToBounds DEF TypeOK, Elapse
  <1>3. sinceTick \in 0..TickEvery /\ sinceTick' \in 0..TickEvery
        /\ sinceTick' <= sinceTick + 1
    BY <1>1, UpToBounds DEF TypeOK, Elapse, UpTo
  <1>4. TypeOK'
    BY <1>2, <1>3 DEF TypeOK, Elapse
  <1>5. Counters'
    BY DEF Counters, Elapse
  <1>6. ASSUME NEW e \in Epcs, age[e] <= heard[e]
        PROVE  age'[e] <= heard'[e]
    BY <1>1, <1>2, <1>6 DEF UpTo
  <1>7. MissesTakeTime'
    <2> SUFFICES ASSUME NEW e \in Epcs, missStreak[e] > 0
                 PROVE  age'[e] > Grace + (missStreak[e] - 1) * TickEvery
                                    + sinceTick'
      BY DEF MissesTakeTime, Elapse
    <2> DEFINE missedFor == (missStreak[e] - 1) * TickEvery
    <2>1. missStreak[e] \in 1..(DisappearCount - 1)
      BY <1>1 DEF TypeOK, Counters
    <2>2. missedFor \in Nat /\ missedFor + TickEvery = missStreak[e] * TickEvery
      BY <1>1, <2>1
    <2>3. missStreak[e] * TickEvery <= (DisappearCount - 1) * TickEvery
      <3>1. DisappearCount - 1 - missStreak[e] \in Nat
        BY <1>1, <2>1
      <3>2. (DisappearCount - 1 - missStreak[e]) * TickEvery \in Nat
        BY <1>1, <3>1
      <3>3. (DisappearCount - 1 - missStreak[e]) * TickEvery
              = (DisappearCount - 1) * TickEvery - missStreak[e] * TickEvery
        BY <1>1, <2>1
      <3>4. QED
        BY <1>1, <2>1, <3>2, <3>3
    <2>4. age[e] > Grace + missedFor + sinceTick
      BY DEF MissesTakeTime
    <2>5. missStreak[e] * TickEvery \in Nat
          /\ (DisappearCount - 1) * TickEvery \in Nat
      BY <1>1, <2>1
    <2>6. MaxAge > Grace + missedFor + TickEvery
      <3> HIDE DEF missedFor
      <3> QED
        BY <1>1, <2>2, <2>3, <2>5
    <2>7. age'[e] > Grace + missedFor + sinceTick'
      <3> HIDE DEF missedFor
      <3> QED
        BY <1>1, <1>2, <1>3, <2>2, <2>4, <2>6 DEF UpTo
    <2>8. QED
      BY <2>7
  <1>8. QED
    BY <1>4, <1>5, <1>6, <1>7

(* A read sets the clock and the misses of its tag to zero, however long   *)
(* it took to get here.                                                    *)
LEMMA NoteReadKeeps ==
    ASSUME ClockInv, NEW e \in Epcs, NoteRead(e),
           inZone' \in SUBSET Epcs, heard' \in [Epcs -> 0..MaxAge]
    PROVE  /\ ClockInv'
           /\ \A f \in Epcs : age'[f] = IF f = e THEN 0 ELSE age[f]
           /\ \A f \in Epcs : [epc |-> f, kind |-> "disappear"] \notin out'
  <1> USE DEF ClockInv
  <1>1. AppearCount \in Nat \ {0} /\ DisappearCount \in Nat \ {0}
        /\ MaxAge \in Nat /\ Grace \in Nat
    BY WatchdogAssumption
  <1>2. ASSUME NEW f \in Epcs
        PROVE  /\ age'[f] = IF f = e THEN 0 ELSE age[f]
               /\ missStreak'[f] = IF f = e THEN 0 ELSE missStreak[f]
               /\ f # e => appearStreak'[f] = appearStreak[f]
               /\ f # e => (f \in present' <=> f \in present)
    BY DEF TypeOK, NoteRead
  <1>3. appearStreak'[e] \in 0..AppearCount /\ appearStreak'[e] < AppearCount
    BY <1>1 DEF TypeOK, NoteRead
  <1>4. TypeOK'
    <2>1. present' \in SUBSET Epcs /\ out' \in SUBSET Transitions
      BY DEF TypeOK, NoteRead, Transitions
    <2>2. appearStreak' \in [Epcs -> 0..AppearCount]
      BY <1>2, <1>3 DEF TypeOK, NoteRead
    <2>3. /\ missStreak' \in [Epcs -> 0..DisappearCount]
          /\ age' \in [Epcs -> 0..MaxAge]
      BY <1>1 DEF TypeOK, NoteRead
    <2>4. QED
      BY <2>1, <2>2, <2>3 DEF TypeOK, NoteRead
  <1>5. Counters'
    BY <1>1, <1>2, <1>3 DEF Counters
  <1>6. MissesTakeTime'
    BY <1>2 DEF MissesTakeTime, NoteRead
  <1>7. \A f \in Epcs : [epc |-> f, kind |-> "disappear"] \notin out'
    BY DEF NoteRead
  <1>8. QED
    BY <1>2, <1>4, <1>5, <1>6, <1>7

(* A tick counts one miss for every silent present tag; the tags whose     *)
(* count is full have been silent for the grace and all the ticks between. *)
LEMMA TickKeeps ==
    ASSUME ClockInv, Tick
    PROVE  /\ ClockInv'
           /\ \A e \in Epcs : [epc |-> e, kind |-> "disappear"] \in out' =>
                /\ e \in present
                /\ age[e] > Grace + (DisappearCount - 1) * TickEvery
  <1> USE DEF ClockInv
  <1> DEFINE gone == {e \in present : Misses(e) >= DisappearCount}
  <1>1. AppearCount \in Nat \ {0} /\ DisappearCount \in Nat \ {0}
        /\ Grace \in Nat /\ TickEvery \in Nat \ {0} /\ MaxAge \in Nat
    BY WatchdogAssumption
  <1>2. ASSUME NEW e \in Epcs
        PROVE  /\ Misses(e) \in 0..DisappearCount
               /\ e \notin present => Misses(e) = 0
               /\ Misses(e) > 0 =>
                    age[e] > Grace + (Misses(e) - 1) * TickEvery
    BY MissesEffect DEF Tick
  <1>3. /\ present' = present \ gone
        /\ missStreak' = [e \in Epcs |-> IF e \in gone THEN 0 ELSE Misses(e)]
        /\ appearStreak' = [e \in Epcs |-> IF e \in gone THEN 0
                                           ELSE appearStreak[e]]
        /\ out' = {[epc |-> e, kind |-> "disappear"] : e \in gone}
        /\ sinceTick' = 0
        /\ UNCHANGED <<bootstrapping, age, inZone, heard>>
    BY DEF Tick
  <1>4. TypeOK'
    <2>1. missStreak' \in [Epcs -> 0..DisappearCount]
      <3>1. ASSUME NEW e \in Epcs
            PROVE  (IF e \in gone THEN 0 ELSE Misses(e)) \in 0..DisappearCount
        <4>1. 0 \in 0..DisappearCount
          BY <1>1
        <4>2. QED
          BY <1>2, <4>1
      <3>2. QED
        BY <1>3, <3>1
    <2>2. appearStreak' \in [Epcs -> 0..AppearCount]
      BY <1>1, <1>3 DEF TypeOK
    <2>3. out' \in SUBSET Transitions /\ present' \in SUBSET Epcs
      BY <1>3 DEF TypeOK, Transitions
    <2>4. sinceTick' \in 0..TickEvery
      BY <1>1, <1>3
    <2>5. QED
      BY <1>3, <2>1, <2>2, <2>3, <2>4 DEF TypeOK
  <1>5. Counters'
    <2> SUFFICES ASSUME NEW e \in Epcs
                 PROVE  /\ appearStreak'[e] < AppearCount
                        /\ missStreak'[e] < DisappearCount
                        /\ e \notin present' => missStreak'[e] = 0
      BY DEF Counters
    <2>1. appearStreak'[e] < AppearCount
      BY <1>1, <1>3 DEF Counters, TypeOK
    <2>2. CASE e \in gone
      BY <1>1, <1>3, <2>1, <2>2
    <2>3. CASE e \notin gone
      <3>1. missStreak'[e] = Misses(e)
        BY <1>3, <2>3
      <3>2. Misses(e) < DisappearCount
        BY <1>1, <1>2, <2>3
      <3>3. e \notin present' => Misses(e) = 0
        BY <1>2, <1>3, <2>3
      <3>4. QED
        BY <2>1, <3>1, <3>2, <3>3
    <2>4. QED
      BY <2>2, <2>3
  <1>6. MissesTakeTime'
    <2> SUFFICES ASSUME NEW e \in Epcs
                 PROVE  missStreak'[e] > 0 =>
                          age[e] > Grace + (missStreak'[e] - 1) * TickEvery + 0
      BY <1>3 DEF MissesTakeTime
    <2>1. CASE e \in gone
      BY <1>3, <2>1
    <2>2. CASE e \notin gone
      <3>1. missStreak'[e] = Misses(e)
        BY <1>3, <2>2
      <3>2. ASSUME Misses(e) > 0
            PROVE  Grace + (Misses(e) - 1) * TickEvery \in Int
        BY <1>1, <1>2
      <3>3. QED
        BY <1>2, <3>1, <3>2
    <2>3. QED
      BY <2>1, <2>2
  <1>7. ASSUME NEW e \in Epcs, [epc |-> e, kind |-> "disappear"] \in out'
        PROVE  e \in present /\ age[e] > Grace + (DisappearCount - 1) * TickEvery
    <2>1. e \in gone
      BY <1>3, <1>7
    <2>2. Misses(e) = DisappearCount
      BY <1>1, <1>2, <2>1
    <2>3. QED
      BY <1>1, <1>2, <2>1, <2>2
  <1>8. QED
    BY <1>4, <1>5, <1>6, <1>7

(* The end of the bootstrap sets clocks back and forgets all counts.       *)
LEMMA EndBootstrapKeeps ==
    ASSUME ClockInv, EndBootstrap
    PROVE  ClockInv'
  <1> USE DEF ClockInv
  <1>1. AppearCount \in Nat \ {0} /\ DisappearCount \in Nat \ {0}
        /\ MaxAge \in Nat
    BY WatchdogAssumption
  <1>2. TypeOK'
    <2>1. age' \in [Epcs -> 0..MaxAge]
      BY <1>1 DEF TypeOK, EndBootstrap
    <2>2. /\ appearStreak' \in [Epcs -> 0..AppearCount]
          /\ missStreak' \in [Epcs -> 0..DisappearCount]
      BY <1>1 DEF EndBootstrap
    <2>3. bootstrapping' \in BOOLEAN /\ out' \in SUBSET Transitions
      BY DEF EndBootstrap
    <2>4. QED
      BY <2>1, <2>2, <2>3 DEF TypeOK, EndBootstrap
  <1>3. Counters'
    BY <1>1 DEF Counters, EndBootstrap
  <1>4. MissesTakeTime'
    BY DEF MissesTakeTime, EndBootstrap, TypeOK
  <1>5. QED
    BY <1>2, <1>3, <1>4

-----------------------------------------------------------------------------

(* The inductive invariant holds in every state.                           *)
LEMMA WatchdogCorrect == Spec => []WatchdogInv
  <1> USE DEF WatchdogInv
  <1>1. Init => WatchdogInv
    <2> SUFFICES ASSUME Init
                 PROVE  WatchdogInv
      OBVIOUS
    <2>1. AppearCount \in Nat \ {0} /\ DisappearCount \in Nat \ {0}
          /\ MaxAge \in Nat /\ TickEvery \in Nat
      BY WatchdogAssumption
    <2>2. QED
      BY <2>1 DEF ClockInv, Init, TypeOK, Counters, MissesTakeTime,
                  AgeBehindSilence, DisappearOnlyAfterSilence
  <1>2. WatchdogInv /\ [Next]_vars => WatchdogInv'
    <2> SUFFICES ASSUME WatchdogInv, [Next]_vars
                 PROVE  WatchdogInv'
      OBVIOUS
    <2> USE DEF AgeBehindSilence, DisappearOnlyAfterSilence
    <2>1. ASSUME NEW e \in Epcs, Move(e) PROVE WatchdogInv'
      BY <2>1, MoveKeeps DEF Move
    <2>2. ASSUME NEW e \in Epcs, OnTag(e) PROVE WatchdogInv'
      <3>1. /\ inZone' \in SUBSET Epcs /\ heard' \in [Epcs -> 0..MaxAge]
            /\ \A f \in Epcs : heard'[f] = IF f = e THEN 0 ELSE heard[f]
        BY <2>2, WatchdogAssumption DEF ClockInv, TypeOK, OnTag, Heard
      <3>2. NoteRead(e)
        BY <2>2 DEF OnTag
      <3>3. /\ ClockInv'
            /\ \A f \in Epcs : age'[f] = IF f = e THEN 0 ELSE age[f]
            /\ \A f \in Epcs : [epc |-> f, kind |-> "disappear"] \notin out'
        BY <3>1, <3>2, NoteReadKeeps
      <3>4. QED
        BY <3>1, <3>3
    <2>3. CASE Elapse
      <3>1. out' = {}
        BY <2>3 DEF Elapse
      <3>2. QED
        BY <2>3, <3>1, ElapseKeeps
    <2>4. CASE Tick
      <3>1. age' = age /\ heard' = heard
        BY <2>4 DEF Tick
      <3>2. /\ ClockInv'
            /\ \A e \in Epcs : [epc |-> e, kind |-> "disappear"] \in out' =>
                 age[e] > Grace + (DisappearCount - 1) * TickEvery
        BY <2>4, TickKeeps
      <3>3. Grace + (DisappearCount - 1) * TickEvery \in Int
        BY WatchdogAssumption
      <3>4. \A e \in Epcs : age[e] \in Int /\ heard[e] \in Int
        BY DEF ClockInv, TypeOK
      <3>5. QED
        BY <3>1, <3>2, <3>3, <3>4
    <2>5. CASE EndBootstrap
      <3>1. out' = {} /\ heard' = heard
            /\ \A e \in Epcs : age'[e] = 0 \/ age'[e] = age[e]
        BY <2>5 DEF EndBootstrap
      <3>2. \A e \in Epcs : 0 <= heard[e]
        BY DEF ClockInv, TypeOK
      <3>3. QED
        BY <2>5, <3>1, <3>2, EndBootstrapKeeps
    <2>6. CASE UNCHANGED vars
      BY <2>6 DEF ClockInv, TypeOK, Counters, MissesTakeTime, vars
    <2>7. QED
      BY <2>1, <2>2, <2>3, <2>4, <2>5, <2>6 DEF Next
  <1>3. QED
    BY <1>1, <1>2, PTL DEF Spec

(* presence_watchdog.py: streaks stay within their counts and transitions  *)
(* are well-formed in every reachable state, for any configuration.        *)
THEOREM WatchdogTypeCorrect == Spec => []TypeOK
  <1>1. WatchdogInv => TypeOK
    BY DEF WatchdogInv, ClockInv
  <1>2. QED
    BY <1>1, WatchdogCorrect, PTL

(* tick never reports a tag gone before the grace and DisappearCount - 1   *)
(* tick periods have passed since its last read, however late ticks come   *)
(* and wherever the bootstrap ends.                                        *)
THEOREM DisappearOnlyAfterSilenceHolds == Spec => []DisappearOnlyAfterSilence
  <1>1. WatchdogInv => DisappearOnlyAfterSilence
    BY DEF WatchdogInv
  <1>2. QED
    BY <1>1, WatchdogCorrect, PTL

-----------------------------------------------------------------------------
(* The watchdog, its tasks and the slots.                                  *)

(* A unit that the operator is asked to book out is there.                 *)
CabinetOK ==
    /\ Cabinet!CustodyTypeOK
    /\ \A e \in Epcs : place[e] = "asked_out" => stock[e] > 0

(* A task has handled its transitions before it takes the next read.       *)
HandsFree == inHand # NoTag => work["gateway"] = {}

(* Only a read that waits, or the end of the gateway's task, makes the     *)
(* watchdog's clock run ahead of the silence of a present tag.             *)
AgeBehindUnlessHeld ==
    \A e \in present : age[e] <= heard[e] \/ ReadWaits(e) \/ ~alive

FlowInv ==
    /\ ClockInv /\ FlowTypeOK /\ CabinetOK /\ HandsFree
    /\ AgeBehindUnlessHeld
    /\ SlotFollowsTag
    /\ EarlyOnlyWhileHeldUp

-----------------------------------------------------------------------------
(* The slots.                                                              *)

LEMMA ManualStep ==
    ASSUME CabinetOK, present' = present, NEW e \in Epcs, Cabinet!Manual(e)
    PROVE  /\ CabinetOK'
           /\ \A f \in Epcs : InStep(f) =>
                InStep(f)' \/ (f = e /\ place'[e] = "in" /\ e \notin present)
  <1> USE FlowAssumption
      DEF CabinetOK, Cabinet!CustodyTypeOK, Cabinet!Places, Cabinet!Away,
          Cabinet!Inside, InStep
  <1>1. ASSUME NEW q \in 0..MaxQty, Cabinet!Enter(e, q)
        PROVE  /\ CabinetOK'
               /\ \A f \in Epcs : InStep(f) =>
                    InStep(f)' \/ (f = e /\ place'[e] = "in" /\ e \notin present)
    BY <1>1 DEF Cabinet!Enter, Cabinet!Put
  <1>2. ASSUME NEW q \in 0..MaxQty, Cabinet!Recount(e, q)
        PROVE  /\ CabinetOK'
               /\ \A f \in Epcs : InStep(f) =>
                    InStep(f)' \/ (f = e /\ place'[e] = "in" /\ e \notin present)
    <2>1. CASE place[e] = "used_up" /\ q > 0
      BY <1>2, <2>1 DEF Cabinet!Recount, Cabinet!Put, Cabinet!Settled
    <2>2. CASE ~(place[e] = "used_up" /\ q > 0)
      <3>1. /\ \A f \in Epcs : place'[f] = place[f]
            /\ place' \in [Epcs -> Cabinet!Places]
            /\ place[e] # "asked_out"
        BY <1>2, <2>2 DEF Cabinet!Recount, Cabinet!Put, Cabinet!Settled
      <3>2. /\ stock' \in [Epcs -> Nat]
            /\ \A f \in Epcs : f # e => stock'[f] = stock[f]
        BY <1>2 DEF Cabinet!Recount
      <3> QED BY <3>1, <3>2
    <2> QED BY <2>1, <2>2
  <1>3. CASE Cabinet!Remove(e)
    BY <1>3 DEF Cabinet!Remove, Cabinet!Put, Cabinet!Settled
  <1> QED BY <1>1, <1>2, <1>3 DEF Cabinet!Manual

LEMMA ReplyStep ==
    ASSUME CabinetOK, present' = present, NEW e \in Epcs, Cabinet!Reply(e)
    PROVE  /\ CabinetOK'
           /\ \A f \in Epcs : InStep(f) => InStep(f)'
  <1> USE FlowAssumption
      DEF CabinetOK, Cabinet!CustodyTypeOK, Cabinet!Places, Cabinet!Away,
          Cabinet!Inside, InStep
  <1>1. CASE Cabinet!ConfirmOut(e)
    BY <1>1 DEF Cabinet!ConfirmOut, Cabinet!Put
  <1>2. CASE Cabinet!DenyOut(e)
    BY <1>2 DEF Cabinet!DenyOut, Cabinet!Put
  <1>3. CASE Cabinet!DenyIn(e)
    BY <1>3 DEF Cabinet!DenyIn, Cabinet!Put
  <1>4. ASSUME NEW consumed \in 0..MaxConsumed, Cabinet!ConfirmIn(e, consumed)
        PROVE  /\ CabinetOK'
               /\ \A f \in Epcs : InStep(f) => InStep(f)'
    <2> DEFINE left == stock[e] + (IF place[e] = "asked_in" THEN 1 ELSE 0) - consumed
    <2>1. left \in Int
      OBVIOUS
    <2>2. /\ place[e] \in {"asked_in", "asked_in_unbooked"}
          /\ place' = [place EXCEPT ![e] = IF left > 0 THEN "in" ELSE "used_up"]
          /\ stock' = [stock EXCEPT ![e] = IF left > 0 THEN left ELSE 0]
      BY <1>4 DEF Cabinet!ConfirmIn, Cabinet!Put
    <2> HIDE DEF left
    <2>3. CASE left > 0
      BY <2>1, <2>2, <2>3
    <2>4. CASE ~(left > 0)
      BY <2>1, <2>2, <2>4
    <2> QED BY <2>3, <2>4
  <1> QED BY <1>1, <1>2, <1>3, <1>4 DEF Cabinet!Reply

LEMMA DropStep ==
    ASSUME CabinetOK, present' = present, Cabinet!DropQuestions
    PROVE  /\ CabinetOK'
           /\ \A f \in Epcs : InStep(f) => InStep(f)'
  <1> USE DEF CabinetOK, Cabinet!CustodyTypeOK, Cabinet!Places, Cabinet!Away,
              Cabinet!Inside, InStep
  <1>1. stock' = stock
    BY DEF Cabinet!DropQuestions
  <1>2. ASSUME NEW f \in Epcs
        PROVE  /\ place[f] = "asked_out" => place'[f] = "out_unbooked"
               /\ place[f] \in {"asked_in", "asked_in_unbooked"}
                    => place'[f] = "in_unbooked"
               /\ place[f] \notin {"asked_out", "asked_in", "asked_in_unbooked"}
                    => place'[f] = place[f]
    BY DEF Cabinet!DropQuestions
  <1>3. place' \in [Epcs -> Cabinet!Places]
    <2>1. \A f \in Epcs : place'[f] \in Cabinet!Places
      BY <1>2
    <2> QED BY <2>1 DEF Cabinet!DropQuestions
  <1> QED BY <1>1, <1>2, <1>3

(* A handled transition brings its slot in step, unless the tag has moved  *)
(* back meanwhile.                                                         *)
LEMMA AskStep ==
    ASSUME CabinetOK, present' = present, NEW t \in Transitions, Handle(t)
    PROVE  /\ CabinetOK'
           /\ \A f \in Epcs \ {t.epc} : InStep(f) => InStep(f)'
           /\ InStep(t.epc)' \/ Overtaken(t)
  <1> USE DEF CabinetOK, Cabinet!CustodyTypeOK, Cabinet!Places, Cabinet!Away,
              Cabinet!Inside, InStep, Overtaken
  <1>1. t.epc \in Epcs /\ t.kind \in {"appear", "disappear"}
    BY DEF Transitions
  <1>2. CASE t.kind = "disappear"
    BY <1>1, <1>2 DEF Handle, Cabinet!AskOut, Cabinet!LeaveAgain, Cabinet!Put
  <1>3. CASE t.kind = "appear"
    BY <1>1, <1>3 DEF Handle, Cabinet!AskIn, Cabinet!Put
  <1> QED BY <1>1, <1>2, <1>3

(* ... and so does one about which there is nothing to ask, unless another *)
(* question about the slot is open.                                        *)
LEMMA NothingStep ==
    ASSUME CabinetOK, NEW t \in Transitions, NothingToDo(t)
    PROVE  InStep(t.epc) \/ Crossed(t) \/ Overtaken(t)
  <1>1. t.epc \in Epcs /\ t.kind \in {"appear", "disappear"}
    BY DEF Transitions
  <1> QED BY <1>1 DEF NothingToDo, CabinetOK, Cabinet!CustodyTypeOK,
             Cabinet!Places, Cabinet!Away, Cabinet!Inside, InStep, Crossed, Overtaken

-----------------------------------------------------------------------------
(* The tasks.                                                              *)

\* What a step that leaves the slots and the work alone keeps.
LEMMA SameSlots ==
    ASSUME FlowInv, ClockInv', AgeBehindUnlessHeld', HandsFree',
           present' = present, out' = {},
           bootstrapping' = bootstrapping,
           UNCHANGED <<work, place, stock, restarts, missed>>,
           line' \in Seq(Epcs \cup Others), alive' \in BOOLEAN,
           inHand' \in Epcs \cup Others \cup {NoTag}, waited' \in 0..MaxDelay
    PROVE  FlowInv'
  <1>1. SlotFollowsTag'
    BY DEF FlowInv, SlotFollowsTag, InStep
  <1>2. CabinetOK' /\ EarlyOnlyWhileHeldUp'
    BY DEF FlowInv, CabinetOK, Cabinet!CustodyTypeOK, EarlyOnlyWhileHeldUp
  <1>3. FlowTypeOK'
    BY <1>2 DEF FlowInv, FlowTypeOK, ClockInv, CabinetOK
  <1> QED BY <1>1, <1>2, <1>3 DEF FlowInv

LEMMA FlowMoveKeeps ==
    ASSUME FlowInv, NEW e \in Epcs, FlowMove(e)
    PROVE  FlowInv'
  <1>1. ClockInv'
    BY MoveKeeps DEF FlowInv, FlowMove
  <1>2. AgeBehindUnlessHeld' /\ HandsFree'
    BY DEF FlowInv, FlowMove, Move, AgeBehindUnlessHeld, ReadWaits, HandsFree
  <1> QED BY <1>1, <1>2, SameSlots DEF FlowInv, FlowTypeOK, FlowMove, Move

LEMMA FlowElapseKeeps ==
    ASSUME FlowInv, FlowElapse
    PROVE  FlowInv'
  <1>1. ClockInv' /\ \A f \in Epcs : age[f] <= heard[f] => age'[f] <= heard'[f]
    BY ElapseKeeps DEF FlowInv, FlowElapse
  <1>2. AgeBehindUnlessHeld' /\ HandsFree'
    BY <1>1 DEF FlowInv, FlowTypeOK, TypeOK, FlowElapse, Elapse,
                AgeBehindUnlessHeld, ReadWaits, HandsFree
  <1>3. waited' \in 0..MaxDelay
    BY FlowAssumption DEF FlowInv, FlowTypeOK, FlowElapse
  <1> QED BY <1>1, <1>2, <1>3, SameSlots DEF FlowInv, FlowTypeOK, FlowElapse, Elapse

(* A read that takes its place in line waits there, and none that waited   *)
(* is lost.                                                                *)
LEMMA LineUpEffect ==
    ASSUME line \in Seq(Epcs \cup Others), NEW r \in Epcs \cup Others,
           LineUp(r), inHand' = inHand
    PROVE  /\ line' \in Seq(Epcs \cup Others)
           /\ \A e \in Epcs : ReadWaits(e) => ReadWaits(e)'
           /\ r \in Epcs => ReadWaits(r)'
  <1> DEFINE behind == {i \in DOMAIN line : line[i] = r}
  <1>1. CASE line' = Append(line, r)
    <2>1. /\ line' \in Seq(Epcs \cup Others)
          /\ Len(line) + 1 \in DOMAIN line' /\ line'[Len(line) + 1] = r
          /\ \A i \in DOMAIN line : i \in DOMAIN line' /\ line'[i] = line[i]
      BY <1>1
    <2>2. ASSUME NEW e \in Epcs, ReadWaits(e) PROVE ReadWaits(e)'
      BY <2>1, <2>2 DEF ReadWaits
    <2>3. ReadWaits(r)'
      BY <2>1 DEF ReadWaits
    <2> QED BY <2>1, <2>2, <2>3
  <1>2. CASE line' = line /\ ~(Cardinality(behind) < MaxReads)
    <2>1. behind # {}
      <3>1. ASSUME behind = {} PROVE FALSE
        <4>1. Cardinality(behind) = 0
          BY <3>1, FS_EmptySet
        <4> HIDE DEF behind
        <4> QED BY <1>2, <4>1, FlowAssumption
      <3> QED BY <3>1
    <2>2. PICK i \in DOMAIN line : line[i] = r
      BY <2>1
    <2> QED BY <1>2, <2>2 DEF ReadWaits
  <1> QED BY <1>1, <1>2 DEF LineUp

LEMMA ReportKeeps ==
    ASSUME FlowInv, NEW e \in Epcs, Report(e)
    PROVE  FlowInv'
  <1>1. ClockInv'
    BY WatchdogAssumption
       DEF FlowInv, ClockInv, TypeOK, Counters, MissesTakeTime, Report, Heard
  <1>2. /\ line' \in Seq(Epcs \cup Others)
        /\ \A f \in Epcs : ReadWaits(f) => ReadWaits(f)'
        /\ ReadWaits(e)'
    BY LineUpEffect DEF FlowInv, FlowTypeOK, Report
  <1>3. AgeBehindUnlessHeld'
    <2> SUFFICES ASSUME NEW f \in present', alive', ~ReadWaits(f)'
                 PROVE  age'[f] <= heard'[f]
      BY DEF AgeBehindUnlessHeld
    <2>1. /\ f \in Epcs /\ f \in present /\ alive /\ f # e
          /\ age' = age /\ heard'[f] = heard[f]
      BY <1>1, <1>2 DEF ClockInv, TypeOK, FlowInv, Report, Heard
    <2>2. age[f] <= heard[f] \/ ReadWaits(f)
      BY <2>1 DEF FlowInv, AgeBehindUnlessHeld
    <2> QED BY <1>2, <2>1, <2>2
  <1>4. HandsFree'
    BY DEF FlowInv, Report, HandsFree
  <1> QED BY <1>1, <1>2, <1>3, <1>4, SameSlots DEF Report, FlowInv, FlowTypeOK

LEMMA ReportOtherKeeps ==
    ASSUME FlowInv, NEW r \in Others, ReportOther(r)
    PROVE  FlowInv'
  <1>1. ClockInv'
    BY DEF FlowInv, ClockInv, TypeOK, Counters, MissesTakeTime, ReportOther
  <1>2. /\ line' \in Seq(Epcs \cup Others)
        /\ \A f \in Epcs : ReadWaits(f) => ReadWaits(f)'
    BY LineUpEffect DEF FlowInv, FlowTypeOK, ReportOther
  <1>3. AgeBehindUnlessHeld' /\ HandsFree'
    BY <1>2 DEF FlowInv, FlowTypeOK, TypeOK, ReportOther, AgeBehindUnlessHeld, HandsFree
  <1> QED BY <1>1, <1>2, <1>3, SameSlots DEF ReportOther, FlowInv, FlowTypeOK

LEMMA ReceiveKeeps ==
    ASSUME FlowInv, Receive
    PROVE  FlowInv'
  <1>1. ClockInv'
    BY DEF FlowInv, ClockInv, TypeOK, Counters, MissesTakeTime, Receive
  <1>2. /\ line \in Seq(Epcs \cup Others) /\ line # <<>>
        /\ inHand' = line[1] /\ line' = Tail(line) /\ inHand = NoTag
    BY DEF FlowInv, FlowTypeOK, Receive
  <1>3. /\ line' \in Seq(Epcs \cup Others) /\ inHand' \in Epcs \cup Others
        /\ \A i \in DOMAIN line : i = 1 \/ (i - 1 \in DOMAIN line' /\ line'[i - 1] = line[i])
    BY <1>2
  <1>4. \A f \in Epcs : ReadWaits(f) => ReadWaits(f)'
    BY <1>2, <1>3, FlowAssumption DEF ReadWaits
  <1>5. AgeBehindUnlessHeld'
    BY <1>4 DEF FlowInv, FlowTypeOK, TypeOK, Receive, AgeBehindUnlessHeld
  <1>6. HandsFree' /\ waited' \in 0..MaxDelay
    BY FlowAssumption DEF Receive, HandsFree
  <1> QED BY <1>1, <1>3, <1>5, <1>6, SameSlots DEF Receive, FlowInv, FlowTypeOK

LEMMA LookupFailsKeeps ==
    ASSUME FlowInv, LookupFails
    PROVE  FlowInv'
  <1>1. ClockInv'
    BY DEF FlowInv, ClockInv, TypeOK, Counters, MissesTakeTime, LookupFails
  <1>2. AgeBehindUnlessHeld' /\ HandsFree' /\ waited' \in 0..MaxDelay
    BY FlowAssumption DEF LookupFails, AgeBehindUnlessHeld, HandsFree
  <1> QED BY <1>1, <1>2, SameSlots DEF LookupFails, FlowInv, FlowTypeOK

\* What a call of the watchdog returns is work, and news; about the tags it
\* says nothing of, nothing has changed.
LEMMA TaskKeepsSlots ==
    ASSUME FlowInv, NEW p \in Tasks, work[p] = {}, TakeOn(p),
           out' \in SUBSET Transitions, bootstrapping' = bootstrapping,
           UNCHANGED <<place, stock>>,
           \A e \in Epcs : \/ bootstrapping
                           \/ e \in present' <=> e \in present
                           \/ \E t \in out' : t.epc = e
    PROVE  /\ SlotFollowsTag' /\ CabinetOK'
           /\ work' \in [Tasks -> SUBSET Transitions]
           /\ missed' \in SUBSET Epcs
           /\ \A q \in Tasks \ {p} : work'[q] = work[q]
  <1>1. /\ work' \in [Tasks -> SUBSET Transitions]
        /\ missed' \in SUBSET Epcs
        /\ \A q \in Tasks \ {p} : work'[q] = work[q]
        /\ work'[p] = out'
    BY DEF FlowInv, FlowTypeOK, TakeOn
  <1>2. CabinetOK'
    BY DEF FlowInv, CabinetOK, Cabinet!CustodyTypeOK
  <1>3. ASSUME NEW e \in Epcs, ~bootstrapping, e \notin missed',
               \A q \in Tasks : \A t \in work'[q] : t.epc # e
        PROVE  InStep(e)'
    <2>1. \A t \in out' : t.epc # e
      BY <1>1, <1>3
    <2>2. e \in present' <=> e \in present
      BY <1>3, <2>1
    <2>3. e \notin missed
      BY <1>3, <2>1 DEF TakeOn
    <2>4. \A q \in Tasks : \A t \in work[q] : t.epc # e
      BY <1>1, <1>3
    <2>5. InStep(e)
      BY <1>3, <2>3, <2>4 DEF FlowInv, SlotFollowsTag
    <2> QED BY <2>2, <2>5 DEF InStep
  <1>4. SlotFollowsTag'
    BY <1>3 DEF SlotFollowsTag
  <1> QED BY <1>1, <1>2, <1>4

LEMMA DeliverOtherKeeps ==
    ASSUME FlowInv, Deliver, inHand \in Others
    PROVE  FlowInv'
  <1>1. /\ out' = {} /\ inHand' = NoTag /\ waited' = 0
        /\ UNCHANGED <<bootstrapping, present, appearStreak, missStreak, age,
                       sinceTick, work, missed, inZone, heard, line, alive,
                       place, stock, restarts>>
    BY FlowAssumption DEF Deliver
  <1>2. ClockInv'
    BY <1>1 DEF FlowInv, ClockInv, TypeOK, Counters, MissesTakeTime
  <1>3. \A f \in Epcs : ReadWaits(f) => ReadWaits(f)'
    BY <1>1, FlowAssumption DEF ReadWaits
  <1>4. AgeBehindUnlessHeld' /\ HandsFree' /\ waited' \in 0..MaxDelay
    BY <1>1, <1>3, FlowAssumption
       DEF FlowInv, FlowTypeOK, TypeOK, AgeBehindUnlessHeld, HandsFree
  <1> QED BY <1>1, <1>2, <1>4, SameSlots DEF FlowInv, FlowTypeOK

LEMMA DeliverKeeps ==
    ASSUME FlowInv, Deliver, inHand \notin Others
    PROVE  FlowInv'
  <1>1. inHand \in Epcs /\ NoteRead(inHand) /\ TakeOn("gateway")
    BY DEF FlowInv, FlowTypeOK, Deliver
  <1>2. inZone' \in SUBSET Epcs /\ heard' \in [Epcs -> 0..MaxAge]
    BY DEF Deliver, FlowInv, FlowTypeOK, TypeOK
  <1>3. /\ ClockInv'
        /\ \A f \in Epcs : age'[f] = IF f = inHand THEN 0 ELSE age[f]
        /\ \A f \in Epcs : [epc |-> f, kind |-> "disappear"] \notin out'
    BY <1>1, <1>2, NoteReadKeeps DEF FlowInv
  <1>4. /\ out' \in SUBSET Transitions /\ bootstrapping' = bootstrapping
        /\ \A e \in Epcs : \/ bootstrapping
                           \/ e \in present' <=> e \in present
                           \/ \E t \in out' : t.epc = e
    <2>1. out' \in SUBSET Transitions /\ bootstrapping' = bootstrapping
      BY <1>1 DEF NoteRead, Transitions
    <2>2. ASSUME NEW e \in Epcs, ~bootstrapping, ~(e \in present' <=> e \in present)
          PROVE  \E t \in out' : t.epc = e
      <3>1. e = inHand /\ e \notin present /\ e \in present'
        BY <1>1, <2>2 DEF NoteRead
      <3>2. out' = {[epc |-> e, kind |-> "appear"]}
        BY <1>1, <2>2, <3>1 DEF NoteRead
      <3> QED BY <3>2
    <2> QED BY <2>1, <2>2
  <1>5. "gateway" \in Tasks /\ work["gateway"] = {}
    BY <1>1, FlowAssumption DEF Tasks, FlowInv, HandsFree
  <1>6. /\ SlotFollowsTag' /\ CabinetOK'
        /\ work' \in [Tasks -> SUBSET Transitions]
        /\ missed' \in SUBSET Epcs
    BY <1>1, <1>4, <1>5, TaskKeepsSlots DEF Deliver
  <1>7. AgeBehindUnlessHeld'
    <2> SUFFICES ASSUME NEW e \in present', alive', ~ReadWaits(e)'
                 PROVE  age'[e] <= heard'[e]
      BY DEF AgeBehindUnlessHeld
    <2>1. e \in Epcs /\ heard[e] \in Nat /\ heard' = heard /\ alive
      BY <1>3 DEF ClockInv, FlowInv, TypeOK, Deliver
    <2>2. CASE e = inHand
      BY <1>3, <2>1, <2>2
    <2>3. CASE e # inHand
      <3>1. e \in present
        BY <1>1, <2>3 DEF NoteRead
      <3>2. ~ReadWaits(e)
        BY <2>3 DEF ReadWaits, Deliver
      <3> QED BY <1>3, <2>1, <2>3, <3>1, <3>2 DEF FlowInv, AgeBehindUnlessHeld
    <2> QED BY <2>2, <2>3
  <1>8. HandsFree' /\ EarlyOnlyWhileHeldUp'
    BY <1>3 DEF Deliver, HandsFree, EarlyOnlyWhileHeldUp
  <1>9. FlowTypeOK'
    BY <1>3, <1>6, FlowAssumption
       DEF FlowInv, FlowTypeOK, ClockInv, CabinetOK, Deliver
  <1> QED BY <1>3, <1>6, <1>7, <1>8, <1>9 DEF FlowInv

LEMMA FlowTickKeeps ==
    ASSUME FlowInv, FlowTick
    PROVE  FlowInv'
  <1>1. /\ ClockInv'
        /\ \A e \in Epcs : [epc |-> e, kind |-> "disappear"] \in out' =>
             e \in present /\ age[e] > Grace + (DisappearCount - 1) * TickEvery
    BY TickKeeps DEF FlowInv, FlowTick
  <1>2. /\ age' = age /\ heard' = heard /\ present' \subseteq present
        /\ bootstrapping' = bootstrapping
    BY DEF FlowTick, Tick
  <1>3. \A e \in Epcs : \/ bootstrapping
                        \/ e \in present' <=> e \in present
                        \/ \E t \in out' : t.epc = e
    <2> DEFINE gone == {e \in present : Misses(e) >= DisappearCount}
    <2>1. /\ present' = present \ gone
          /\ out' = {[epc |-> e, kind |-> "disappear"] : e \in gone}
      BY DEF FlowTick, Tick
    <2> HIDE DEF gone
    <2>2. ASSUME NEW e \in Epcs, e \in gone
          PROVE  \E t \in out' : t.epc = e
      <3>1. [epc |-> e, kind |-> "disappear"] \in out'
        BY <2>1, <2>2
      <3> QED BY <3>1
    <2>3. \A e \in Epcs : e \notin gone => (e \in present' <=> e \in present)
      BY <2>1
    <2> QED BY <2>2, <2>3
  <1>4. out' \in SUBSET Transitions /\ "tick" \in Tasks /\ work["tick"] = {}
    BY <1>1 DEF ClockInv, TypeOK, Tasks, FlowTick
  <1>5. /\ SlotFollowsTag' /\ CabinetOK'
        /\ work' \in [Tasks -> SUBSET Transitions]
        /\ missed' \in SUBSET Epcs
        /\ work'["gateway"] = work["gateway"]
    BY <1>2, <1>3, <1>4, TaskKeepsSlots DEF FlowTick, Tasks
  <1>6. AgeBehindUnlessHeld' /\ HandsFree'
    BY <1>2, <1>5 DEF FlowInv, AgeBehindUnlessHeld, ReadWaits, HandsFree, FlowTick
  <1>7. EarlyOnlyWhileHeldUp'
    <2> SUFFICES ASSUME NEW e \in Epcs, [epc |-> e, kind |-> "disappear"] \in out',
                        ~ReadWaits(e), alive
                 PROVE  heard[e] > Grace + (DisappearCount - 1) * TickEvery
      BY <1>2 DEF EarlyOnlyWhileHeldUp, ReadWaits, FlowTick
    <2>1. age[e] <= heard[e] /\ age[e] > Grace + (DisappearCount - 1) * TickEvery
      BY <1>1 DEF FlowInv, AgeBehindUnlessHeld
    <2>2. age[e] \in Int /\ heard[e] \in Int
          /\ Grace + (DisappearCount - 1) * TickEvery \in Int
      BY WatchdogAssumption DEF FlowInv, ClockInv, TypeOK
    <2> QED BY <2>1, <2>2
  <1>8. FlowTypeOK'
    BY <1>1, <1>5 DEF FlowInv, FlowTypeOK, ClockInv, CabinetOK, FlowTick
  <1> QED BY <1>1, <1>5, <1>6, <1>7, <1>8 DEF FlowInv

LEMMA HandleTransitionKeeps ==
    ASSUME FlowInv, NEW p \in Tasks, HandleTransition(p)
    PROVE  FlowInv'
  <1>1. PICK t \in work[p] :
          /\ work' = [work EXCEPT ![p] = @ \ {t}]
          /\ \/ /\ Handle(t) \/ NothingToDo(t)
                /\ missed' = IF Crossed(t) \/ Overtaken(t)
                             THEN missed \cup {t.epc} ELSE missed
             \/ /\ "handling" \in Faults
                /\ missed' = missed \cup {t.epc}
                /\ UNCHANGED <<place, stock>>
    BY DEF HandleTransition
  <1>2. t \in Transitions /\ t.epc \in Epcs
    BY DEF FlowInv, FlowTypeOK, Transitions
  <1>3. /\ out' = {} /\ present' = present /\ bootstrapping' = bootstrapping
        /\ UNCHANGED <<appearStreak, missStreak, age, sinceTick, inZone, heard,
                       line, alive, inHand, waited, restarts>>
    BY DEF HandleTransition
  <1>4. ClockInv'
    BY <1>3 DEF FlowInv, ClockInv, TypeOK, Counters, MissesTakeTime
  <1>5. AgeBehindUnlessHeld' /\ EarlyOnlyWhileHeldUp'
    BY <1>3 DEF FlowInv, AgeBehindUnlessHeld, ReadWaits, EarlyOnlyWhileHeldUp
  <1>6. HandsFree'
    BY <1>1, <1>3 DEF FlowInv, HandsFree, FlowTypeOK, Tasks
  <1>7. work' \in [Tasks -> SUBSET Transitions] /\ missed' \in SUBSET Epcs
    BY <1>1, <1>2 DEF FlowInv, FlowTypeOK
  <1>8. /\ CabinetOK'
        /\ \A f \in Epcs \ {t.epc} : InStep(f) => InStep(f)'
        /\ InStep(t.epc)' \/ t.epc \in missed'
    <2>1. CASE Handle(t) /\ missed' = IF Crossed(t) \/ Overtaken(t)
                                      THEN missed \cup {t.epc} ELSE missed
      BY <1>2, <1>3, <2>1, AskStep DEF FlowInv
    <2>2. CASE NothingToDo(t) /\ missed' = IF Crossed(t) \/ Overtaken(t)
                                           THEN missed \cup {t.epc} ELSE missed
      <3>1. place' = place /\ stock' = stock
        BY <2>2 DEF NothingToDo
      <3>2. InStep(t.epc) \/ Crossed(t) \/ Overtaken(t)
        BY <1>2, <2>2, NothingStep DEF FlowInv
      <3> QED BY <1>3, <2>2, <3>1, <3>2
              DEF FlowInv, CabinetOK, Cabinet!CustodyTypeOK, InStep
    <2>3. CASE missed' = missed \cup {t.epc} /\ UNCHANGED <<place, stock>>
      BY <1>3, <2>3 DEF FlowInv, CabinetOK, Cabinet!CustodyTypeOK, InStep
    <2> QED BY <1>1, <2>1, <2>2, <2>3
  <1>9. SlotFollowsTag'
    <2> SUFFICES ASSUME NEW e \in Epcs, ~bootstrapping, e \notin missed',
                        \A q \in Tasks : \A u \in work'[q] : u.epc # e
                 PROVE  InStep(e)'
      BY <1>3 DEF SlotFollowsTag
    <2>1. CASE e = t.epc
      BY <1>8, <2>1
    <2>2. CASE e # t.epc
      <3>1. \A q \in Tasks : \A u \in work[q] : u.epc # e
        BY <1>1, <2>2 DEF FlowInv, FlowTypeOK
      <3>2. e \notin missed
        BY <1>1
      <3> QED BY <1>8, <2>2, <3>1, <3>2 DEF FlowInv, SlotFollowsTag
    <2> QED BY <2>1, <2>2
  <1>10. FlowTypeOK'
    BY <1>3, <1>4, <1>7, <1>8 DEF FlowInv, FlowTypeOK, ClockInv, CabinetOK
  <1> QED BY <1>4, <1>5, <1>6, <1>8, <1>9, <1>10 DEF FlowInv

-----------------------------------------------------------------------------
(* Operators, bootstrap and restart.                                       *)

LEMMA OperateKeeps ==
    ASSUME FlowInv, Operate
    PROVE  FlowInv'
  <1>1. /\ out' = {} /\ present' = present /\ bootstrapping' = bootstrapping
        /\ UNCHANGED <<appearStreak, missStreak, age, sinceTick, inZone, heard,
                       line, alive, inHand, waited, work, restarts>>
    BY DEF Operate
  <1>2. ClockInv'
    BY <1>1 DEF FlowInv, ClockInv, TypeOK, Counters, MissesTakeTime
  <1>3. AgeBehindUnlessHeld' /\ EarlyOnlyWhileHeldUp' /\ HandsFree'
    BY <1>1 DEF FlowInv, AgeBehindUnlessHeld, ReadWaits, EarlyOnlyWhileHeldUp, HandsFree
  <1>4. /\ CabinetOK' /\ missed \subseteq missed' /\ missed' \in SUBSET Epcs
        /\ \A f \in Epcs : InStep(f) => InStep(f)' \/ f \in missed'
    <2>0. CabinetOK /\ missed \in SUBSET Epcs
      BY DEF FlowInv, FlowTypeOK
    <2>1. ASSUME NEW e \in Epcs, Cabinet!Manual(e),
                 missed' = IF place'[e] = "in" /\ e \notin present
                           THEN missed \cup {e} ELSE missed
          PROVE  /\ CabinetOK' /\ missed \subseteq missed' /\ missed' \in SUBSET Epcs
                 /\ \A f \in Epcs : InStep(f) => InStep(f)' \/ f \in missed'
      BY <1>1, <2>0, <2>1, ManualStep
    <2>2. ASSUME NEW e \in Epcs, Cabinet!Reply(e), missed' = missed
          PROVE  /\ CabinetOK' /\ missed \subseteq missed' /\ missed' \in SUBSET Epcs
                 /\ \A f \in Epcs : InStep(f) => InStep(f)' \/ f \in missed'
      BY <1>1, <2>0, <2>2, ReplyStep
    <2>3. CASE Cabinet!DropQuestions /\ missed' = missed
      BY <1>1, <2>0, <2>3, DropStep
    <2> QED BY <2>1, <2>2, <2>3 DEF Operate
  <1>5. SlotFollowsTag'
    <2> SUFFICES ASSUME NEW e \in Epcs, ~bootstrapping, e \notin missed',
                        \A q \in Tasks : \A t \in work[q] : t.epc # e
                 PROVE  InStep(e)'
      BY <1>1 DEF SlotFollowsTag
    <2>1. InStep(e)
      BY <1>4 DEF FlowInv, SlotFollowsTag
    <2> QED BY <1>4, <2>1
  <1>6. FlowTypeOK'
    BY <1>1, <1>2, <1>4 DEF FlowInv, FlowTypeOK, ClockInv, CabinetOK
  <1> QED BY <1>2, <1>3, <1>4, <1>5, <1>6 DEF FlowInv

LEMMA FlowEndBootstrapKeeps ==
    ASSUME FlowInv, FlowEndBootstrap
    PROVE  FlowInv'
  <1>1. ClockInv'
    BY EndBootstrapKeeps DEF FlowInv, FlowEndBootstrap
  <1>2. /\ out' = {} /\ present' = present /\ heard' = heard
        /\ UNCHANGED <<line, alive, inHand, waited, work, place, stock, restarts>>
        /\ missed' = {e \in Epcs : ~InStep(e)}
    BY DEF FlowEndBootstrap, EndBootstrap
  <1>3. AgeBehindUnlessHeld'
    <2>1. \A e \in present : age'[e] = 0 /\ heard[e] \in Nat
      BY DEF FlowInv, ClockInv, TypeOK, FlowEndBootstrap, EndBootstrap
    <2> QED BY <1>2, <2>1 DEF AgeBehindUnlessHeld
  <1>4. SlotFollowsTag' /\ HandsFree' /\ EarlyOnlyWhileHeldUp' /\ CabinetOK'
    BY <1>2 DEF SlotFollowsTag, InStep, FlowInv, HandsFree, EarlyOnlyWhileHeldUp,
                CabinetOK, Cabinet!CustodyTypeOK
  <1>5. FlowTypeOK'
    BY <1>1, <1>2, <1>4 DEF FlowInv, FlowTypeOK, ClockInv, CabinetOK
  <1> QED BY <1>1, <1>3, <1>4, <1>5 DEF FlowInv

LEMMA RestartKeeps ==
    ASSUME FlowInv, Restart
    PROVE  FlowInv'
  <1> USE WatchdogAssumption, FlowAssumption
  <1>1. ClockInv'
    <2>1. /\ appearStreak' \in [Epcs -> 0..AppearCount]
          /\ missStreak' \in [Epcs -> 0..DisappearCount]
          /\ age' \in [Epcs -> 0..MaxAge] /\ sinceTick' \in 0..TickEvery
      BY DEF Restart
    <2>2. TypeOK'
      BY <2>1 DEF FlowInv, ClockInv, TypeOK, Restart
    <2> QED BY <2>2 DEF ClockInv, Counters, MissesTakeTime, Restart
  <1>2. AgeBehindUnlessHeld' /\ HandsFree' /\ EarlyOnlyWhileHeldUp' /\ SlotFollowsTag'
    BY DEF Restart, AgeBehindUnlessHeld, HandsFree, EarlyOnlyWhileHeldUp, SlotFollowsTag
  <1>3. CabinetOK'
    BY DEF Restart, FlowInv, CabinetOK, Cabinet!CustodyTypeOK
  <1>4. /\ restarts' \in 0..MaxRestarts /\ waited' \in 0..MaxDelay
        /\ work' \in [Tasks -> SUBSET Transitions]
        /\ alive' \in BOOLEAN /\ inHand' \in Epcs \cup Others \cup {NoTag}
        /\ line' \in Seq(Epcs \cup Others)
        /\ missed' \in SUBSET Epcs
    BY DEF Restart, FlowInv, FlowTypeOK
  <1>5. FlowTypeOK'
    BY <1>1, <1>3, <1>4 DEF FlowTypeOK, ClockInv, CabinetOK
  <1> QED BY <1>1, <1>2, <1>3, <1>5 DEF FlowInv

-----------------------------------------------------------------------------

LEMMA FlowCorrect == FlowSpec => []FlowInv
  <1>1. FlowInit => FlowInv
    <2> SUFFICES ASSUME FlowInit PROVE FlowInv
      OBVIOUS
    <2> USE WatchdogAssumption, FlowAssumption
    <2>1. ClockInv
      BY DEF FlowInit, Init, ClockInv, TypeOK, Counters, MissesTakeTime
    <2>2. CabinetOK
      BY DEF FlowInit, CabinetOK, Cabinet!CustodyInit, Cabinet!CustodyTypeOK,
             Cabinet!Places
    <2>3. FlowTypeOK
      BY <2>1, <2>2 DEF FlowInit, FlowTypeOK, ClockInv, CabinetOK
    <2>4. SlotFollowsTag /\ AgeBehindUnlessHeld /\ HandsFree /\ EarlyOnlyWhileHeldUp
      BY DEF FlowInit, Init, SlotFollowsTag, AgeBehindUnlessHeld, HandsFree,
             EarlyOnlyWhileHeldUp
    <2> QED BY <2>1, <2>2, <2>3, <2>4 DEF FlowInv
  <1>2. FlowInv /\ [FlowNext]_flowVars => FlowInv'
    <2> SUFFICES ASSUME FlowInv, [FlowNext]_flowVars PROVE FlowInv'
      OBVIOUS
    <2>1. ASSUME NEW e \in Epcs, FlowMove(e) PROVE FlowInv'
      BY <2>1, FlowMoveKeeps
    <2>2. ASSUME NEW e \in Epcs, Report(e) PROVE FlowInv'
      BY <2>2, ReportKeeps
    <2>12. ASSUME NEW r \in Others, ReportOther(r) PROVE FlowInv'
      BY <2>12, ReportOtherKeeps
    <2>13. CASE Receive
      BY <2>13, ReceiveKeeps
    <2>3. CASE FlowElapse
      BY <2>3, FlowElapseKeeps
    <2>4. CASE FlowTick
      BY <2>4, FlowTickKeeps
    <2>5. CASE FlowEndBootstrap
      BY <2>5, FlowEndBootstrapKeeps
    <2>6. CASE Deliver
      BY <2>6, DeliverKeeps, DeliverOtherKeeps
    <2>7. CASE LookupFails
      BY <2>7, LookupFailsKeeps
    <2>8. ASSUME NEW p \in Tasks, HandleTransition(p) PROVE FlowInv'
      BY <2>8, HandleTransitionKeeps
    <2>9. CASE Operate
      BY <2>9, OperateKeeps
    <2>10. CASE Restart
      BY <2>10, RestartKeeps
    <2>11. CASE UNCHANGED flowVars
      BY <2>11 DEF flowVars, vars, FlowInv, FlowTypeOK, ClockInv, TypeOK, Counters,
                   MissesTakeTime, CabinetOK, Cabinet!CustodyTypeOK, HandsFree,
                   AgeBehindUnlessHeld, ReadWaits, SlotFollowsTag, InStep, EarlyOnlyWhileHeldUp
    <2> QED BY <2>1, <2>2, <2>3, <2>4, <2>5, <2>6, <2>7, <2>8, <2>9, <2>10, <2>11,
               <2>12, <2>13
            DEF FlowNext
  <1> QED BY <1>1, <1>2, PTL DEF FlowSpec

(* Every part of the flow keeps its type, through faults and restarts: the *)
(* watchdog's counters stay below their limits, no slot books out a unit   *)
(* it does not have (lifespan.py, operation_service.py).                   *)
THEOREM FlowTypeCorrect == FlowSpec => []FlowTypeOK
  <1>1. FlowInv => FlowTypeOK
    BY DEF FlowInv
  <1> QED BY <1>1, FlowCorrect, PTL

(* _handle_presence_transition: once the transitions of a tag are handled, *)
(* its slot says where the watchdog has it; the exceptions are those that  *)
(* the history variable names, for any number of tags and any delay.       *)
THEOREM SlotFollowsTagHolds == FlowSpec => []SlotFollowsTag
  <1>1. FlowInv => SlotFollowsTag
    BY DEF FlowInv
  <1> QED BY <1>1, FlowCorrect, PTL

(* _loop and _on_gateway_event tell the watchdog of a read only when those *)
(* before it are dealt with and the event bus has been served: a tag is    *)
(* reported gone early only while a read of it waits for that, or when the *)
(* gateway's task is dead, for any number of tags and any delay.           *)
THEOREM EarlyOnlyWhileHeldUpHolds == FlowSpec => []EarlyOnlyWhileHeldUp
  <1>1. FlowInv => EarlyOnlyWhileHeldUp
    BY DEF FlowInv
  <1> QED BY <1>1, FlowCorrect, PTL
=============================================================================
