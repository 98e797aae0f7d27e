------------------------ MODULE SlotSessions_proofs ------------------------
(***************************************************************************)
(* What holds of the handlers when they are opened up into sessions: their *)
(* types, and that an answered operation stays as it is, for any number of *)
(* operators; for a single operator beside the two watchdogs, that no      *)
(* interleaving of their statements does what whole handlers one after the *)
(* other could not, but for the statuses of cabinets.                      *)
(***************************************************************************)
EXTENDS SlotSessions, SlotOperations_proofs

(* What is left of a list of four statements.                              *)
Rest(a, b, c, d) == {<<a, b, c, d>>, <<b, c, d>>, <<c, d>>, <<d>>, <<>>}

LEMMA RestLength ==
    ASSUME NEW a, NEW b, NEW c, NEW d, NEW todo \in Rest(a, b, c, d)
    PROVE  Len(todo) \in 0..4 /\ (Len(todo) = 0 <=> todo = <<>>)
  <1>1. CASE todo = <<>>
    BY <1>1
  <1>2. CASE todo = <<d>> \/ todo = <<c, d>>
    BY <1>2
  <1>3. CASE todo = <<b, c, d>> \/ todo = <<a, b, c, d>>
    BY <1>3
  <1> QED BY <1>1, <1>2, <1>3 DEF Rest

LEMMA RestStep ==
    ASSUME NEW a, NEW b, NEW c, NEW d, NEW todo \in Rest(a, b, c, d), todo # <<>>
    PROVE  /\ Tail(todo) \in Rest(a, b, c, d)
           /\ Len(Tail(todo)) = Len(todo) - 1
           /\ Len(todo) \in 1..4
           /\ Len(todo) = 4 => Head(todo) = a
           /\ Len(todo) = 3 => Head(todo) = b
           /\ Len(todo) = 2 => Head(todo) = c
           /\ Len(todo) = 1 => Head(todo) = d
  <1>1. /\ Tail(<<a, b, c, d>>) = <<b, c, d>>
        /\ Tail(<<b, c, d>>) = <<c, d>>
        /\ Tail(<<c, d>>) = <<d>>
        /\ Tail(<<d>>) = <<>>
    OBVIOUS
  <1>2. CASE todo = <<a, b, c, d>>
    BY <1>1, <1>2 DEF Rest
  <1>3. CASE todo = <<b, c, d>>
    BY <1>1, <1>3 DEF Rest
  <1>4. CASE todo = <<c, d>>
    BY <1>1, <1>4 DEF Rest
  <1>5. CASE todo = <<d>>
    BY <1>1, <1>5 DEF Rest
  <1> QED BY <1>2, <1>3, <1>4, <1>5 DEF Rest

-----------------------------------------------------------------------------
(* Types.                                                                  *)

Statements == {"op", "slot", "item", "cab", "log"}

TodoOf(act) ==
    CASE act \in {"confirm", "cancel"} -> Rest("op", "slot", "item", "cab")
      [] act = "edit" -> Rest("item", "slot", "cab", "log")
      [] act \in {"disappear", "appear"} -> Rest("log", "slot", "item", "cab")
      [] OTHER -> {<<>>}

(* Whose session it is, and what it has to know to write what it writes.   *)
TypedAs(p, my) ==
    /\ my.act = "idle" => my = Idle
    /\ my.act \in {"confirm", "cancel", "edit"} => p \in Operators
    /\ my.act = "disappear" => p = "tick"
    /\ my.act = "appear" => p = "gateway"
    /\ my.act = "confirm" => my.arg \in 0..MaxConsumed
    /\ my.todo \in TodoOf(my.act)
    /\ my.act \in {"edit", "disappear", "appear"} => my.slot \in Slots
    /\ my.act \in {"confirm", "cancel"} /\ Len(my.todo) < 4 =>
         /\ my.row \in OpRows /\ my.row.status = "pending"
         /\ my.slot = my.row.slot

SesTyped ==
    /\ SesTypeOK /\ Len(ops) <= MaxOps
    /\ \A p \in Sessions : TypedAs(p, ses[p])

LEMMA TodoLength ==
    ASSUME NEW act, NEW todo \in TodoOf(act)
    PROVE  Len(todo) \in 0..4 /\ (Len(todo) = 0 <=> todo = <<>>)
  <1>1. CASE todo = <<>>
    BY <1>1
  <1>2. CASE todo # <<>>
    <2>1. \E a, b, c, d : todo \in Rest(a, b, c, d)
      BY <1>2 DEF TodoOf
    <2> QED BY <2>1, RestLength
  <1> QED BY <1>1, <1>2

(* A statement is the next one of its list, and leaves the rest of it.     *)
LEMMA TodoStep ==
    ASSUME NEW act, NEW todo \in TodoOf(act), todo # <<>>
    PROVE  /\ Tail(todo) \in TodoOf(act) /\ Len(Tail(todo)) = Len(todo) - 1
           /\ Len(todo) \in 1..4
           /\ act \in {"confirm", "cancel"} =>
                /\ Head(todo) = "op" <=> Len(todo) = 4
                /\ Head(todo) = "slot" <=> Len(todo) = 3
                /\ Head(todo) = "item" <=> Len(todo) = 2
                /\ Head(todo) = "cab" <=> Len(todo) = 1
                /\ Head(todo) \in {"op", "slot", "item", "cab"}
           /\ act = "edit" =>
                /\ Head(todo) = "item" <=> Len(todo) = 4
                /\ Head(todo) = "slot" <=> Len(todo) = 3
                /\ Head(todo) = "cab" <=> Len(todo) = 2
                /\ Head(todo) = "log" <=> Len(todo) = 1
                /\ Head(todo) \in {"item", "slot", "cab", "log"}
           /\ act \in {"disappear", "appear"} =>
                /\ Head(todo) = "log" <=> Len(todo) = 4
                /\ Head(todo) = "slot" <=> Len(todo) = 3
                /\ Head(todo) = "item" <=> Len(todo) = 2
                /\ Head(todo) = "cab" <=> Len(todo) = 1
                /\ Head(todo) \in {"log", "slot", "item", "cab"}
           /\ act \in {"confirm", "cancel", "edit", "disappear", "appear"}
  <1>1. CASE act \in {"confirm", "cancel"}
    <2>1. TodoOf(act) = Rest("op", "slot", "item", "cab")
      BY <1>1 DEF TodoOf
    <2> QED BY <1>1, <2>1, RestStep
  <1>2. CASE act = "edit"
    <2>1. TodoOf(act) = Rest("item", "slot", "cab", "log")
      BY <1>2 DEF TodoOf
    <2> QED BY <1>2, <2>1, RestStep
  <1>3. CASE act \in {"disappear", "appear"}
    <2>1. TodoOf(act) = Rest("log", "slot", "item", "cab")
      BY <1>3 DEF TodoOf
    <2> QED BY <1>3, <2>1, RestStep
  <1>4. CASE act \notin {"confirm", "cancel", "edit", "disappear", "appear"}
    BY <1>4 DEF TodoOf
  <1> QED BY <1>1, <1>2, <1>3, <1>4

LEMMA TodosAreLists ==
    ASSUME NEW act PROVE TodoOf(act) \subseteq Seq(Statements)
  <1>1. ASSUME NEW a \in Statements, NEW b \in Statements, NEW c \in Statements,
               NEW d \in Statements
        PROVE  Rest(a, b, c, d) \subseteq Seq(Statements)
    <2>1. /\ <<a, b, c, d>> \in Seq(Statements) /\ <<b, c, d>> \in Seq(Statements)
          /\ <<c, d>> \in Seq(Statements) /\ <<d>> \in Seq(Statements)
          /\ <<>> \in Seq(Statements)
      OBVIOUS
    <2> QED BY <2>1 DEF Rest
  <1>2. {"op", "slot", "item", "cab", "log"} = Statements /\ <<>> \in Seq(Statements)
    BY DEF Statements
  <1> HIDE DEF Statements
  <1>3. /\ Rest("op", "slot", "item", "cab") \subseteq Seq(Statements)
        /\ Rest("item", "slot", "cab", "log") \subseteq Seq(Statements)
        /\ Rest("log", "slot", "item", "cab") \subseteq Seq(Statements)
    BY <1>1, <1>2
  <1> QED BY <1>2, <1>3 DEF TodoOf

(* Sessions start and end idle, and the list of an idle one is empty.      *)
LEMMA IdleTyped ==
    Idle \in Requests /\ (\A p : TypedAs(p, Idle)) /\ NoRow \in [kind : OpKinds
      \cup {"none"}, slot : Slots \cup {"none"}, status : {"pending", "none"},
      before : Nat, after : Nat, reconcile : BOOLEAN]
  <1>1. NoRow \in [kind : OpKinds \cup {"none"}, slot : Slots \cup {"none"},
                   status : {"pending", "none"}, before : Nat, after : Nat,
                   reconcile : BOOLEAN]
    BY DEF NoRow
  <1>2. <<>> \in Seq({"op", "slot", "item", "cab", "log"}) /\ 0 \in 0..MaxOps
    BY BoundsAssumption
  <1>3. Idle.act = "idle" /\ Idle.todo = <<>> /\ TodoOf("idle") = {<<>>}
    BY DEF Idle, TodoOf
  <1>4. Idle \in Requests
    BY <1>1, <1>2 DEF Idle, Requests, SlotStatuses, BinStatuses
  <1> QED BY <1>1, <1>3, <1>4 DEF TypedAs

(* A session that changes, while the slots and the log stay or stay typed. *)
LEMMA OneSession ==
    ASSUME SesTyped, TypeOK', Len(ops') <= MaxOps, NEW p \in Sessions, NEW m \in Requests,
           ses' = [ses EXCEPT ![p] = m], TypedAs(p, m)
    PROVE  SesTyped'
  <1>1. ses' \in [Sessions -> Requests] /\ ses'[p] = m
    BY DEF SesTyped, SesTypeOK
  <1>2. \A q \in Sessions : TypedAs(q, ses'[q])
    BY <1>1 DEF SesTyped, SesTypeOK
  <1> QED BY <1>1, <1>2 DEF SesTyped, SesTypeOK

LEMMA SlotsStay ==
    SesTyped /\ UNCHANGED vars => TypeOK' /\ Len(ops') <= MaxOps
  BY DEF SesTyped, SesTypeOK, TypeOK, vars

(* The three requests: who sends them, and where they begin.               *)
LEMMA RequestCases ==
    ASSUME SesTyped, NEW p \in Sessions, Request(p)
    PROVE  \E m \in Requests :
             /\ ses[p] = Idle /\ ses' = [ses EXCEPT ![p] = m] /\ UNCHANGED vars
             /\ TypedAs(p, m) /\ Len(m.todo) = 4 /\ m.busy = FALSE
             /\ m.act \in {"confirm", "cancel", "edit", "disappear", "appear"}
  <1>0. TypeOK /\ p \in Operators \cup Watchdogs
    BY DEF SesTyped, SesTypeOK, Sessions
  <1>i. Idle \in Requests
    BY IdleTyped
  <1>b. Idle.busy = FALSE
    BY DEF Idle
  <1>t. /\ <<"log", "slot", "item", "cab">> \in Seq(Statements)
        /\ <<"op", "slot", "item", "cab">> \in Seq(Statements)
        /\ <<"item", "slot", "cab", "log">> \in Seq(Statements)
        /\ Len(<<"log", "slot", "item", "cab">>) = 4
        /\ Len(<<"op", "slot", "item", "cab">>) = 4
        /\ Len(<<"item", "slot", "cab", "log">>) = 4
    BY DEF Statements
  <1>2. CASE p \in Watchdogs
    <2>1. PICK s \in Slots : AskPresence(p, s)
      BY <1>2 DEF Request
    <2> DEFINE act == IF p = "tick" THEN "disappear" ELSE "appear"
               todo == <<"log", "slot", "item", "cab">>
               m == [Idle EXCEPT !.act = act, !.slot = s, !.todo = todo]
    <2>3. /\ act \in {"disappear", "appear"}
          /\ act = "disappear" => p = "tick"
          /\ act = "appear" => p = "gateway"
      BY <1>2 DEF Watchdogs
    <2>4. todo \in TodoOf(act)
      BY <2>3 DEF TodoOf, Rest
    <2>5. Open(p, m)
      BY <2>1 DEF AskPresence
    <2>6. todo \in Seq(Statements) /\ Len(todo) = 4
      BY <1>t
    <2> HIDE DEF act, todo
    <2>7. m \in Requests /\ m.act = act /\ m.slot = s /\ m.todo = todo /\ m.busy = FALSE
      BY <1>i, <1>b, <2>3, <2>6 DEF Requests, Statements
    <2> HIDE DEF m
    <2>8. TypedAs(p, m)
      BY <2>3, <2>4, <2>7 DEF TypedAs
    <2> QED BY <2>3, <2>5, <2>6, <2>7, <2>8 DEF Open
  <1>3. ASSUME NEW act \in {"confirm", "cancel"}, NEW i \in DOMAIN ops,
               NEW consumed \in 0..MaxConsumed, p \in Operators,
               AskAnswer(p, act, i, consumed)
        PROVE  \E m \in Requests :
             /\ ses[p] = Idle /\ ses' = [ses EXCEPT ![p] = m] /\ UNCHANGED vars
             /\ TypedAs(p, m) /\ Len(m.todo) = 4 /\ m.busy = FALSE
             /\ m.act \in {"confirm", "cancel", "edit", "disappear", "appear"}
    <2> DEFINE todo == <<"op", "slot", "item", "cab">>
               m == [Idle EXCEPT !.act = act, !.id = i, !.arg = consumed, !.todo = todo]
    <2>1. i \in 0..MaxOps
      BY BoundsAssumption DEF SesTyped, SesTypeOK, TypeOK
    <2>2. todo \in TodoOf(act)
      BY DEF TodoOf, Rest
    <2>3. Open(p, m)
      BY <1>3 DEF AskAnswer
    <2>4. todo \in Seq(Statements) /\ Len(todo) = 4
      BY <1>t
    <2> HIDE DEF todo
    <2>a. consumed \in Nat
      BY BoundsAssumption
    <2>5. /\ m \in Requests /\ m.act = act /\ m.id = i /\ m.todo = todo
          /\ m.arg = consumed /\ m.busy = FALSE
      BY <1>i, <1>b, <2>1, <2>4, <2>a DEF Requests, Statements
    <2> HIDE DEF m
    <2>6. /\ m.act \in {"confirm", "cancel"} /\ p \in Operators
          /\ m.arg \in 0..MaxConsumed
          /\ m.todo \in TodoOf(m.act) /\ Len(m.todo) = 4
      BY <1>3, <2>2, <2>4, <2>5
    <2>7. TypedAs(p, m)
      BY <2>6 DEF TypedAs
    <2> QED BY <2>3, <2>5, <2>6, <2>7 DEF Open
  <1>4. ASSUME NEW s \in Slots, NEW q \in Nat, p \in Operators, AskEdit(p, s, q)
        PROVE  \E m \in Requests :
             /\ ses[p] = Idle /\ ses' = [ses EXCEPT ![p] = m] /\ UNCHANGED vars
             /\ TypedAs(p, m) /\ Len(m.todo) = 4 /\ m.busy = FALSE
             /\ m.act \in {"confirm", "cancel", "edit", "disappear", "appear"}
    <2> DEFINE todo == <<"item", "slot", "cab", "log">>
               m == [Idle EXCEPT !.act = "edit", !.slot = s, !.arg = q, !.todo = todo]
    <2>2. todo \in TodoOf("edit")
      BY DEF TodoOf, Rest
    <2>3. Open(p, m)
      BY <1>4 DEF AskEdit
    <2>4. todo \in Seq(Statements) /\ Len(todo) = 4
      BY <1>t
    <2> HIDE DEF todo
    <2>5. m \in Requests /\ m.act = "edit" /\ m.slot = s /\ m.todo = todo /\ m.busy = FALSE
      BY <1>i, <1>b, <2>4 DEF Requests, Statements
    <2> HIDE DEF m
    <2>6. TypedAs(p, m)
      BY <1>4, <2>2, <2>4, <2>5 DEF TypedAs
    <2> QED BY <2>3, <2>4, <2>5, <2>6 DEF Open
  <1>5. CASE p \notin Watchdogs
    <2>1. p \in Operators
      BY <1>0, <1>5
    <2>2. \/ \E act \in {"confirm", "cancel"}, i \in DOMAIN ops,
               consumed \in 0..MaxConsumed : AskAnswer(p, act, i, consumed)
          \/ \E s \in Slots, q \in Nat : AskEdit(p, s, q)
      BY <1>5, BoundsAssumption DEF Request
    <2> QED BY <1>3, <1>4, <2>1, <2>2
  <1> QED BY <1>2, <1>5

LEMMA RequestTyped ==
    ASSUME SesTyped, NEW p \in Sessions, Request(p) PROVE SesTyped'
  BY RequestCases, SlotsStay, OneSession

(* What the statement h leaves in the session that ran it.                 *)
Selected(my, h, m) ==
    /\ m.act = my.act /\ m.id = my.id /\ m.arg = my.arg /\ m.todo = Tail(my.todo)
    /\ m.row = IF h = "op" THEN ops[my.id] ELSE my.row
    /\ m.slot = IF h = "op" THEN ops[my.id].slot ELSE my.slot
    /\ m.status = IF h = "slot" THEN slotStatus[my.slot] ELSE my.status
    /\ m.has = IF h = "item" THEN hasItem[my.slot] ELSE my.has
    /\ m.stock = IF h = "item" THEN qty[my.slot] ELSE my.stock
    /\ m.cab = IF h = "cab" THEN cabStatus[CabinetOf[my.slot]] ELSE my.cab
    /\ m.busy = IF h = "log" THEN HasPending(my.slot) ELSE my.busy

(* After its first statement a session knows the slot it is about.         *)
LEMMA SlotKnown ==
    ASSUME SesTyped, NEW p \in Sessions,
           ses[p].act # "idle", ses[p].todo # <<>> => Head(ses[p].todo) # "op"
    PROVE  ses[p].slot \in Slots
  <1> DEFINE my == ses[p]
  <1>1. my \in Requests /\ TypedAs(p, my)
    BY DEF SesTyped, SesTypeOK
  <1> HIDE DEF my
  <1>2. my.act \in {"idle", "confirm", "cancel", "edit", "disappear", "appear"}
    BY <1>1 DEF Requests
  <1>3. CASE my.act \in {"edit", "disappear", "appear"}
    BY <1>1, <1>3 DEF TypedAs, my
  <1>4. CASE my.act \in {"confirm", "cancel"}
    <2>1. my.todo \in TodoOf(my.act)
      BY <1>1 DEF TypedAs
    <2>2. Len(my.todo) < 4
      <3>1. CASE my.todo = <<>>
        BY <3>1
      <3>2. CASE my.todo # <<>>
        <4>1. Len(my.todo) \in 1..4 /\ (Head(my.todo) = "op" <=> Len(my.todo) = 4)
          BY <1>4, <2>1, <3>2, TodoStep
        <4>2. Head(my.todo) # "op"
          BY <3>2 DEF my
        <4> DEFINE left == Len(my.todo)
        <4>3. left \in 1..4 /\ left # 4
          BY <4>1, <4>2
        <4> HIDE DEF left
        <4>4. left < 4
          BY <4>3
        <4> QED BY <4>4 DEF left
      <3> QED BY <3>1, <3>2
    <2> QED BY <1>1, <1>4, <2>2 DEF TypedAs, OpRows, my
  <1> QED BY <1>2, <1>3, <1>4 DEF my

(* A statement puts what is committed by then into the session; only that  *)
(* of an operation that is gone or answered ends it.                       *)
LEMMA SelectCases ==
    ASSUME SesTyped, NEW p \in Sessions, Select(p)
    PROVE  /\ UNCHANGED vars
           /\ \/ ses' = [ses EXCEPT ![p] = Idle]
              \/ /\ ses[p].todo # <<>> /\ ses[p].act # "idle"
                 /\ Head(ses[p].todo) = "op" =>
                      ses[p].id \in DOMAIN ops /\ ops[ses[p].id].status = "pending"
                 /\ \E m \in Requests :
                      /\ ses' = [ses EXCEPT ![p] = m]
                      /\ Selected(ses[p], Head(ses[p].todo), m)
  <1> DEFINE my == ses[p]
  <1>t. TypeOK /\ my \in Requests /\ TypedAs(p, my)
    BY DEF SesTyped, SesTypeOK
  <1>a. my.todo # <<>> => my.act # "idle"
    BY <1>t DEF TypedAs, TodoOf
  <1>s. my.todo # <<>> /\ Head(my.todo) # "op" => my.slot \in Slots
    BY <1>a, SlotKnown
  <1>h. my.todo # <<>> => Tail(my.todo) \in Seq(Statements)
    BY <1>t DEF Requests, Statements
  <1> DEFINE Goal == /\ UNCHANGED vars
                     /\ my.todo # <<>> /\ my.act # "idle"
                     /\ Head(my.todo) = "op" =>
                          my.id \in DOMAIN ops /\ ops[my.id].status = "pending"
                     /\ \E m \in Requests : /\ ses' = [ses EXCEPT ![p] = m]
                                            /\ Selected(my, Head(my.todo), m)
  <1>1. ASSUME ReadSlot(p) PROVE Goal
    <2> DEFINE m == [[my EXCEPT !.status = slotStatus[my.slot]] EXCEPT !.todo = Tail(@)]
    <2>1. /\ UNCHANGED vars /\ my.todo # <<>> /\ Head(my.todo) = "slot"
          /\ ses' = [ses EXCEPT ![p] = m]
      BY <1>1 DEF ReadSlot, Read
    <2>2. slotStatus[my.slot] \in SlotStatuses
      BY <1>t, <1>s, <2>1 DEF TypeOK
    <2> HIDE DEF my
    <2>3. m \in Requests /\ Selected(my, "slot", m)
      BY <1>t, <1>h, <2>1, <2>2 DEF Requests, Statements, Selected
    <2> HIDE DEF m
    <2> QED BY <1>a, <2>1, <2>3 DEF Goal
  <1>2. ASSUME ReadItem(p) PROVE Goal
    <2> DEFINE m == [[my EXCEPT !.has = hasItem[my.slot], !.stock = qty[my.slot]] EXCEPT !.todo = Tail(@)]
    <2>1. /\ UNCHANGED vars /\ my.todo # <<>> /\ Head(my.todo) = "item"
          /\ ses' = [ses EXCEPT ![p] = m]
      BY <1>2 DEF ReadItem, Read
    <2>2. hasItem[my.slot] \in BOOLEAN /\ qty[my.slot] \in Nat
      BY <1>t, <1>s, <2>1 DEF TypeOK
    <2> HIDE DEF my
    <2>3. m \in Requests /\ Selected(my, "item", m)
      BY <1>t, <1>h, <2>1, <2>2 DEF Requests, Statements, Selected
    <2> HIDE DEF m
    <2> QED BY <1>a, <2>1, <2>3 DEF Goal
  <1>3. ASSUME ReadCabinet(p) PROVE Goal
    <2> DEFINE m == [[my EXCEPT !.cab = cabStatus[CabinetOf[my.slot]]] EXCEPT !.todo = Tail(@)]
    <2>1. /\ UNCHANGED vars /\ my.todo # <<>> /\ Head(my.todo) = "cab"
          /\ ses' = [ses EXCEPT ![p] = m]
      BY <1>3 DEF ReadCabinet, Read
    <2>2. cabStatus[CabinetOf[my.slot]] \in BinStatuses
      BY <1>t, <1>s, <2>1, CabinetAssumption DEF TypeOK
    <2> HIDE DEF my
    <2>3. m \in Requests /\ Selected(my, "cab", m)
      BY <1>t, <1>h, <2>1, <2>2 DEF Requests, Statements, Selected
    <2> HIDE DEF m
    <2> QED BY <1>a, <2>1, <2>3 DEF Goal
  <1>4. ASSUME ReadLog(p) PROVE Goal
    <2> DEFINE m == [[my EXCEPT !.busy = HasPending(my.slot)] EXCEPT !.todo = Tail(@)]
    <2>1. /\ UNCHANGED vars /\ my.todo # <<>> /\ Head(my.todo) = "log"
          /\ ses' = [ses EXCEPT ![p] = m]
      BY <1>4 DEF ReadLog, Read
    <2>2. HasPending(my.slot) \in BOOLEAN
      BY <1>t, <1>s, <2>1 DEF HasPending
    <2> HIDE DEF my
    <2>3. m \in Requests /\ Selected(my, "log", m)
      BY <1>t, <1>h, <2>1, <2>2 DEF Requests, Statements, Selected
    <2> HIDE DEF m
    <2> QED BY <1>a, <2>1, <2>3 DEF Goal
  <1>5. ASSUME ReadOp(p), my.id \in DOMAIN ops, ops[my.id].status = "pending"
        PROVE  Goal
    <2> DEFINE m == [[my EXCEPT !.row = ops[my.id], !.slot = ops[my.id].slot]
                       EXCEPT !.todo = Tail(@)]
    <2>1. /\ UNCHANGED vars /\ my.todo # <<>> /\ Head(my.todo) = "op"
          /\ ses' = [ses EXCEPT ![p] = m]
      BY <1>5 DEF ReadOp, Read
    <2>2. ops[my.id].slot \in Slots /\ ops[my.id] \in OpRows
      BY <1>t, <1>5, RowType
    <2>3. ops[my.id] \in [kind : OpKinds \cup {"none"}, slot : Slots \cup {"none"},
                         status : {"pending", "none"}, before : Nat, after : Nat,
                         reconcile : BOOLEAN]
      BY <1>5, <2>2 DEF OpRows
    <2> HIDE DEF my
    <2>4. m \in Requests /\ Selected(my, "op", m)
      BY <1>t, <1>h, <2>1, <2>2, <2>3 DEF Requests, Statements, Selected
    <2> HIDE DEF m
    <2> QED BY <1>5, <1>a, <2>1, <2>4 DEF Goal
  <1>6. ASSUME ReadOp(p), ~(my.id \in DOMAIN ops /\ ops[my.id].status = "pending")
        PROVE  UNCHANGED vars /\ ses' = [ses EXCEPT ![p] = Idle]
    BY <1>6 DEF ReadOp
  <1> QED BY <1>1, <1>2, <1>3, <1>4, <1>5, <1>6 DEF Select

LEMMA SelectTyped ==
    ASSUME SesTyped, NEW p \in Sessions, Select(p) PROVE SesTyped'
  <1> DEFINE my == ses[p]  h == Head(my.todo)
  <1>t. TypeOK /\ my \in Requests /\ TypedAs(p, my)
    BY DEF SesTyped, SesTypeOK
  <1>v. UNCHANGED vars /\ TypeOK' /\ Len(ops') <= MaxOps
    BY SelectCases, SlotsStay
  <1>1. CASE ses' = [ses EXCEPT ![p] = Idle]
    BY <1>1, <1>v, IdleTyped, OneSession
  <1>2. ASSUME my.todo # <<>>, my.act # "idle",
               h = "op" => my.id \in DOMAIN ops /\ ops[my.id].status = "pending",
               NEW m \in Requests, ses' = [ses EXCEPT ![p] = m], Selected(my, h, m)
        PROVE  SesTyped'
    <2>0. my.act \in {"idle", "confirm", "cancel", "edit", "disappear", "appear"}
      BY <1>t DEF Requests
    <2>1. my.todo \in TodoOf(my.act)
      BY <1>t DEF TypedAs
    <2>2. Tail(my.todo) \in TodoOf(my.act)
      BY <1>2, <2>1, TodoStep
    <2>3. h = "op" => ops[my.id] \in OpRows /\ ops[my.id].status = "pending"
      BY <1>t, <1>2, RowType
    <2>4. CASE my.act \in {"edit", "disappear", "appear"}
      <3>1. h # "op"
        BY <1>2, <2>1, <2>4, TodoStep
      <3> QED BY <1>t, <1>v, <1>2, <2>2, <2>4, <3>1, OneSession DEF Selected, TypedAs
    <2>5. CASE my.act \in {"confirm", "cancel"}
      <3>1. h # "op" => my.row \in OpRows /\ my.row.status = "pending" /\ my.slot = my.row.slot
        <4> SUFFICES ASSUME h # "op"
                     PROVE  my.row \in OpRows /\ my.row.status = "pending" /\ my.slot = my.row.slot
          OBVIOUS
        <4> DEFINE left == Len(my.todo)
        <4>1. left \in 1..4 /\ left # 4
          BY <1>2, <2>1, <2>5, TodoStep
        <4> HIDE DEF left
        <4>2. left < 4
          BY <4>1
        <4> QED BY <1>t, <2>5, <4>2 DEF TypedAs, left
      <3>2. m.row \in OpRows /\ m.row.status = "pending" /\ m.slot = m.row.slot
        BY <1>2, <2>3, <3>1 DEF Selected
      <3>3. m.act = my.act /\ m.todo \in TodoOf(m.act) /\ m.arg = my.arg
        BY <1>2, <2>2 DEF Selected
      <3>4. TypedAs(p, m)
        BY <1>t, <2>5, <3>2, <3>3 DEF TypedAs
      <3> QED BY <1>v, <1>2, <3>4, OneSession
    <2> QED BY <1>2, <2>0, <2>4, <2>5
  <1> QED BY <1>1, <1>2, SelectCases

(* What a commit writes, whatever the session had read.                    *)
LEMMA WriteSlotAndSyncType ==
    ASSUME TypeOK, NEW my \in Requests, my.slot \in Slots, NEW new \in SlotStatuses,
           WriteSlotAndSync(my, new)
    PROVE  /\ slotStatus' \in [Slots -> SlotStatuses]
           /\ cabStatus' \in [Cabinets -> BinStatuses]
           /\ \A s \in Slots : s # my.slot => slotStatus'[s] = slotStatus[s]
           /\ slotStatus'[my.slot] = IF new = my.status THEN slotStatus[my.slot] ELSE new
  <1> DEFINE c == CabinetOf[my.slot]
             synced == CabinetStatus(c, [slotStatus EXCEPT ![my.slot] = new])
  <1>1. synced \in BinStatuses
    BY CabinetStatusType
  <1>2. cabStatus' = [cabStatus EXCEPT ![c] = IF synced = my.cab THEN @ ELSE synced]
    BY DEF WriteSlotAndSync, Column
  <1>3. slotStatus' = [slotStatus EXCEPT ![my.slot] = IF new = my.status THEN @ ELSE new]
    BY DEF WriteSlotAndSync, Column
  <1> HIDE DEF synced, c
  <1>4. cabStatus' \in [Cabinets -> BinStatuses]
    BY <1>1, <1>2 DEF TypeOK
  <1> QED BY <1>3, <1>4 DEF TypeOK

LEMMA WriteAnswerType ==
    ASSUME TypeOK, NEW my \in Requests, my.row \in OpRows,
           NEW status \in {"confirmed", "cancelled"}, NEW before \in Nat, NEW after \in Nat,
           WriteAnswer(my, status, before, after)
    PROVE  /\ my.id \in DOMAIN ops /\ ops' \in Seq(OpRows) /\ Len(ops') = Len(ops)
           /\ DOMAIN ops' = DOMAIN ops /\ ops'[my.id] \in OpRows
           /\ ops' = [ops EXCEPT ![my.id] = ops'[my.id]]
           /\ \A j \in DOMAIN ops : j # my.id => ops'[j] = ops[j]
           /\ ops'[my.id].status = status /\ ops'[my.id].slot = ops[my.id].slot
           /\ ops'[my.id].kind = ops[my.id].kind
           /\ ops'[my.id].before = IF before = my.row.before THEN ops[my.id].before ELSE before
           /\ ops'[my.id].after = IF after = my.row.after THEN ops[my.id].after ELSE after
           /\ ops'[my.id].reconcile = (status = "cancelled" /\ ops[my.id].reconcile)
  <1> DEFINE i == my.id  r == ops[i]
             row == [r EXCEPT !.status = status,
                              !.before = IF before = my.row.before THEN @ ELSE before,
                              !.after = IF after = my.row.after THEN @ ELSE after,
                              !.reconcile = status = "cancelled" /\ @]
  <1>1. i \in DOMAIN ops /\ r \in OpRows
    BY RowType DEF WriteAnswer
  <1>2. ops' = [ops EXCEPT ![i] = row]
    BY <1>1 DEF WriteAnswer, Column, TypeOK
  <1>3. row \in OpRows
    BY <1>1 DEF OpRows, OpStatuses
  <1>4. /\ row.status = status /\ row.slot = r.slot /\ row.kind = r.kind
        /\ row.before = IF before = my.row.before THEN r.before ELSE before
        /\ row.after = IF after = my.row.after THEN r.after ELSE after
        /\ row.reconcile = (status = "cancelled" /\ r.reconcile)
    BY <1>1 DEF OpRows
  <1> HIDE DEF row
  <1>5. ops' \in Seq(OpRows) /\ DOMAIN ops' = DOMAIN ops /\ ops'[i] = row
        /\ \A j \in DOMAIN ops : j # i => ops'[j] = ops[j]
    BY <1>1, <1>2, <1>3, ReplaceRow
  <1>6. Len(ops') = Len(ops)
    BY <1>5 DEF TypeOK
  <1> QED BY <1>1, <1>2, <1>3, <1>4, <1>5, <1>6

(* A session with nothing left to read knows what it is about.             *)
LEMMA ReadyKnows ==
    ASSUME SesTyped, NEW p \in Sessions, NEW act, Ready(p, act), act # "idle"
    PROVE  /\ TypeOK /\ ses[p] \in Requests /\ TypedAs(p, ses[p])
           /\ ses[p].act = act /\ ses[p].todo = <<>> /\ ses[p].slot \in Slots
           /\ ses[p].stock \in Nat /\ ses[p].arg \in Nat /\ Len(ops) \in Nat
           /\ act \in {"confirm", "cancel"} =>
                /\ ses[p].row \in OpRows /\ ses[p].row.status = "pending"
                /\ ses[p].slot = ses[p].row.slot
  <1>1. ses[p] \in Requests /\ TypedAs(p, ses[p]) /\ TypeOK
    BY DEF SesTyped, SesTypeOK
  <1>2. ses[p].act = act /\ ses[p].todo = <<>>
    BY DEF Ready
  <1>3. ses[p].slot \in Slots
    BY <1>2, SlotKnown
  <1>4. Len(ses[p].todo) < 4
    BY <1>2
  <1>5. ses[p].stock \in Nat /\ ses[p].arg \in Nat
    BY <1>1 DEF Requests
  <1> QED BY <1>1, <1>2, <1>3, <1>4, <1>5 DEF TypedAs, TypeOK

LEMMA CommitTyped ==
    ASSUME SesTyped, NEW p \in Sessions, Commit(p) PROVE SesTyped'
  <1> DEFINE my == ses[p]  s == my.slot
  <1>m. Len(ops) <= MaxOps /\ MaxOps \in Nat /\ TypeOK
    BY BoundsAssumption DEF SesTyped, SesTypeOK
  <1>c. ASSUME Close(p), TypeOK', Len(ops') <= MaxOps PROVE SesTyped'
    BY <1>c, IdleTyped, OneSession DEF Close
  <1>1. ASSUME CommitTakeOut(p) PROVE TypeOK' /\ Len(ops') <= MaxOps /\ Close(p)
    <2>0. Ready(p, "confirm")
      BY <1>1 DEF CommitTakeOut
    <2>1. my \in Requests /\ s \in Slots /\ my.stock \in Nat /\ my.row \in OpRows
      BY <2>0, ReadyKnows
    <2>2. /\ my.stock - 1 \in Nat /\ qty' = [qty EXCEPT ![s] = my.stock - 1]
          /\ WriteAnswer(my, "confirmed", my.stock, my.stock - 1)
          /\ WriteSlotAndSync(my, "checked_out")
          /\ Close(p) /\ UNCHANGED <<slotEpc, hasItem>>
      BY <1>1, <2>1 DEF CommitTakeOut
    <2> HIDE DEF my
    <2>3. ops' \in Seq(OpRows) /\ Len(ops') = Len(ops)
      BY <1>m, <2>1, <2>2, WriteAnswerType
    <2>4. slotStatus' \in [Slots -> SlotStatuses] /\ cabStatus' \in [Cabinets -> BinStatuses]
      BY <1>m, <2>1, <2>2, WriteSlotAndSyncType, StatusTypes
    <2> QED BY <1>m, <2>1, <2>2, <2>3, <2>4 DEF TypeOK
  <1>2. ASSUME CommitReturn(p) PROVE TypeOK' /\ Len(ops') <= MaxOps /\ Close(p)
    <2> DEFINE after == StockAfterReturn(my.stock, my.arg, my.row.reconcile)
    <2>0. Ready(p, "confirm")
      BY <1>2 DEF CommitReturn
    <2>1. my \in Requests /\ s \in Slots /\ my.stock \in Nat /\ my.row \in OpRows
      BY <2>0, ReadyKnows
    <2>a. after \in Nat
      <3>1. my.arg \in Nat /\ my.row.reconcile \in BOOLEAN
        BY <2>1 DEF Requests, OpRows
      <3> QED BY <2>1, <3>1, StockAfterReturnType
    <2>2. /\ qty' = [qty EXCEPT ![s] = IF after = my.stock THEN @ ELSE after]
          /\ WriteAnswer(my, "confirmed", my.stock, after)
          /\ WriteSlotAndSync(my, IF after > 0 THEN "occupied" ELSE "empty")
          /\ Close(p) /\ UNCHANGED <<slotEpc, hasItem>>
      BY <1>2, <2>1 DEF CommitReturn, Column
    <2> HIDE DEF my, after
    <2>3. ops' \in Seq(OpRows) /\ Len(ops') = Len(ops)
      BY <1>m, <2>1, <2>a, <2>2, WriteAnswerType
    <2>b. (IF after > 0 THEN "occupied" ELSE "empty") \in SlotStatuses
      BY StatusTypes
    <2>4. slotStatus' \in [Slots -> SlotStatuses] /\ cabStatus' \in [Cabinets -> BinStatuses]
      BY <1>m, <2>1, <2>2, <2>b, WriteSlotAndSyncType
    <2>5. qty' \in [Slots -> Nat]
      BY <1>m, <2>1, <2>a, <2>2 DEF TypeOK
    <2> QED BY <1>m, <2>2, <2>3, <2>4, <2>5 DEF TypeOK
  <1>3. ASSUME CommitCancel(p) PROVE TypeOK' /\ Len(ops') <= MaxOps /\ Close(p)
    <2> DEFINE new == IF my.row.kind = "return" THEN "return_unregistered"
                      ELSE IF my.has /\ my.stock > 0 THEN "checkout_unregistered"
                      ELSE "empty"
    <2>0. Ready(p, "cancel")
      BY <1>3 DEF CommitCancel
    <2>1. my \in Requests /\ s \in Slots /\ my.row \in OpRows
      BY <2>0, ReadyKnows
    <2>a. new \in SlotStatuses
      BY StatusTypes DEF AwaitingStatuses
    <2>b. my.row.before \in Nat /\ my.row.after \in Nat
      BY <2>1 DEF OpRows
    <2>2. /\ WriteAnswer(my, "cancelled", my.row.before, my.row.after)
          /\ WriteSlotAndSync(my, new)
          /\ Close(p) /\ UNCHANGED <<slotEpc, hasItem, qty>>
      BY <1>3 DEF CommitCancel
    <2> HIDE DEF my, new
    <2>3. ops' \in Seq(OpRows) /\ Len(ops') = Len(ops)
      BY <1>m, <2>1, <2>b, <2>2, WriteAnswerType
    <2>4. slotStatus' \in [Slots -> SlotStatuses] /\ cabStatus' \in [Cabinets -> BinStatuses]
      BY <1>m, <2>1, <2>2, <2>a, WriteSlotAndSyncType
    <2> QED BY <1>m, <2>2, <2>3, <2>4 DEF TypeOK
  <1>l. ASSUME NEW row \in OpRows, LogOp(row)
        PROVE  ops' \in Seq(OpRows) /\ Len(ops') <= MaxOps
    <2>1. ops \in Seq(OpRows) /\ Len(ops) < MaxOps /\ ops' = Append(ops, row)
      BY <1>m, <1>l DEF LogOp, TypeOK
    <2>2. ops' \in Seq(OpRows) /\ Len(ops') = Len(ops) + 1
      BY <1>l, <2>1
    <2> QED BY <1>m, <2>1, <2>2
  <1>4. ASSUME CommitEdit(p) PROVE TypeOK' /\ Len(ops') <= MaxOps /\ Close(p)
    <2>0. Ready(p, "edit")
      BY <1>4 DEF CommitEdit
    <2>1. s \in Slots /\ my.stock \in Nat /\ my.arg \in Nat
      BY <2>0, ReadyKnows
    <2>2. OpRow("manual_edit", s, "confirmed", my.stock, my.arg, FALSE) \in OpRows
      BY <2>1, OpRowType DEF OpKinds, OpStatuses
    <2>3. ops' \in Seq(OpRows) /\ Len(ops') <= MaxOps
      BY <1>4, <1>l, <2>2 DEF CommitEdit
    <2> QED BY <1>4, <1>m, <2>1, <2>3, StatusTypes DEF CommitEdit, Column, TypeOK
  <1>5. ASSUME CommitDisappear(p) PROVE TypeOK' /\ Len(ops') <= MaxOps /\ Close(p)
    <2>0. Ready(p, "disappear")
      BY <1>5 DEF CommitDisappear
    <2>1. my \in Requests /\ s \in Slots /\ my.stock \in Nat
      BY <2>0, ReadyKnows
    <2>2. OpRow("take_out", s, "pending", my.stock, my.stock, FALSE) \in OpRows
      BY <2>1, OpRowType DEF OpKinds, OpStatuses
    <2>3. ops' \in Seq(OpRows) /\ Len(ops') <= MaxOps
      BY <1>5, <1>l, <1>m, <2>2 DEF CommitDisappear, TypeOK
    <2>4. \/ WriteSlotAndSync(my, "checked_out") \/ WriteSlotAndSync(my, "pending_checkout")
      BY <1>5 DEF CommitDisappear
    <2>5. Close(p) /\ UNCHANGED <<slotEpc, hasItem, qty>>
      BY <1>5 DEF CommitDisappear
    <2>6. "checked_out" \in SlotStatuses /\ "pending_checkout" \in SlotStatuses
      BY DEF SlotStatuses
    <2> HIDE DEF my
    <2>7. slotStatus' \in [Slots -> SlotStatuses] /\ cabStatus' \in [Cabinets -> BinStatuses]
      BY <1>m, <2>1, <2>4, <2>6, WriteSlotAndSyncType
    <2> QED BY <1>m, <2>3, <2>5, <2>7 DEF TypeOK
  <1>6. ASSUME CommitAppear(p) PROVE TypeOK' /\ Len(ops') <= MaxOps /\ Close(p)
    <2>0. Ready(p, "appear")
      BY <1>6 DEF CommitAppear
    <2>1. my \in Requests /\ s \in Slots /\ my.stock \in Nat
      BY <2>0, ReadyKnows
    <2>2. OpRow("return", s, "pending", my.stock, my.stock,
                my.status = "checkout_unregistered") \in OpRows
      BY <2>1, OpRowType DEF OpKinds, OpStatuses
    <2>3. ops' \in Seq(OpRows) /\ Len(ops') <= MaxOps
      BY <1>6, <1>l, <2>2 DEF CommitAppear
    <2>4. WriteSlotAndSync(my, "pending_return")
      BY <1>6 DEF CommitAppear
    <2>5. Close(p) /\ UNCHANGED <<slotEpc, hasItem, qty>>
      BY <1>6 DEF CommitAppear
    <2>6. "pending_return" \in SlotStatuses
      BY DEF SlotStatuses
    <2> HIDE DEF my
    <2>7. slotStatus' \in [Slots -> SlotStatuses] /\ cabStatus' \in [Cabinets -> BinStatuses]
      BY <1>m, <2>1, <2>4, <2>6, WriteSlotAndSyncType
    <2> QED BY <1>m, <2>3, <2>5, <2>7 DEF TypeOK
  <1> QED BY <1>c, <1>1, <1>2, <1>3, <1>4, <1>5, <1>6 DEF Commit

LEMMA SesTypedStays ==
    ASSUME SesTyped, [SesNext]_sesVars PROVE SesTyped'
  <1>1. ASSUME NEW p \in Sessions, Refuse(p) PROVE SesTyped'
    BY <1>1, IdleTyped, SlotsStay, OneSession DEF Refuse, Close
  <1>2. CASE UNCHANGED sesVars
    BY <1>2 DEF sesVars, vars, SesTyped, SesTypeOK, TypeOK, TypedAs
  <1> QED BY <1>1, <1>2, RequestTyped, SelectTyped, CommitTyped DEF SesNext

LEMMA SesTypedFirst == SesInit => SesTyped
  <1> SUFFICES ASSUME SesInit PROVE SesTyped
    OBVIOUS
  <1>1. TypeOK /\ Len(ops) <= MaxOps
    BY SessionAssumption, BoundsAssumption
    DEF SesInit, TypeOK, SlotStatuses, BinStatuses
  <1>2. \A p \in Sessions : ses[p] = Idle
    BY DEF SesInit
  <1>3. ses \in [Sessions -> Requests]
    BY IdleTyped DEF SesInit
  <1> QED BY <1>1, <1>2, <1>3, IdleTyped DEF SesTyped, SesTypeOK

(* Type correctness of the sessions: however many operators there are and  *)
(* however their statements interleave with the watchdogs', slots, log and *)
(* what each session has read stay well-formed; no stock goes below zero,  *)
(* although it is computed from a quantity that may be out of date.        *)
THEOREM SessionsTypeCorrect == SesSpec => []SesTypeOK
  <1>1. SesTyped /\ [SesNext]_sesVars => SesTyped'
    BY SesTypedStays
  <1>2. SesTyped => SesTypeOK
    BY DEF SesTyped
  <1> QED BY <1>1, <1>2, SesTypedFirst, PTL DEF SesSpec

-----------------------------------------------------------------------------
(* One operator beside the two watchdogs.  What a session has read may be  *)
(* out of date when it writes; what makes the commit right all the same is *)
(* that a session that may still commit is the only one that can change    *)
(* its slot: the answer needs the slot in a pending status, each watchdog  *)
(* in statuses of its own, and those sets do not meet.                     *)

OneOperator == \A p, q \in Operators : p = q

NoManual == \A i \in DOMAIN ops : ops[i].kind # "manual_edit"

Left(my) == Len(my.todo)

Answering(my) == my.act \in {"confirm", "cancel"} /\ Left(my) < 4

(* A watchdog's session that has read its slot and will ask or book.       *)
Going(my) ==
    /\ Left(my) < 3 /\ ~my.busy
    /\ \/ my.act = "disappear" /\ my.status \in {"occupied", "return_unregistered"}
       \/ my.act = "appear" /\ my.status \in {"checked_out", "checkout_unregistered"}

Live(my) == Answering(my) \/ Going(my)

(* What a session that may still commit has read is what is there.         *)
RowKnown(my) ==
    Answering(my) => my.id \in DOMAIN ops /\ ops[my.id] = my.row

StatusKnown(my) == Live(my) /\ Left(my) < 3 => my.status = slotStatus[my.slot]

ItemKnown(my) ==
    Live(my) /\ Left(my) < 2 =>
        /\ my.has = hasItem[my.slot]
        /\ NoManual => my.stock = qty[my.slot]

(* Only the gateway's session asks for returns: a slot it found without an *)
(* open question is not waiting for a return when it looks at its status.  *)
ReturnUnasked(my) ==
    my.act = "appear" /\ ~my.busy =>
        /\ Left(my) = 3 => slotStatus[my.slot] # "pending_return"
        /\ Left(my) < 3 => my.status # "pending_return"

(* No one but the operator moves a slot that is empty.                     *)
EmptyKnown(my) ==
    my.act = "edit" /\ Left(my) < 3 /\ my.status = "empty" =>
        slotStatus[my.slot] = "empty"

Knows(my) ==
    /\ RowKnown(my) /\ StatusKnown(my) /\ ItemKnown(my)
    /\ ReturnUnasked(my) /\ EmptyKnown(my)

SlotsKeep == \A s \in Slots : hasItem[s] /\ slotEpc[s] = TagOf[s]

AskedKinds ==
    \A i \in DOMAIN ops :
        ops[i].status = "pending" => ops[i].kind \in {"take_out", "return"}

(* The part of the invariant about the slots and the log.                  *)
SlotsAgree ==
    /\ SlotsKeep /\ AskedKinds /\ OnePendingPerSlot
    /\ \A s \in Slots : StatusMatches(s)
    /\ NoManual => LogInv

OneInv == SesTyped /\ SlotsAgree /\ \A p \in Sessions : Knows(ses[p])

(* The statement that runs next tells how many are left.                   *)
LEMMA LeftTyped ==
    ASSUME SesTyped, NEW p \in Sessions
    PROVE  Left(ses[p]) \in 0..4 /\ (Left(ses[p]) = 0 <=> ses[p].todo = <<>>)
  <1>1. ses[p].todo \in TodoOf(ses[p].act)
    BY DEF SesTyped, TypedAs
  <1> QED BY <1>1, TodoLength DEF Left

LEMMA LeftSelected ==
    ASSUME SesTyped, NEW p \in Sessions, ses[p].todo # <<>>,
           NEW m, Selected(ses[p], Head(ses[p].todo), m)
    PROVE  LET my == ses[p]  h == Head(my.todo) IN
           /\ Left(my) \in 1..4 /\ Left(m) = Left(my) - 1
           /\ my.act \in {"confirm", "cancel", "edit", "disappear", "appear"}
           /\ my.act \in {"confirm", "cancel"} =>
                /\ h = "op" <=> Left(my) = 4
                /\ h = "slot" <=> Left(my) = 3
                /\ h = "item" <=> Left(my) = 2
                /\ h = "cab" <=> Left(my) = 1
                /\ h # "log"
           /\ my.act = "edit" =>
                h # "op" /\ (h = "slot" <=> Left(my) = 3)
           /\ my.act \in {"disappear", "appear"} =>
                /\ h = "log" <=> Left(my) = 4
                /\ h = "slot" <=> Left(my) = 3
                /\ h = "item" <=> Left(my) = 2
                /\ h = "cab" <=> Left(my) = 1
                /\ h # "op"
  <1> DEFINE act == ses[p].act  todo == ses[p].todo
  <1>1. todo \in TodoOf(act) /\ todo # <<>>
    BY DEF SesTyped, TypedAs
  <1>2. m.todo = Tail(todo)
    BY DEF Selected
  <1> HIDE DEF act, todo
  <1>3. /\ Len(todo) \in 1..4 /\ Len(Tail(todo)) = Len(todo) - 1
        /\ act \in {"confirm", "cancel", "edit", "disappear", "appear"}
    BY <1>1, TodoStep
  <1>4. act \in {"confirm", "cancel"} =>
          /\ Head(todo) = "op" <=> Len(todo) = 4
          /\ Head(todo) = "slot" <=> Len(todo) = 3
          /\ Head(todo) = "item" <=> Len(todo) = 2
          /\ Head(todo) = "cab" <=> Len(todo) = 1
          /\ Head(todo) # "log"
    BY <1>1, TodoStep
  <1>5. act = "edit" => Head(todo) # "op" /\ (Head(todo) = "slot" <=> Len(todo) = 3)
    BY <1>1, TodoStep
  <1>6. act \in {"disappear", "appear"} =>
          /\ Head(todo) = "log" <=> Len(todo) = 4
          /\ Head(todo) = "slot" <=> Len(todo) = 3
          /\ Head(todo) = "item" <=> Len(todo) = 2
          /\ Head(todo) = "cab" <=> Len(todo) = 1
          /\ Head(todo) # "op"
    BY <1>1, TodoStep
  <1> QED BY <1>2, <1>3, <1>4, <1>5, <1>6 DEF Left, act, todo

(* A slot no question is open about, seen from its status.                 *)
LEMMA QuietSlot ==
    ASSUME SlotsAgree, NEW s \in Slots
    PROVE  HasPending(s) <=> slotStatus[s] \in {"pending_checkout", "pending_return"}
  <1>1. StatusMatches(s)
    BY DEF SlotsAgree
  <1>2. HasPending(s) <=> Asked(s, "take_out") \/ Asked(s, "return")
    BY DEF SlotsAgree, AskedKinds, HasPending, Asked, Pending
  <1> QED BY <1>1, <1>2 DEF StatusMatches

(* Nothing is committed: what was known is still known.                    *)
LEMMA SlotsAgreeStay ==
    SlotsAgree /\ UNCHANGED vars => SlotsAgree'
  BY DEF SlotsAgree, SlotsKeep, AskedKinds, OnePendingPerSlot, StatusMatches, Asked,
         Pending, NoManual, LogInv, TypeOK, AuditTrail, PendingRowIsFresh, LastOfSlot,
         Follows, vars

LEMMA KnowsStays ==
    ASSUME UNCHANGED vars, NEW my, Knows(my) PROVE Knows(my)'
  BY DEF Knows, RowKnown, StatusKnown, ItemKnown, ReturnUnasked,
         EmptyKnown, NoManual, vars

(* Session p is at m now, the others are where they were.                  *)
LEMMA OneKnows ==
    ASSUME OneInv, SesTyped', NEW p \in Sessions, NEW m \in Requests,
           ses' = [ses EXCEPT ![p] = m], Knows(m)',
           \A q \in Sessions : \A my \in Requests :
             q # p /\ my = ses[q] => Knows(my)'
    PROVE  \A q \in Sessions : Knows(ses[q])'
  <1>1. ses \in [Sessions -> Requests]
    BY DEF OneInv, SesTyped, SesTypeOK
  <1>2. ASSUME NEW q \in Sessions PROVE Knows(ses[q])'
    <2>1. CASE q = p
      <3>1. ses'[q] = m
        BY <1>1, <2>1
      <3> QED BY <3>1 DEF Knows, RowKnown, StatusKnown, ItemKnown,
                          ReturnUnasked, EmptyKnown, Live, Answering, Going, Left
    <2>2. CASE q # p
      <3>1. PICK my \in Requests : my = ses[q]
        BY <1>1
      <3>2. ses'[q] = my /\ Knows(my)'
        BY <1>1, <2>2, <3>1
      <3> QED BY <3>2 DEF Knows, RowKnown, StatusKnown, ItemKnown,
                          ReturnUnasked, EmptyKnown, Live, Answering, Going, Left
    <2> QED BY <2>1, <2>2
  <1> QED BY <1>2

LEMMA IdleKnows == Knows(Idle) /\ Knows(Idle)'
  <1>1. Idle.act = "idle"
    BY DEF Idle
  <1> QED BY <1>1 DEF Knows, RowKnown, StatusKnown, ItemKnown,
                      ReturnUnasked, EmptyKnown, Live, Answering, Going

(* A step of one session that commits nothing.                             *)
LEMMA QuietStep ==
    ASSUME OneInv, SesTyped', UNCHANGED vars, NEW p \in Sessions, NEW m \in Requests,
           ses' = [ses EXCEPT ![p] = m], Knows(m)'
    PROVE  OneInv'
  <1>1. \A q \in Sessions : Knows(ses[q])
    BY DEF OneInv
  <1>2. ASSUME NEW q \in Sessions, NEW my \in Requests, my = ses[q] PROVE Knows(my)'
    BY <1>1, <1>2, KnowsStays
  <1>3. \A q \in Sessions : Knows(ses[q])'
    BY <1>2, OneKnows
  <1> QED BY <1>3, SlotsAgreeStay DEF OneInv

LEMMA RequestKnows ==
    ASSUME OneInv, NEW p \in Sessions, Request(p) PROVE OneInv'
  <1>1. SesTyped' /\ SesTyped
    BY RequestTyped DEF OneInv
  <1>2. PICK m \in Requests :
             /\ ses' = [ses EXCEPT ![p] = m] /\ UNCHANGED vars
             /\ Len(m.todo) = 4 /\ m.busy = FALSE
    BY <1>1, RequestCases
  <1>3. Left(m) = 4
    BY <1>2 DEF Left
  <1>4. Knows(m)'
    BY <1>3 DEF Knows, RowKnown, StatusKnown, ItemKnown,
                ReturnUnasked, EmptyKnown, Live, Answering, Going
  <1> QED BY <1>1, <1>2, <1>4, QuietStep

LEMMA SelectKnows ==
    ASSUME OneInv, NEW p \in Sessions, Select(p) PROVE OneInv'
  <1>1. SesTyped' /\ SesTyped /\ SlotsAgree /\ UNCHANGED vars
    BY SelectTyped, SelectCases DEF OneInv
  <1>2. CASE ses' = [ses EXCEPT ![p] = Idle]
    BY <1>1, <1>2, IdleTyped, IdleKnows, QuietStep
  <1>3. ASSUME ses[p].todo # <<>>,
               Head(ses[p].todo) = "op" =>
                 ses[p].id \in DOMAIN ops /\ ops[ses[p].id].status = "pending",
               NEW m \in Requests, ses' = [ses EXCEPT ![p] = m],
               Selected(ses[p], Head(ses[p].todo), m)
        PROVE  OneInv'
    <2> DEFINE my == ses[p]  h == Head(my.todo)
    <2>1. /\ Left(my) \in 1..4 /\ Left(m) = Left(my) - 1
          /\ my.act \in {"confirm", "cancel", "edit", "disappear", "appear"}
      BY <1>1, <1>3, LeftSelected
    <2>2. my.act \in {"confirm", "cancel"} =>
            /\ h = "op" <=> Left(my) = 4
            /\ h = "slot" <=> Left(my) = 3
            /\ h = "item" <=> Left(my) = 2
            /\ h = "cab" <=> Left(my) = 1
            /\ h # "log"
      BY <1>1, <1>3, LeftSelected
    <2>3. my.act = "edit" => h # "op" /\ (h = "slot" <=> Left(my) = 3)
      BY <1>1, <1>3, LeftSelected
    <2>4. my.act \in {"disappear", "appear"} =>
            /\ h = "log" <=> Left(my) = 4
            /\ h = "slot" <=> Left(my) = 3
            /\ h = "item" <=> Left(my) = 2
            /\ h = "cab" <=> Left(my) = 1
            /\ h # "op"
      BY <1>1, <1>3, LeftSelected
    <2>5. Knows(my) /\ Selected(my, h, m)
      BY <1>3 DEF OneInv
    <2>6. h = "op" => my.id \in DOMAIN ops
      BY <1>3
    <2>7. h = "log" => my.slot \in Slots
      <3>1. h = "log" => h # "op" /\ my.act # "idle"
        BY <2>1
      <3> QED BY <1>1, <1>3, <3>1, SlotKnown
    <2>8. h = "log" /\ slotStatus[my.slot] = "pending_return" => HasPending(my.slot)
      BY <1>1, <2>7, QuietSlot
    <2> HIDE DEF my, h
    <2>9. Answering(m) => RowKnown(m) /\ (h # "op" => Answering(my))
      BY <2>1, <2>2, <2>5, <2>6 DEF Knows, RowKnown, Answering, Selected
    <2>10. Going(m) /\ h # "slot" => Going(my)
      BY <2>1, <2>4, <2>5 DEF Going, Selected
    <2>11. Live(m) /\ Left(m) < 3 => StatusKnown(m) /\ (h # "slot" => Live(my))
           /\ m.slot = my.slot /\ h # "op" /\ h # "log"
      BY <2>1, <2>2, <2>4, <2>5, <2>9, <2>10
      DEF Knows, Live, Answering, Going, StatusKnown, Selected
    <2>12. ItemKnown(m)
      BY <2>1, <2>2, <2>4, <2>5, <2>11 DEF Knows, ItemKnown, Live, Answering, Going, Selected
    <2>14. ReturnUnasked(m)
      BY <2>1, <2>4, <2>5, <2>8 DEF Knows, ReturnUnasked, Selected
    <2>15. EmptyKnown(m)
      BY <2>1, <2>3, <2>5 DEF Knows, EmptyKnown, Selected
    <2>16. Knows(m)
      BY <2>1, <2>9, <2>11, <2>12, <2>14, <2>15
      DEF Knows, RowKnown, StatusKnown
    <2> QED BY <1>1, <1>3, <2>16, KnowsStays, QuietStep
  <1> QED BY <1>2, <1>3, SelectCases, <1>1

LEMMA RefuseKnows ==
    ASSUME OneInv, NEW p \in Sessions, Refuse(p) PROVE OneInv'
  <1>1. UNCHANGED vars /\ ses' = [ses EXCEPT ![p] = Idle]
    BY DEF Refuse, Close
  <1>2. SesTyped'
    BY <1>1, IdleTyped, SlotsStay, OneSession DEF OneInv
  <1> QED BY <1>1, <1>2, IdleTyped, IdleKnows, QuietStep

(* Of two sessions that may still commit, not both an operator's, each has *)
(* a slot of its own.                                                      *)
LEMMA LiveApart ==
    ASSUME OneOperator, OneInv, NEW p \in Sessions, NEW q \in Sessions, p # q,
           Live(ses[p]), Live(ses[q])
    PROVE  ses[p].slot # ses[q].slot
  <1>1. ASSUME NEW r \in Sessions, Answering(ses[r])
        PROVE  /\ r \in Operators
               /\ slotStatus[ses[r].slot] \in {"pending_checkout", "pending_return"}
    <2> DEFINE my == ses[r]
    <2>1. /\ TypedAs(r, my) /\ Knows(my) /\ SlotsAgree /\ TypeOK
      BY DEF OneInv, SesTyped, SesTypeOK
    <2>2. /\ r \in Operators /\ my.row.status = "pending" /\ my.slot = my.row.slot
          /\ my.slot \in Slots
      BY <1>1, <2>1 DEF TypedAs, Answering, Left, OpRows
    <2>3. my.id \in DOMAIN ops /\ ops[my.id] = my.row
      BY <1>1, <2>1 DEF Knows, RowKnown
    <2>4. HasPending(my.slot)
      BY <2>2, <2>3 DEF HasPending
    <2> QED BY <2>1, <2>2, <2>4, QuietSlot
  <1>2. ASSUME NEW r \in Sessions, Going(ses[r])
        PROVE  \/ r = "tick" /\ slotStatus[ses[r].slot] \in {"occupied", "return_unregistered"}
               \/ r = "gateway" /\ slotStatus[ses[r].slot] \in
                                      {"checked_out", "checkout_unregistered"}
    <2>1. TypedAs(r, ses[r]) /\ Knows(ses[r])
      BY DEF OneInv, SesTyped
    <2> QED BY <1>2, <2>1 DEF TypedAs, Knows, StatusKnown, Live, Going
  <1>3. CASE Answering(ses[p]) /\ Answering(ses[q])
    BY <1>1, <1>3 DEF OneOperator
  <1>4. CASE Answering(ses[p]) /\ Going(ses[q])
    BY <1>1, <1>2, <1>4
  <1>5. CASE Going(ses[p]) /\ Answering(ses[q])
    BY <1>1, <1>2, <1>5
  <1>6. CASE Going(ses[p]) /\ Going(ses[q])
    BY <1>2, <1>6
  <1> QED BY <1>3, <1>4, <1>5, <1>6 DEF Live

LEMMA LiveSlot ==
    ASSUME SesTyped, NEW p \in Sessions, Live(ses[p]) PROVE ses[p].slot \in Slots
  <1>1. TypedAs(p, ses[p])
    BY DEF SesTyped
  <1> QED BY <1>1 DEF TypedAs, Live, Answering, Going, Left, OpRows

(* A commit of session q leaves the others with what they know.            *)
LEMMA OthersKnow ==
    ASSUME OneOperator, OneInv, NEW q \in Sessions, Live(ses[q]),
           \A t \in Slots : t # ses[q].slot =>
               /\ slotStatus'[t] = slotStatus[t] /\ hasItem'[t] = hasItem[t]
               /\ qty'[t] = qty[t],
           slotStatus'[ses[q].slot] = "pending_return" => q = "gateway",
           \A i \in DOMAIN ops :
               /\ i \in DOMAIN ops' /\ ops'[i].kind = ops[i].kind
               /\ ops'[i] = ops[i] \/ q \in Operators
    PROVE  \A p \in Sessions : \A my \in Requests :
             p # q /\ my = ses[p] => Knows(my)'
  <1> SUFFICES ASSUME NEW p \in Sessions, NEW my \in Requests, p # q, my = ses[p]
               PROVE  Knows(my)'
    OBVIOUS
  <1> DEFINE s == ses[q].slot
  <1>1. /\ SesTyped /\ Knows(my) /\ TypedAs(p, my) /\ TypedAs(q, ses[q]) /\ Knows(ses[q])
        /\ s \in Slots
    BY LiveSlot DEF OneInv, SesTyped
  <1>2. Live(my) => my.slot \in Slots /\ my.slot # s
    BY <1>1, LiveSlot, LiveApart
  <1>3. NoManual' => NoManual
    BY DEF NoManual
  <1>4. p \in Operators => q \notin Operators
    BY DEF OneOperator
  <1>6. RowKnown(my)'
    BY <1>1, <1>4 DEF Knows, RowKnown, Answering, TypedAs
  <1>7. StatusKnown(my)' /\ ItemKnown(my)'
    BY <1>1, <1>2, <1>3 DEF Knows, StatusKnown, ItemKnown
  <1>9. ReturnUnasked(my)'
    <2>1. my.act = "appear" => p = "gateway" /\ my.slot \in Slots
      BY <1>1 DEF TypedAs
    <2> QED BY <1>1, <2>1 DEF Knows, ReturnUnasked
  <1>10. EmptyKnown(my)'
    <2>1. my.act = "edit" => p \in Operators /\ my.slot \in Slots
      BY <1>1 DEF TypedAs
    <2>2. q \notin Operators => slotStatus[s] # "empty"
      <3>1. q \notin Operators => Going(ses[q])
        BY <1>1 DEF TypedAs, Live, Answering
      <3> QED BY <1>1, <3>1 DEF Going, Knows, StatusKnown
    <2> QED BY <1>1, <1>4, <2>1, <2>2 DEF Knows, EmptyKnown
  <1> QED BY <1>6, <1>7, <1>9, <1>10 DEF Knows

(* The same for an edit: it moves a slot only if it is empty, and no       *)
(* watchdog books from an empty slot.                                      *)
LEMMA OthersKnowEdit ==
    ASSUME OneOperator, OneInv, NEW q \in Operators, ses[q].slot \in Slots,
           UNCHANGED hasItem, ~NoManual',
           slotStatus' = [slotStatus EXCEPT ![ses[q].slot] =
                            IF @ = "empty" THEN slotStatus'[ses[q].slot] ELSE @],
           slotStatus'[ses[q].slot] # "pending_return" \/ slotStatus' = slotStatus
    PROVE  \A p \in Sessions : \A my \in Requests :
             p # q /\ my = ses[p] => Knows(my)'
  <1> SUFFICES ASSUME NEW p \in Sessions, NEW my \in Requests, p # q, my = ses[p]
               PROVE  Knows(my)'
    OBVIOUS
  <1>1. SesTyped /\ Knows(my) /\ TypedAs(p, my) /\ TypeOK
    BY DEF OneInv, SesTyped, SesTypeOK
  <1>2. p \notin Operators
    BY DEF OneOperator
  <1>3. ~Answering(my) /\ my.act # "edit"
    BY <1>1, <1>2 DEF Answering, TypedAs
  <1>4. Live(my) => /\ slotStatus[my.slot] # "empty" /\ my.slot \in Slots
                    /\ Left(my) < 3
    BY <1>1, <1>3, LiveSlot DEF Live, Going, Knows, StatusKnown
  <1>5. Live(my) => slotStatus'[my.slot] = slotStatus[my.slot]
    BY <1>1, <1>4 DEF TypeOK
  <1>6. StatusKnown(my)' /\ ItemKnown(my)'
    BY <1>1, <1>4, <1>5 DEF Knows, StatusKnown, ItemKnown
  <1>7. ReturnUnasked(my)'
    <2>1. my.act = "appear" => my.slot \in Slots
      BY <1>1 DEF TypedAs
    <2> QED BY <1>1, <2>1 DEF Knows, ReturnUnasked, TypeOK
  <1> QED BY <1>3, <1>6, <1>7 DEF Knows, RowKnown, EmptyKnown

(* An answer closes its row and takes the slot out of its pending status.  *)
LEMMA AnswerAgrees ==
    ASSUME SlotsAgree, TypeOK, TypeOK', UNCHANGED <<hasItem, slotEpc>>,
           NEW i \in DOMAIN ops, ops[i].status = "pending",
           NEW row \in OpRows, ops' = [ops EXCEPT ![i] = row],
           row.slot = ops[i].slot, row.kind = ops[i].kind, row.status # "pending",
           slotStatus'[row.slot] \notin {"pending_checkout", "pending_return"},
           \A t \in Slots : t # row.slot =>
               slotStatus'[t] = slotStatus[t] /\ qty'[t] = qty[t],
           NoManual => row.before = ops[i].before /\ row.after = qty'[row.slot]
    PROVE  SlotsAgree'
  <1>1. /\ DOMAIN ops' = DOMAIN ops /\ ops'[i] = row /\ row.slot \in Slots
        /\ \A j \in DOMAIN ops : j # i => ops'[j] = ops[j]
    BY ReplaceRow DEF OpRows
  <1>2. SlotsKeep' /\ AskedKinds' /\ OnePendingPerSlot'
    BY <1>1 DEF SlotsAgree, SlotsKeep, AskedKinds, OnePendingPerSlot
  <1>3. \A k \in {"take_out", "return"} :
             /\ ~Asked(row.slot, k)'
             /\ \A t \in Slots : t # row.slot => (Asked(t, k)' <=> Asked(t, k))
    BY AnswerUnasks DEF SlotsAgree
  <1>4. \A t \in Slots : StatusMatches(t)'
    <2> SUFFICES ASSUME NEW t \in Slots PROVE StatusMatches(t)'
      OBVIOUS
    <2>1. hasItem'[t] /\ StatusMatches(t)
      BY <1>2 DEF SlotsKeep, SlotsAgree
    <2> QED BY <1>3, <2>1 DEF StatusMatches
  <1>5. NoManual' => NoManual
    BY <1>1 DEF NoManual
  <1>6. NoManual' => LogInv'
    BY <1>5, AnswerKeepsLog DEF SlotsAgree
  <1> QED BY <1>2, <1>4, <1>6 DEF SlotsAgree

(* A watchdog's question opens one row and puts the slot to wait for it.   *)
LEMMA AskAgrees ==
    ASSUME SlotsAgree, TypeOK, TypeOK', UNCHANGED <<hasItem, slotEpc, qty>>,
           NEW s \in Slots, ~HasPending(s), NEW row \in OpRows, LogOp(row),
           row.slot = s, row.status = "pending", row.kind \in {"take_out", "return"},
           slotStatus'[s] = IF row.kind = "take_out" THEN "pending_checkout"
                            ELSE "pending_return",
           \A t \in Slots : t # s => slotStatus'[t] = slotStatus[t],
           NoManual => /\ row.before = qty[s] /\ row.after = qty[s]
                       /\ row.kind = "take_out" => qty[s] > 0
    PROVE  SlotsAgree'
  <1> DEFINE n == Len(ops) + 1
  <1>1. /\ DOMAIN ops = 1..(n - 1) /\ DOMAIN ops' = 1..n /\ n \in Nat /\ n >= 1
        /\ ops'[n] = row /\ \A i \in 1..(n - 1) : ops'[i] = ops[i]
    BY LogOpEffect
  <1> HIDE DEF n
  <1>2. DOMAIN ops' = DOMAIN ops \cup {n} /\ n \notin DOMAIN ops
        /\ \A i \in DOMAIN ops : ops'[i] = ops[i]
    BY <1>1
  <1>3. SlotsKeep' /\ AskedKinds'
    BY <1>1, <1>2 DEF SlotsAgree, SlotsKeep, AskedKinds
  <1>4. OnePendingPerSlot'
    BY <1>1, <1>2 DEF SlotsAgree, OnePendingPerSlot, HasPending
  <1>5. \A k \in {"take_out", "return"} :
             /\ Asked(s, k)' <=> k = row.kind
             /\ \A t \in Slots : t # s => (Asked(t, k)' <=> Asked(t, k))
    BY AppendAsks
  <1>6. \A t \in Slots : StatusMatches(t)'
    <2> SUFFICES ASSUME NEW t \in Slots PROVE StatusMatches(t)'
      OBVIOUS
    <2>1. hasItem'[t] /\ StatusMatches(t)
      BY <1>3 DEF SlotsKeep, SlotsAgree
    <2>2. CASE t # s
      BY <1>5, <2>1, <2>2 DEF StatusMatches
    <2>3. CASE t = s
      BY <1>5, <2>1, <2>3 DEF StatusMatches
    <2> QED BY <2>2, <2>3
  <1>7. NoManual' => NoManual
    BY <1>2 DEF NoManual
  <1>8. NoManual' => LogInv'
    <2> SUFFICES ASSUME NoManual PROVE LogInv'
      BY <1>7
    <2>1. LogInv /\ hasItem'[s] /\ hasItem' = hasItem /\ qty' = qty
      BY <1>3 DEF SlotsAgree, SlotsKeep
    <2> QED BY <2>1, AppendKeepsLog
  <1> QED BY <1>3, <1>4, <1>6, <1>8 DEF SlotsAgree

(* An edit opens no question and closes none.                              *)
LEMMA EditAgrees ==
    ASSUME SlotsAgree, TypeOK, TypeOK', UNCHANGED <<hasItem, slotEpc>>,
           NEW row \in OpRows, LogOp(row), row.status = "confirmed",
           row.kind = "manual_edit",
           \A t \in Slots : \/ slotStatus'[t] = slotStatus[t]
                            \/ slotStatus[t] = "empty" /\ slotStatus'[t] = "occupied"
    PROVE  SlotsAgree' /\ ~NoManual'
  <1> DEFINE n == Len(ops) + 1
  <1>1. /\ DOMAIN ops = 1..(n - 1) /\ DOMAIN ops' = 1..n /\ n \in Nat /\ n >= 1
        /\ ops'[n] = row /\ \A i \in 1..(n - 1) : ops'[i] = ops[i]
    BY LogOpEffect
  <1> HIDE DEF n
  <1>2. DOMAIN ops' = DOMAIN ops \cup {n} /\ n \notin DOMAIN ops
        /\ \A i \in DOMAIN ops : ops'[i] = ops[i]
    BY <1>1
  <1>3. SlotsKeep' /\ AskedKinds' /\ OnePendingPerSlot' /\ ~NoManual'
    BY <1>1, <1>2
    DEF SlotsAgree, SlotsKeep, AskedKinds, OnePendingPerSlot, NoManual
  <1>4. \A t \in Slots, k \in {"take_out", "return"} : Asked(t, k)' <=> Asked(t, k)
    BY <1>1, <1>2 DEF Asked, Pending
  <1>5. \A t \in Slots : StatusMatches(t)'
    <2> SUFFICES ASSUME NEW t \in Slots PROVE StatusMatches(t)'
      OBVIOUS
    <2>1. hasItem'[t] /\ StatusMatches(t)
      BY <1>3 DEF SlotsKeep, SlotsAgree
    <2> QED BY <1>4, <2>1 DEF StatusMatches
  <1> QED BY <1>3, <1>5 DEF SlotsAgree

(* A tag that left again: the slot goes back to checked_out, unasked.      *)
LEMMA LeaveAgrees ==
    ASSUME SlotsAgree, TypeOK, TypeOK', UNCHANGED <<hasItem, slotEpc, qty, ops>>,
           NEW s \in Slots, slotStatus[s] = "return_unregistered",
           slotStatus'[s] = "checked_out",
           \A t \in Slots : t # s => slotStatus'[t] = slotStatus[t]
    PROVE  SlotsAgree'
  <1>1. SlotsKeep' /\ AskedKinds' /\ OnePendingPerSlot' /\ (NoManual' => NoManual)
    BY DEF SlotsAgree, SlotsKeep, AskedKinds, OnePendingPerSlot, NoManual
  <1>2. \A t \in Slots, k \in {"take_out", "return"} : Asked(t, k)' <=> Asked(t, k)
    BY DEF Asked, Pending
  <1>3. \A t \in Slots : StatusMatches(t)'
    <2> SUFFICES ASSUME NEW t \in Slots PROVE StatusMatches(t)'
      OBVIOUS
    <2>1. hasItem'[t] /\ StatusMatches(t)
      BY <1>1 DEF SlotsKeep, SlotsAgree
    <2> QED BY <1>2, <2>1 DEF StatusMatches
  <1> QED BY <1>1, <1>3, SameLogKeepsLog DEF SlotsAgree

(* A session that may commit now and will: all it has read is current.     *)
LEMMA CommitCurrent ==
    ASSUME OneInv, NEW q \in Sessions, ses[q].todo = <<>>, Live(ses[q])
    PROVE  LET my == ses[q] IN
           /\ my.slot \in Slots /\ my.status = slotStatus[my.slot] /\ my.has
           /\ NoManual => my.stock = qty[my.slot]
           /\ Answering(my) => my.id \in DOMAIN ops /\ ops[my.id] = my.row
  <1> DEFINE my == ses[q]
  <1>1. SesTyped /\ SlotsAgree /\ Knows(my) /\ Left(my) = 0
    BY LeftTyped DEF OneInv
  <1>2. my.slot \in Slots
    BY <1>1, LiveSlot
  <1>3. hasItem[my.slot]
    BY <1>1, <1>2 DEF SlotsAgree, SlotsKeep
  <1>4. Live(my)
    OBVIOUS
  <1> HIDE DEF my
  <1>5. Left(my) < 3 /\ Left(my) < 2 /\ Left(my) < 1
    BY <1>1
  <1>6. my.status = slotStatus[my.slot]
    BY <1>1, <1>4, <1>5 DEF Knows, StatusKnown
  <1>7. my.has = hasItem[my.slot] /\ (NoManual => my.stock = qty[my.slot])
    BY <1>1, <1>4, <1>5 DEF Knows, ItemKnown
  <1>9. Answering(my) => my.id \in DOMAIN ops /\ ops[my.id] = my.row
    BY <1>1 DEF Knows, RowKnown
  <1> QED BY <1>2, <1>3, <1>6, <1>7, <1>9 DEF my

LEMMA CommitStep ==
    ASSUME OneInv, SesTyped', SlotsAgree', NEW q \in Sessions, Close(q),
           \A p \in Sessions : \A my \in Requests :
             p # q /\ my = ses[p] => Knows(my)'
    PROVE  OneInv'
  <1>1. \A p \in Sessions : Knows(ses[p])'
    BY IdleTyped, IdleKnows, OneKnows DEF Close
  <1> QED BY <1>1 DEF OneInv

(* An answer, of either kind, in terms of what it writes.                  *)
LEMMA AnswerCommit ==
    ASSUME OneOperator, OneInv, SesTyped', NEW q \in Sessions,
           NEW act \in {"confirm", "cancel"}, Ready(q, act),
           NEW status \in {"confirmed", "cancelled"}, NEW before \in Nat, NEW after \in Nat,
           WriteAnswer(ses[q], status, before, after),
           NEW new \in SlotStatuses \ {"pending_checkout", "pending_return"},
           WriteSlotAndSync(ses[q], new), Close(q), UNCHANGED <<hasItem, slotEpc>>,
           \A t \in Slots : t # ses[q].slot => qty'[t] = qty[t],
           NoManual => before = ses[q].row.before /\ after = qty'[ses[q].slot]
    PROVE  OneInv'
  <1> DEFINE my == ses[q]  s == my.slot  i == my.id  row == ops'[i]
  <1>1. /\ SesTyped /\ SlotsAgree /\ TypeOK /\ TypeOK'
    BY DEF OneInv, SesTyped, SesTypeOK
  <1>2. /\ my \in Requests /\ TypedAs(q, my) /\ my.act = act /\ my.todo = <<>> /\ s \in Slots
        /\ my.row \in OpRows /\ my.row.status = "pending" /\ s = my.row.slot
    BY <1>1, ReadyKnows
  <1>3. Left(my) = 0 /\ q \in Operators
    BY <1>1, <1>2, LeftTyped DEF TypedAs
  <1>4. Answering(my) /\ Live(my)
    BY <1>2, <1>3 DEF Answering, Live
  <1>5. /\ i \in DOMAIN ops /\ ops[i] = my.row /\ slotStatus[s] = my.status
    BY <1>2, <1>4, CommitCurrent
  <1>6. /\ DOMAIN ops' = DOMAIN ops /\ row \in OpRows /\ ops' = [ops EXCEPT ![i] = row]
        /\ \A j \in DOMAIN ops : j # i => ops'[j] = ops[j]
        /\ row.status = status /\ row.slot = ops[i].slot /\ row.kind = ops[i].kind
        /\ row.before = IF before = my.row.before THEN ops[i].before ELSE before
        /\ row.after = IF after = my.row.after THEN ops[i].after ELSE after
    BY <1>1, <1>2, WriteAnswerType
  <1>7. /\ \A t \in Slots : t # s => slotStatus'[t] = slotStatus[t]
        /\ slotStatus'[s] = IF new = my.status THEN slotStatus[s] ELSE new
    BY <1>1, <1>2, WriteSlotAndSyncType
  <1>8. NoManual => row.before = ops[i].before /\ row.after = qty'[s]
    BY <1>5, <1>6
  <1>9. slotStatus'[s] \notin {"pending_checkout", "pending_return"} /\ row.slot = s
        /\ ops[i].status = "pending"
    BY <1>2, <1>5, <1>6, <1>7
  <1>11. \A j \in DOMAIN ops : j \in DOMAIN ops' /\ ops'[j].kind = ops[j].kind
    BY <1>6
  <1> HIDE DEF row
  <1>12. SlotsAgree'
    <2>1. \A t \in Slots : t # row.slot => slotStatus'[t] = slotStatus[t] /\ qty'[t] = qty[t]
      BY <1>7, <1>9
    <2>2. NoManual => row.before = ops[i].before /\ row.after = qty'[row.slot]
      BY <1>8, <1>9
    <2>3. row.slot = ops[i].slot /\ row.kind = ops[i].kind /\ row.status # "pending"
          /\ slotStatus'[row.slot] \notin {"pending_checkout", "pending_return"}
      BY <1>6, <1>9
    <2> HIDE DEF my, s, i
    <2> QED BY <1>1, <1>5, <1>6, <1>9, <2>1, <2>2, <2>3, AnswerAgrees
  <1>13. \A p \in Sessions : \A m \in Requests : p # q /\ m = ses[p] => Knows(m)'
    BY <1>3, <1>4, <1>7, <1>9, <1>11, OthersKnow
  <1> QED BY <1>12, <1>13, CommitStep

(* The row an answer is about, unedited, states the present stock.         *)
LEMMA RowIsCurrent ==
    ASSUME OneInv, NoManual, NEW q \in Sessions, NEW act \in {"confirm", "cancel"},
           Ready(q, act)
    PROVE  LET my == ses[q] IN
           my.row.before = qty[my.slot] /\ my.row.after = qty[my.slot] /\ my.stock = qty[my.slot]
  <1> DEFINE my == ses[q]
  <1>1. SesTyped /\ SlotsAgree
    BY DEF OneInv
  <1>2. /\ TypedAs(q, my) /\ my.act = act /\ my.todo = <<>>
        /\ my.row.status = "pending" /\ my.slot = my.row.slot
    BY <1>1, ReadyKnows
  <1>3. Answering(my) /\ Live(my)
    BY <1>1, <1>2, LeftTyped DEF Answering, Live
  <1>4. my.id \in DOMAIN ops /\ ops[my.id] = my.row /\ my.stock = qty[my.slot]
    BY <1>2, <1>3, CommitCurrent
  <1>5. PendingRowIsFresh(my.id) /\ AuditTrail
    BY <1>1, <1>2, <1>4 DEF SlotsAgree, LogInv
  <1> QED BY <1>2, <1>4, <1>5 DEF PendingRowIsFresh, AuditTrail

LEMMA CommitAnswerKnows ==
    ASSUME OneOperator, OneInv, NEW q \in Sessions,
           CommitTakeOut(q) \/ CommitReturn(q) \/ CommitCancel(q)
    PROVE  OneInv'
  <1> DEFINE my == ses[q]  s == my.slot
  <1>1. SesTyped /\ SesTyped' /\ TypeOK
    BY CommitTyped DEF OneInv, Commit, SesTyped, SesTypeOK
  <1>2. CASE CommitTakeOut(q)
    <2>1. /\ Ready(q, "confirm") /\ qty' = [qty EXCEPT ![s] = my.stock - 1]
          /\ WriteAnswer(my, "confirmed", my.stock, my.stock - 1)
          /\ WriteSlotAndSync(my, "checked_out") /\ Close(q)
          /\ UNCHANGED <<slotEpc, hasItem>> /\ my.stock > 0
      BY <1>2 DEF CommitTakeOut
    <2>2. my.stock \in Nat /\ s \in Slots
      BY <1>1, <2>1, ReadyKnows
    <2>3. NoManual => my.stock = my.row.before
      BY <2>1, RowIsCurrent
    <2>4. /\ qty'[s] = my.stock - 1 /\ my.stock - 1 \in Nat
          /\ \A t \in Slots : t # s => qty'[t] = qty[t]
      BY <1>1, <2>1, <2>2 DEF TypeOK
    <2>5. "checked_out" \in SlotStatuses \ {"pending_checkout", "pending_return"}
      BY DEF SlotStatuses
    <2> QED BY <1>1, <2>1, <2>2, <2>3, <2>4, <2>5, AnswerCommit
  <1>3. CASE CommitReturn(q)
    <2> DEFINE after == StockAfterReturn(my.stock, my.arg, my.row.reconcile)
               new == IF after > 0 THEN "occupied" ELSE "empty"
    <2>1. /\ Ready(q, "confirm") /\ qty' = [qty EXCEPT ![s] = Column(@, my.stock, after)]
          /\ WriteAnswer(my, "confirmed", my.stock, after)
          /\ WriteSlotAndSync(my, new) /\ Close(q)
          /\ UNCHANGED <<slotEpc, hasItem>>
      BY <1>3 DEF CommitReturn
    <2>2. my.stock \in Nat /\ my.arg \in Nat /\ s \in Slots /\ my.row.reconcile \in BOOLEAN
      BY <1>1, <2>1, ReadyKnows DEF OpRows
    <2>3. NoManual => my.stock = my.row.before /\ my.stock = qty[s]
      BY <2>1, RowIsCurrent
    <2>4. after \in Nat
      BY <2>2, StockAfterReturnType
    <2>5. new \in SlotStatuses \ {"pending_checkout", "pending_return"}
      BY DEF SlotStatuses
    <2> HIDE DEF after, new
    <2>6. /\ NoManual => qty'[s] = after
          /\ \A t \in Slots : t # s => qty'[t] = qty[t]
      BY <1>1, <2>1, <2>2, <2>3 DEF TypeOK, Column
    <2> QED BY <1>1, <2>1, <2>2, <2>3, <2>4, <2>5, <2>6, AnswerCommit
  <1>4. CASE CommitCancel(q)
    <2> DEFINE new == IF my.row.kind = "return" THEN "return_unregistered"
                      ELSE IF my.has /\ my.stock > 0 THEN "checkout_unregistered"
                      ELSE "empty"
    <2>1. /\ Ready(q, "cancel") /\ UNCHANGED <<slotEpc, hasItem, qty>>
          /\ WriteAnswer(my, "cancelled", my.row.before, my.row.after)
          /\ WriteSlotAndSync(my, new) /\ Close(q)
      BY <1>4 DEF CommitCancel
    <2>2. my.row.before \in Nat /\ my.row.after \in Nat
      BY <1>1, <2>1, ReadyKnows DEF OpRows
    <2>3. NoManual => my.row.after = qty'[s]
      BY <2>1, RowIsCurrent
    <2>4. new \in SlotStatuses \ {"pending_checkout", "pending_return"}
      BY DEF SlotStatuses
    <2> HIDE DEF new
    <2> QED BY <1>1, <2>1, <2>2, <2>3, <2>4, AnswerCommit
  <1> QED BY <1>2, <1>3, <1>4

LEMMA CommitEditKnows ==
    ASSUME OneOperator, OneInv, NEW q \in Sessions, CommitEdit(q) PROVE OneInv'
  <1> DEFINE my == ses[q]  s == my.slot
             row == OpRow("manual_edit", s, "confirmed", my.stock, my.arg, FALSE)
  <1>1. /\ SesTyped /\ SesTyped' /\ TypeOK /\ TypeOK' /\ SlotsAgree /\ Knows(my)
    BY CommitTyped DEF OneInv, Commit, SesTyped, SesTypeOK
  <1>2. /\ Ready(q, "edit") /\ LogOp(row) /\ Close(q)
        /\ slotStatus' = [slotStatus EXCEPT ![s] =
              IF my.arg > 0 /\ my.arg # my.stock /\ my.status = "empty"
              THEN "occupied" ELSE @]
        /\ UNCHANGED <<slotEpc, hasItem, cabStatus>>
    BY DEF CommitEdit
  <1>3. /\ TypedAs(q, my) /\ my.act = "edit" /\ my.todo = <<>> /\ s \in Slots
        /\ my.stock \in Nat /\ my.arg \in Nat
    BY <1>1, <1>2, ReadyKnows
  <1>4. q \in Operators /\ Left(my) = 0
    BY <1>1, <1>3, LeftTyped DEF TypedAs
  <1>5. my.status = "empty" => slotStatus[s] = "empty"
    BY <1>1, <1>3, <1>4 DEF Knows, EmptyKnown
  <1>6. row \in OpRows
    BY <1>3, OpRowType DEF OpKinds, OpStatuses
  <1>7. row.status = "confirmed" /\ row.kind = "manual_edit"
    BY DEF OpRow
  <1> HIDE DEF my, row
  <1>8. \A t \in Slots :
          \/ slotStatus'[t] = slotStatus[t]
          \/ slotStatus[t] = "empty" /\ slotStatus'[t] = "occupied"
    BY <1>1, <1>2, <1>5 DEF TypeOK
  <1>9. SlotsAgree' /\ ~NoManual'
    BY <1>1, <1>2, <1>6, <1>7, <1>8, EditAgrees
  <1>10. /\ slotStatus' = [slotStatus EXCEPT ![s] = IF @ = "empty" THEN slotStatus'[s] ELSE @]
         /\ slotStatus'[s] # "pending_return" \/ slotStatus' = slotStatus
    BY <1>1, <1>2, <1>3, <1>5 DEF TypeOK
  <1>11. \A p \in Sessions : \A m \in Requests : p # q /\ m = ses[p] => Knows(m)'
    BY <1>2, <1>3, <1>4, <1>9, <1>10, OthersKnowEdit DEF my
  <1> QED BY <1>1, <1>2, <1>9, <1>11, CommitStep

(* A watchdog's session that has nothing left to read and will write.      *)
LEMMA WatchdogCommit ==
    ASSUME OneInv, NEW q \in Sessions, CommitDisappear(q) \/ CommitAppear(q)
    PROVE  LET my == ses[q] IN
           /\ Live(my) /\ my.todo = <<>> /\ my.slot \in Slots /\ q \notin Operators
           /\ my.stock \in Nat /\ hasItem[my.slot] /\ my.has
           /\ my.status = slotStatus[my.slot] /\ ~HasPending(my.slot)
           /\ NoManual => my.stock = qty[my.slot]
           /\ CommitDisappear(q) => q = "tick"
           /\ CommitAppear(q) => q = "gateway" /\
                my.status \in {"checked_out", "checkout_unregistered"}
  <1> DEFINE my == ses[q]  s == my.slot
  <1>1. SesTyped /\ SlotsAgree /\ Knows(my) /\ TypedAs(q, my)
    BY DEF OneInv, SesTyped
  <1>2. \/ CommitDisappear(q) /\ Ready(q, "disappear")
        \/ CommitAppear(q) /\ Ready(q, "appear")
    BY DEF CommitDisappear, CommitAppear
  <1>3. /\ my.todo = <<>> /\ s \in Slots /\ my.stock \in Nat
        /\ CommitDisappear(q) => my.act = "disappear"
        /\ CommitAppear(q) => my.act = "appear"
    BY <1>1, <1>2, ReadyKnows DEF CommitDisappear, CommitAppear, Ready
  <1>4. Left(my) = 0
    BY <1>1, <1>3, LeftTyped
  <1>5. CommitDisappear(q) => ~my.busy /\ my.status \in {"occupied", "return_unregistered"}
    BY DEF CommitDisappear, MayAsk
  <1>6. CommitAppear(q) => ~my.busy /\ my.status \in {"checked_out", "checkout_unregistered"}
    BY <1>1, <1>3, <1>4 DEF CommitAppear, MayAsk, Knows, ReturnUnasked
  <1>7. Live(my)
    BY <1>2, <1>3, <1>4, <1>5, <1>6 DEF Live, Going
  <1>8. /\ my.status = slotStatus[s] /\ my.has
        /\ NoManual => my.stock = qty[s]
    BY <1>3, <1>7, CommitCurrent
  <1>9. ~HasPending(s)
    BY <1>1, <1>2, <1>3, <1>5, <1>6, <1>8, QuietSlot
  <1>10. /\ CommitDisappear(q) => q = "tick"
         /\ CommitAppear(q) => q = "gateway"
         /\ q \notin Operators
    BY <1>1, <1>2, <1>3, SessionAssumption DEF TypedAs, Watchdogs
  <1>11. hasItem[s]
    BY <1>1, <1>3 DEF SlotsAgree, SlotsKeep
  <1> HIDE DEF my
  <1> QED BY <1>3, <1>6, <1>7, <1>8, <1>9, <1>10, <1>11 DEF my

LEMMA CommitWatchdogKnows ==
    ASSUME OneOperator, OneInv, NEW q \in Sessions, CommitDisappear(q) \/ CommitAppear(q)
    PROVE  OneInv'
  <1> DEFINE my == ses[q]  s == my.slot
  <1>1. /\ SesTyped /\ SesTyped' /\ TypeOK /\ TypeOK' /\ SlotsAgree
    BY CommitTyped DEF OneInv, Commit, SesTyped, SesTypeOK
  <1>2. /\ Live(my) /\ s \in Slots /\ my \in Requests /\ my.stock \in Nat
        /\ my.status = slotStatus[s] /\ ~HasPending(s)
        /\ NoManual => my.stock = qty[s]
    BY <1>1, WatchdogCommit DEF SesTyped, SesTypeOK
  <1>3. UNCHANGED <<slotEpc, hasItem, qty>> /\ Close(q)
    BY DEF CommitDisappear, CommitAppear
  <1>4. ASSUME NEW new \in SlotStatuses, WriteSlotAndSync(my, new),
               new = "pending_return" => q = "gateway", SlotsAgree',
               my.status # "pending_return",
               \A i \in DOMAIN ops : i \in DOMAIN ops' /\ ops'[i] = ops[i]
        PROVE  OneInv'
    <2>1. /\ \A t \in Slots : t # s => slotStatus'[t] = slotStatus[t]
          /\ slotStatus'[s] = IF new = my.status THEN slotStatus[s] ELSE new
      BY <1>1, <1>2, <1>4, WriteSlotAndSyncType
    <2>3. slotStatus'[s] = "pending_return" => q = "gateway"
      BY <1>2, <1>4, <2>1
    <2>4. \A p \in Sessions : \A m \in Requests : p # q /\ m = ses[p] => Knows(m)'
      BY <1>2, <1>3, <1>4, <2>1, <2>3, OthersKnow
    <2> QED BY <1>1, <1>3, <1>4, <2>4, CommitStep
  <1>5. ASSUME NEW kind \in {"take_out", "return"}, NEW mark \in BOOLEAN,
               LogOp(OpRow(kind, s, "pending", my.stock, my.stock, mark)),
               kind = "take_out" => my.stock > 0, kind = "return" => q = "gateway",
               my.status # "pending_return", my.status # "pending_checkout",
               WriteSlotAndSync(my, IF kind = "take_out" THEN "pending_checkout"
                                    ELSE "pending_return")
        PROVE  OneInv'
    <2> DEFINE row == OpRow(kind, s, "pending", my.stock, my.stock, mark)
               new == IF kind = "take_out" THEN "pending_checkout" ELSE "pending_return"
    <2>1. row \in OpRows
      BY <1>2, OpRowType DEF OpKinds, OpStatuses
    <2>2. /\ row.slot = s /\ row.status = "pending" /\ row.kind = kind
          /\ row.before = my.stock /\ row.after = my.stock
      BY DEF OpRow
    <2>3. new \in SlotStatuses
      BY DEF SlotStatuses
    <2>4. /\ \A t \in Slots : t # s => slotStatus'[t] = slotStatus[t]
          /\ slotStatus'[s] = new
      BY <1>1, <1>2, <1>5, <2>3, WriteSlotAndSyncType
    <2>5. LogOp(row)
      BY <1>5
    <2> HIDE DEF row
    <2>6. \A i \in DOMAIN ops : i \in DOMAIN ops' /\ ops'[i] = ops[i]
      BY <1>1, <2>1, <2>5, LogOpEffect
    <2>7. SlotsAgree'
      BY <1>1, <1>2, <1>3, <1>5, <2>1, <2>2, <2>4, <2>5, AskAgrees
    <2>8. new = "pending_return" => q = "gateway"
      BY <1>5
    <2> HIDE DEF new
    <2> QED BY <1>4, <1>5, <2>3, <2>6, <2>7, <2>8 DEF new
  <1>6. CASE CommitDisappear(q)
    <2>1. CASE my.status = "occupied"
      BY <1>5, <1>6, <2>1 DEF CommitDisappear
    <2>2. CASE my.status = "return_unregistered"
      <3>1. WriteSlotAndSync(my, "checked_out") /\ ops' = ops
        BY <1>6, <2>2 DEF CommitDisappear
      <3>2. "checked_out" \in SlotStatuses
        BY DEF SlotStatuses
      <3>3. /\ \A t \in Slots : t # s => slotStatus'[t] = slotStatus[t]
            /\ slotStatus'[s] = "checked_out"
        BY <1>1, <1>2, <2>2, <3>1, <3>2, WriteSlotAndSyncType
      <3>4. SlotsAgree'
        BY <1>1, <1>2, <1>3, <2>2, <3>1, <3>3, LeaveAgrees
      <3> QED BY <1>4, <2>2, <3>1, <3>2, <3>4
    <2> QED BY <1>6, <2>1, <2>2 DEF CommitDisappear
  <1>7. CASE CommitAppear(q)
    <2> DEFINE mark == (my.status = "checkout_unregistered")
    <2>1. my.status \in {"checked_out", "checkout_unregistered"} /\ q = "gateway"
      BY <1>7, WatchdogCommit
    <2>2. /\ LogOp(OpRow("return", s, "pending", my.stock, my.stock, mark))
          /\ WriteSlotAndSync(my, "pending_return")
      BY <1>7 DEF CommitAppear
    <2>3. mark \in BOOLEAN
      OBVIOUS
    <2> HIDE DEF mark
    <2> QED BY <1>5, <2>1, <2>2, <2>3
  <1> QED BY <1>6, <1>7

LEMMA OneInvStays ==
    ASSUME OneOperator, OneInv, [SesNext]_sesVars PROVE OneInv'
  <1>1. CASE UNCHANGED sesVars
    <2>1. UNCHANGED vars /\ SesTyped' /\ ses' = ses
      BY <1>1, SesTypedStays DEF OneInv, sesVars
    <2>2. \A p \in Sessions : Knows(ses[p])'
      BY <2>1
      DEF OneInv, Knows, RowKnown, StatusKnown, ItemKnown, ReturnUnasked,
          EmptyKnown, Live, Answering, Going, Left, NoManual, vars
    <2> QED BY <2>1, <2>2, SlotsAgreeStay DEF OneInv
  <1>2. ASSUME NEW p \in Sessions, Commit(p) PROVE OneInv'
    BY <1>2, CommitAnswerKnows, CommitEditKnows, CommitWatchdogKnows DEF Commit
  <1> QED BY <1>1, <1>2, RequestKnows, SelectKnows, RefuseKnows DEF SesNext

LEMMA OneInvFirst == SesInit => OneInv
  <1> SUFFICES ASSUME SesInit PROVE OneInv
    OBVIOUS
  <1>1. SesTyped /\ TypeOK
    BY SesTypedFirst DEF SesTyped, SesTypeOK
  <1>2. /\ DOMAIN ops = {} /\ \A s \in Slots : hasItem[s] /\ slotEpc[s] = TagOf[s]
        /\ \A s \in Slots : slotStatus[s] = "occupied"
    BY DEF SesInit
  <1>3. LogInv
    BY <1>1, <1>2 DEF LogInv, AuditTrail
  <1>4. \A s \in Slots : StatusMatches(s)
    BY <1>2 DEF StatusMatches, Asked
  <1>5. SlotsAgree
    BY <1>2, <1>3, <1>4 DEF SlotsAgree, SlotsKeep, AskedKinds, OnePendingPerSlot
  <1>6. \A p \in Sessions : ses[p] = Idle /\ Knows(Idle)
    BY IdleKnows DEF SesInit
  <1> QED BY <1>1, <1>5, <1>6 DEF OneInv

(* One operator and the two watchdogs, at any slots and cabinets: however  *)
(* their statements interleave, and whatever stock the operator edits by   *)
(* hand meanwhile, no slot has two questions open (_has_pending_operation  *)
(* is asked in another statement than the one that inserts the row), and a *)
(* slot waits exactly while its question is open.                          *)
THEOREM OneQuestionPerSlotInSessions ==
    ASSUME OneOperator
    PROVE  SesSpec => [](OnePendingPerSlot /\ PendingMatchesSlot)
  <1>1. OneInv /\ [SesNext]_sesVars => OneInv'
    BY OneInvStays
  <1>2. OneInv => OnePendingPerSlot /\ PendingMatchesSlot
    BY DEF OneInv, SlotsAgree, StatusMatches, Asked, PendingMatchesSlot
  <1> QED BY <1>1, <1>2, OneInvFirst, PTL DEF SesSpec

(* As long as nothing was edited by hand, the log written by interleaved   *)
(* sessions is still an audit trail and every open question can still be   *)
(* answered, although each row states a quantity read some time before.    *)
THEOREM LogOfSessionsCorrect ==
    ASSUME OneOperator
    PROVE  SesSpec => [](NoManual => AuditTrail /\ PendingIsAnswerable)
  <1>1. OneInv /\ [SesNext]_sesVars => OneInv'
    BY OneInvStays
  <1>2. OneInv => (NoManual => AuditTrail /\ PendingIsAnswerable)
    BY LogInvImplies DEF OneInv, SlotsAgree
  <1> QED BY <1>1, <1>2, OneInvFirst, PTL DEF SesSpec

-----------------------------------------------------------------------------
(* What a commit does is what a handler of SlotOperations does in one step.*)

(* A cabinet none of whose slots has changed calls for the same status.    *)
LEMMA CabinetUntouched ==
    ASSUME NEW c, NEW st, NEW tu,
           \A t \in Slots : CabinetOf[t] = c => tu[t] = st[t]
    PROVE  CabinetStatus(c, tu) = CabinetStatus(c, st)
  <1>1. {tu[t] : t \in {u \in Slots : CabinetOf[u] = c}}
          = {st[t] : t \in {u \in Slots : CabinetOf[u] = c}}
    OBVIOUS
  <1> QED BY <1>1 DEF CabinetStatus

(* The slot's column of a session that has read what is there, with every  *)
(* cabinet in the status its slots call for: only the slot's own changes.  *)
LEMMA WritesAsHandler ==
    ASSUME NEW my, NEW new, WriteSlotAndSync(my, new), my.status = slotStatus[my.slot],
           TypeOK, my.slot \in Slots
    PROVE  Synced!SetSlotAndSync(my.slot, new)
  <1> DEFINE s == my.slot
             cabs == [c \in Cabinets |-> CabinetStatus(c, slotStatus)]
             cabsNext == [c \in Cabinets |-> CabinetStatus(c, slotStatus')]
  <1>1. slotStatus' = [slotStatus EXCEPT ![s] = new]
    BY DEF WriteSlotAndSync, Column, TypeOK
  <1>2. ASSUME NEW c \in Cabinets, c # CabinetOf[s]
        PROVE  CabinetStatus(c, slotStatus') = CabinetStatus(c, slotStatus)
    <2>1. \A t \in Slots : CabinetOf[t] = c => slotStatus'[t] = slotStatus[t]
      BY <1>1, <1>2 DEF TypeOK
    <2> QED BY <2>1, CabinetUntouched
  <1>3. cabsNext = [cabs EXCEPT ![CabinetOf[s]] = CabinetStatus(CabinetOf[s], slotStatus')]
    BY <1>2
  <1>4. \A c, st : Synced!CabinetStatus(c, st) = CabinetStatus(c, st)
    BY DEF Synced!CabinetStatus, CabinetStatus
  <1> QED BY <1>1, <1>3, <1>4 DEF Synced!SetSlotAndSync

(* Rows with the same fields are the same row.                             *)
LEMMA SameRow ==
    ASSUME NEW r \in OpRows, NEW t \in OpRows, r.kind = t.kind, r.slot = t.slot,
           r.status = t.status, r.before = t.before, r.after = t.after,
           r.reconcile = t.reconcile
    PROVE  r = t
  BY DEF OpRows

(* What an unedited session that answers finds, and what its row becomes.  *)
LEMMA AnswerAsHandler ==
    ASSUME OneInv, NoManual, NEW q \in Sessions, NEW act \in {"confirm", "cancel"},
           Ready(q, act), NEW status \in {"confirmed", "cancelled"},
           NEW before \in Nat, NEW after \in Nat,
           WriteAnswer(ses[q], status, before, after)
    PROVE  LET my == ses[q]  i == my.id  s == my.slot IN
           /\ TypeOK /\ i \in DOMAIN ops /\ ops[i].slot = s /\ s \in Slots /\ ops[i] \in OpRows
           /\ ops[i] = my.row /\ ops[i].status = "pending" /\ ops[i].kind \in {"take_out", "return"}
           /\ ops[i].before = qty[s] /\ ops[i].after = qty[s]
           /\ my.stock = qty[s] /\ hasItem[s] /\ my.has /\ my.status = slotStatus[s]
           /\ \A row \in OpRows :
                /\ row.kind = ops[i].kind /\ row.slot = s /\ row.status = status
                /\ row.before = before /\ row.after = after
                /\ row.reconcile = (status = "cancelled" /\ ops[i].reconcile)
                => ops' = [ops EXCEPT ![i] = row]
  <1> DEFINE my == ses[q]  i == my.id  s == my.slot
  <1>1. /\ SesTyped /\ SlotsAgree /\ TypeOK
    BY DEF OneInv, SesTyped, SesTypeOK
  <1>2. /\ my \in Requests /\ TypedAs(q, my) /\ my.act = act /\ my.todo = <<>> /\ s \in Slots
        /\ my.row \in OpRows /\ my.row.status = "pending" /\ s = my.row.slot
    BY <1>1, ReadyKnows
  <1>3. Answering(my) /\ Live(my)
    BY <1>1, <1>2, LeftTyped DEF Answering, Live
  <1>4. /\ i \in DOMAIN ops /\ ops[i] = my.row /\ my.status = slotStatus[s] /\ my.has
    BY <1>2, <1>3, CommitCurrent
  <1>5. my.row.before = qty[s] /\ my.row.after = qty[s] /\ my.stock = qty[s]
    BY RowIsCurrent
  <1>6. hasItem[s] /\ ops[i].kind \in {"take_out", "return"}
    BY <1>1, <1>2, <1>4 DEF SlotsAgree, SlotsKeep, AskedKinds
  <1>7. /\ ops'[i] \in OpRows /\ ops' = [ops EXCEPT ![i] = ops'[i]]
        /\ ops'[i].status = status /\ ops'[i].slot = ops[i].slot
        /\ ops'[i].kind = ops[i].kind
        /\ ops'[i].before = IF before = my.row.before THEN ops[i].before ELSE before
        /\ ops'[i].after = IF after = my.row.after THEN ops[i].after ELSE after
        /\ ops'[i].reconcile = (status = "cancelled" /\ ops[i].reconcile)
    BY <1>1, <1>2, WriteAnswerType
  <1>8. ops'[i].before = before /\ ops'[i].after = after
    BY <1>4, <1>7
  <1>9. ASSUME NEW row \in OpRows,
               row.kind = ops[i].kind, row.slot = s, row.status = status,
               row.before = before, row.after = after,
               row.reconcile = (status = "cancelled" /\ ops[i].reconcile)
        PROVE  ops' = [ops EXCEPT ![i] = row]
    <2>1. row.slot = ops[i].slot
      BY <1>2, <1>4, <1>9
    <2>2. ops'[i] = row
      BY <1>7, <1>8, <1>9, <2>1, SameRow
    <2> QED BY <1>7, <2>2
  <1> HIDE DEF my, i, s
  <1>10. ops[i].slot = s /\ ops[i].status = "pending" /\ ops[i] \in OpRows
         /\ ops[i].before = qty[s] /\ ops[i].after = qty[s]
    BY <1>2, <1>4, <1>5
  <1> QED BY <1>1, <1>2, <1>4, <1>5, <1>6, <1>9, <1>10 DEF my, i, s

(* Each commit of an unedited system is a handler of SlotOperations.       *)
LEMMA AnswerIsHandler ==
    ASSUME OneInv, NoManual, NEW q \in Sessions,
           CommitTakeOut(q) \/ CommitReturn(q) \/ CommitCancel(q)
    PROVE  Synced!Next
  <1> DEFINE my == ses[q]  i == my.id  s == my.slot
  <1>1. SesTyped
    BY DEF OneInv
  <1>2. CASE CommitTakeOut(q)
    <2>1. /\ Ready(q, "confirm") /\ qty' = [qty EXCEPT ![s] = my.stock - 1]
          /\ WriteAnswer(my, "confirmed", my.stock, my.stock - 1)
          /\ WriteSlotAndSync(my, "checked_out") /\ my.row.kind = "take_out"
          /\ UNCHANGED <<slotEpc, hasItem>> /\ my.stock > 0
      BY <1>2 DEF CommitTakeOut
    <2>2. my.stock \in Nat /\ my.stock - 1 \in Nat
      BY <1>1, <2>1, ReadyKnows
    <2> DEFINE row == OpRow(ops[i].kind, ops[i].slot, "confirmed", my.stock, my.stock - 1, FALSE)
    <2>3. /\ TypeOK /\ i \in DOMAIN ops /\ ops[i].slot = s /\ s \in Slots
          /\ ops[i] = my.row /\ ops[i].status = "pending"
          /\ my.stock = qty[s] /\ hasItem[s] /\ my.status = slotStatus[s]
      BY <2>1, <2>2, AnswerAsHandler
    <2>4. /\ row \in OpRows /\ row.kind = ops[i].kind /\ row.slot = s
          /\ row.status = "confirmed" /\ row.before = my.stock /\ row.after = my.stock - 1
          /\ row.reconcile = FALSE
      <3>1. row \in OpRows
        BY <2>2, <2>3, OpRowType, RowType DEF OpStatuses
      <3> QED BY <2>3, <3>1 DEF OpRow
    <2> HIDE DEF row
    <2>5. ops' = [ops EXCEPT ![i] = row]
      <3>1. row.reconcile = ("confirmed" = "cancelled" /\ ops[i].reconcile)
        BY <2>4
      <3> QED BY <2>1, <2>2, <2>4, <3>1, AnswerAsHandler
    <2>6. ops' = Synced!Answered(i, qty[s], qty[s] - 1)
      BY <2>3, <2>5 DEF Synced!Answered, Synced!OpRow, OpRow, row
    <2>7. Synced!SetSlotAndSync(s, "checked_out")
      BY <2>1, <2>3, WritesAsHandler
    <2>8. qty' = [qty EXCEPT ![s] = @ - 1]
      BY <2>1, <2>3 DEF TypeOK
    <2>9. Synced!ConfirmTakeOut(i)
      BY <2>1, <2>3, <2>6, <2>7, <2>8 DEF Synced!ConfirmTakeOut, Synced!Pending
    <2> QED BY <2>3, <2>9 DEF Synced!Next, Synced!Answer
  <1>3. CASE CommitReturn(q)
    <2> DEFINE after == StockAfterReturn(my.stock, my.arg, my.row.reconcile)
               new == IF after > 0 THEN "occupied" ELSE "empty"
               row == OpRow(ops[i].kind, ops[i].slot, "confirmed", my.stock, after, FALSE)
    <2>1. /\ Ready(q, "confirm") /\ qty' = [qty EXCEPT ![s] = Column(@, my.stock, after)]
          /\ WriteAnswer(my, "confirmed", my.stock, after)
          /\ WriteSlotAndSync(my, new) /\ my.row.kind = "return" /\ after <= MaxQty
          /\ UNCHANGED <<slotEpc, hasItem>>
      BY <1>3 DEF CommitReturn
    <2>2. my.stock \in Nat /\ my.arg \in Nat /\ my.row.reconcile \in BOOLEAN
      BY <1>1, <2>1, ReadyKnows DEF OpRows
    <2>a. my.arg \in 0..MaxConsumed
      BY <1>1, <2>1, ReadyKnows DEF TypedAs
    <2>b. after \in Nat
      BY <2>2, StockAfterReturnType
    <2>3. /\ TypeOK /\ i \in DOMAIN ops /\ ops[i].slot = s /\ s \in Slots
          /\ ops[i] = my.row /\ ops[i].status = "pending"
          /\ my.stock = qty[s] /\ hasItem[s] /\ my.status = slotStatus[s]
      BY <2>1, <2>2, <2>b, AnswerAsHandler
    <2>c. after = Synced!StockAfterReturn(qty[s], my.arg, ops[i].reconcile)
      BY <2>3 DEF Synced!StockAfterReturn, StockAfterReturn
    <2> HIDE DEF after
    <2>4. /\ row \in OpRows /\ row.kind = ops[i].kind /\ row.slot = s
          /\ row.status = "confirmed" /\ row.before = my.stock /\ row.after = after
          /\ row.reconcile = FALSE
      <3>1. row \in OpRows
        BY <2>2, <2>3, <2>b, OpRowType, RowType DEF OpStatuses
      <3> QED BY <2>3, <3>1 DEF OpRow
    <2> HIDE DEF row
    <2>5. ops' = [ops EXCEPT ![i] = row]
      <3>1. row.reconcile = ("confirmed" = "cancelled" /\ ops[i].reconcile)
        BY <2>4
      <3> QED BY <2>1, <2>2, <2>b, <2>4, <3>1, AnswerAsHandler
    <2>6. ops' = Synced!Answered(i, qty[s], after)
      BY <2>3, <2>5 DEF Synced!Answered, Synced!OpRow, OpRow, row
    <2>7. Synced!SetSlotAndSync(s, IF after > 0 THEN "occupied" ELSE "empty")
      BY <2>1, <2>3, WritesAsHandler
    <2>8. qty' = [qty EXCEPT ![s] = after]
      BY <2>1, <2>3 DEF TypeOK, Column
    <2>9. Synced!ConfirmReturn(i, my.arg)
      BY <2>1, <2>3, <2>c, <2>6, <2>7, <2>8 DEF Synced!ConfirmReturn, Synced!Pending
    <2> QED BY <2>a, <2>3, <2>9 DEF Synced!Next, Synced!Answer
  <1>4. CASE CommitCancel(q)
    <2> DEFINE new == IF my.row.kind = "return" THEN "return_unregistered"
                      ELSE IF my.has /\ my.stock > 0 THEN "checkout_unregistered"
                      ELSE "empty"
               row == [ops[i] EXCEPT !.status = "cancelled"]
    <2>1. /\ Ready(q, "cancel") /\ UNCHANGED <<slotEpc, hasItem, qty>>
          /\ WriteAnswer(my, "cancelled", my.row.before, my.row.after)
          /\ WriteSlotAndSync(my, new)
      BY <1>4 DEF CommitCancel
    <2>2. my.row.before \in Nat /\ my.row.after \in Nat
      BY <1>1, <2>1, ReadyKnows DEF OpRows
    <2>3. /\ TypeOK /\ i \in DOMAIN ops /\ ops[i].slot = s /\ s \in Slots /\ ops[i] \in OpRows
          /\ ops[i] = my.row /\ ops[i].status = "pending"
          /\ ops[i].kind \in {"take_out", "return"}
          /\ my.stock = qty[s] /\ hasItem[s] /\ my.has /\ my.status = slotStatus[s]
      BY <2>1, <2>2, AnswerAsHandler
    <2>4. /\ row \in OpRows /\ row.kind = ops[i].kind /\ row.slot = s
          /\ row.status = "cancelled" /\ row.before = my.row.before
          /\ row.after = my.row.after /\ row.reconcile = ops[i].reconcile
      BY <2>3 DEF OpRows, OpStatuses
    <2> HIDE DEF row
    <2>5. ops' = [ops EXCEPT ![i] = row]
      <3>1. row.reconcile = ("cancelled" = "cancelled" /\ ops[i].reconcile)
        BY <2>3, <2>4 DEF OpRows
      <3> QED BY <2>1, <2>2, <2>4, <3>1, AnswerAsHandler
    <2>6. ops' = [ops EXCEPT ![i] = [@ EXCEPT !.status = "cancelled"]]
      BY <2>5 DEF row
    <2>7. Synced!SetSlotAndSync(s, new)
      BY <2>1, <2>3, WritesAsHandler
    <2>8. new = IF ops[i].kind = "take_out" THEN Synced!AfterDeniedTakeOut(s)
                ELSE "return_unregistered"
      BY <2>3 DEF Synced!AfterDeniedTakeOut
    <2> HIDE DEF new
    <2>9. Synced!Cancel(i)
      BY <2>1, <2>3, <2>6, <2>7, <2>8 DEF Synced!Cancel, Synced!Pending
    <2> QED BY <2>3, <2>9 DEF Synced!Next, Synced!Answer
  <1> QED BY <1>2, <1>3, <1>4

LEMMA WatchdogIsHandler ==
    ASSUME OneInv, NoManual, NEW q \in Sessions,
           CommitDisappear(q) \/ CommitAppear(q)
    PROVE  Synced!Next
  <1> DEFINE my == ses[q]  s == my.slot
  <1>1. /\ s \in Slots /\ hasItem[s] /\ ~HasPending(s)
        /\ my.status = slotStatus[s] /\ my.stock = qty[s]
        /\ CommitAppear(q) => my.status \in {"checked_out", "checkout_unregistered"}
    BY WatchdogCommit
  <1>2. TypeOK /\ slotEpc[s] # NoEpc
    BY <1>1, SessionAssumption, EpcAssumption
    DEF OneInv, SesTyped, SesTypeOK, SlotsAgree, SlotsKeep
  <1>3. PresenceApplies(s) /\ UNCHANGED <<slotEpc, hasItem, qty>>
    BY <1>1, <1>2 DEF PresenceApplies, CommitDisappear, CommitAppear
  <1>4. ASSUME NEW new, WriteSlotAndSync(my, new) PROVE Synced!SetSlotAndSync(s, new)
    BY <1>1, <1>2, <1>4, WritesAsHandler
  <1>5. CASE CommitDisappear(q) /\ my.status = "return_unregistered"
    <2>1. WriteSlotAndSync(my, "checked_out") /\ ops' = ops
      BY <1>5 DEF CommitDisappear
    <2>2. Synced!LeaveUnregistered(s)
      BY <1>1, <1>3, <1>4, <1>5, <2>1 DEF Synced!LeaveUnregistered, Synced!PresenceApplies,
           Synced!HasPending, Synced!LogOp, Synced!OpRow, PresenceApplies,
           HasPending, LogOp, OpRow
    <2> QED BY <1>1, <2>2 DEF Synced!Next, Synced!Presence
  <1>6. CASE CommitDisappear(q) /\ my.status # "return_unregistered"
    <2>1. /\ WriteSlotAndSync(my, "pending_checkout") /\ my.status = "occupied" /\ my.stock > 0
          /\ LogOp(OpRow("take_out", s, "pending", my.stock, my.stock, FALSE))
      BY <1>6 DEF CommitDisappear
    <2>2. Synced!RequestTakeOut(s)
      BY <1>1, <1>3, <1>4, <2>1 DEF Synced!RequestTakeOut, Synced!PresenceApplies,
           Synced!HasPending, Synced!LogOp, Synced!OpRow, PresenceApplies,
           HasPending, LogOp, OpRow
    <2> QED BY <1>1, <2>2 DEF Synced!Next, Synced!Presence
  <1>7. CASE CommitAppear(q)
    <2>1. /\ WriteSlotAndSync(my, "pending_return")
          /\ LogOp(OpRow("return", s, "pending", my.stock, my.stock,
                         my.status = "checkout_unregistered"))
      BY <1>7 DEF CommitAppear
    <2>2. Synced!RequestReturn(s)
      BY <1>1, <1>3, <1>4, <1>7, <2>1 DEF Synced!RequestReturn, Synced!PresenceApplies,
           Synced!HasPending, Synced!LogOp, Synced!OpRow, PresenceApplies,
           HasPending, LogOp, OpRow
    <2> QED BY <1>1, <2>2 DEF Synced!Next, Synced!Presence
  <1> QED BY <1>5, <1>6, <1>7

(* One operator and the two watchdogs, with any number of slots in a       *)
(* cabinet: as long as no operator edits by hand, each commit does in      *)
(* slots, stock, tags and log exactly what the whole handler would do at   *)
(* that moment, whatever was committed between its statements.  Only the   *)
(* cabinet's status, computed from the other slots and compared with one   *)
(* read earlier, may go stale (_sync_cabinet_status).                      *)
THEOREM ActsAtomicallyButCabinetsHolds ==
    ASSUME OneOperator
    PROVE  SesSpec => ActsAtomicallyButCabinets
  <1>1. OneInv /\ [SesNext]_sesVars => OneInv'
    BY OneInvStays
  <1>2. OneInv /\ [SesNext]_sesVars => [NoEdits => Synced!Next]_vars
    <2> SUFFICES ASSUME OneInv, [SesNext]_sesVars, NoEdits
                 PROVE  Synced!Next \/ UNCHANGED vars
      OBVIOUS
    <2>1. NoManual /\ \A p \in Sessions : ~CommitEdit(p)
      BY DEF NoEdits, NoManual, CommitEdit, Ready
    <2>2. ASSUME NEW p \in Sessions, Commit(p) PROVE Synced!Next
      BY <2>1, <2>2, AnswerIsHandler, WatchdogIsHandler DEF Commit
    <2>3. ASSUME NEW p \in Sessions, Request(p) \/ Select(p) \/ Refuse(p)
          PROVE  UNCHANGED vars
      BY <2>3, RequestCases, SelectCases DEF OneInv, Refuse
    <2> QED BY <2>2, <2>3 DEF SesNext, sesVars
  <1> QED BY <1>1, <1>2, OneInvFirst, PTL DEF SesSpec, ActsAtomicallyButCabinets

-----------------------------------------------------------------------------
(* Any number of operators: no assumption on who answers beside whom.      *)

(* A session that has read operation i as pending and not yet committed.   *)
Holds(my, i) ==
    /\ my.act \in {"confirm", "cancel"} /\ my.id = i
    /\ my.todo = <<>> \/ Head(my.todo) # "op"

(* A session that changes to one that does not hold the operation.         *)
LEMMA SettledStays ==
    ASSUME SesTyped, NEW i, Settled(i), i \in DOMAIN ops', ops'[i] = ops[i],
           NEW p \in Sessions, NEW m \in Requests, ses' = [ses EXCEPT ![p] = m],
           ~Holds(m, i)
    PROVE  Settled(i)'
  <1>1. ses \in [Sessions -> Requests]
    BY DEF SesTyped, SesTypeOK
  <1>2. \A q \in Sessions : ses'[q] = IF q = p THEN m ELSE ses[q]
    BY <1>1
  <1> QED BY <1>2 DEF Settled, Holds

LEMMA IdleHoldsNothing == \A i : ~Holds(Idle, i)
  BY DEF Holds, Idle

(* An answer writes the row of an operation that its session holds.        *)
LEMMA AnswerSpares ==
    ASSUME SesTyped, NEW i, Settled(i), NEW p \in Sessions,
           CommitTakeOut(p) \/ CommitReturn(p) \/ CommitCancel(p)
    PROVE  i \in DOMAIN ops' /\ ops'[i] = ops[i]
  <1>1. TypeOK
    BY DEF SesTyped, SesTypeOK
  <1>2. ASSUME NEW act \in {"confirm", "cancel"}, Ready(p, act),
               NEW status, NEW before, NEW after, WriteAnswer(ses[p], status, before, after)
        PROVE  i \in DOMAIN ops' /\ ops'[i] = ops[i]
    <2>1. ses[p].id # i
      BY <1>2 DEF Ready, Settled
    <2> QED BY <1>1, <1>2, <2>1 DEF WriteAnswer, TypeOK, Settled
  <1> QED BY <1>2 DEF CommitTakeOut, CommitReturn, CommitCancel

(* The other commits add a row at most.                                    *)
LEMMA OthersSpare ==
    ASSUME SesTyped, NEW i \in DOMAIN ops, NEW p \in Sessions,
           CommitEdit(p) \/ CommitDisappear(p) \/ CommitAppear(p)
    PROVE  i \in DOMAIN ops' /\ ops'[i] = ops[i]
  <1>1. ops' = ops \/ \E row : ops' = Append(ops, row)
    BY DEF CommitEdit, CommitDisappear, CommitAppear, LogOp
  <1>2. ASSUME NEW row, ops' = Append(ops, row) PROVE i \in DOMAIN ops' /\ ops'[i] = ops[i]
    <2>1. ops \in Seq(OpRows \cup {row}) /\ row \in OpRows \cup {row}
      BY DEF SesTyped, SesTypeOK, TypeOK
    <2> QED BY <1>2, <2>1
  <1> QED BY <1>1, <1>2

(* However many operators there are: once an operation is answered and the *)
(* requests that had read it as pending are through, no request answers it *)
(* again ("该操作已处理", operation_service.py).  The two answers that      *)
(* AnsweredOnce fails by must overlap between the first one's check and    *)
(* its commit.                                                             *)
THEOREM SettledForGoodHolds == SesSpec => SettledForGood
  <1>1. SesTyped /\ [SesNext]_sesVars => SesTyped'
    BY SesTypedStays
  <1>2. SesTyped /\ [SesNext]_sesVars =>
          [\A i \in 1..MaxOps : Settled(i) => Settled(i)' /\ ops'[i] = ops[i]]_sesVars
    <2> SUFFICES ASSUME SesTyped, SesNext, NEW i \in 1..MaxOps, Settled(i)
                 PROVE  Settled(i)' /\ ops'[i] = ops[i]
      OBVIOUS
    <2>1. i \in DOMAIN ops /\ ops[i].status # "pending" /\ Idle \in Requests
      BY IdleTyped DEF Settled
    <2>2. ASSUME NEW p \in Sessions, Request(p) PROVE Settled(i)' /\ ops'[i] = ops[i]
      <3>1. PICK m \in Requests :
                 /\ ses' = [ses EXCEPT ![p] = m] /\ UNCHANGED vars
                 /\ TypedAs(p, m) /\ Len(m.todo) = 4
        BY <2>2, RequestCases
      <3>2. m.todo # <<>> /\ m.todo \in TodoOf(m.act)
        <4>1. m.todo \in TodoOf(m.act)
          BY <3>1 DEF TypedAs
        <4> DEFINE todo == m.todo
        <4>2. Len(todo) = 4
          BY <3>1
        <4> HIDE DEF todo
        <4>3. todo # <<>>
          BY <4>2
        <4> QED BY <4>1, <4>3 DEF todo
      <3>3. m.act \in {"confirm", "cancel"} => Head(m.todo) = "op"
        BY <3>1, <3>2, TodoStep
      <3>4. ~Holds(m, i)
        BY <3>2, <3>3 DEF Holds
      <3> QED BY <2>1, <3>1, <3>4, SettledStays DEF vars
    <2>3. ASSUME NEW p \in Sessions, Select(p) PROVE Settled(i)' /\ ops'[i] = ops[i]
      <3>1. CASE ses' = [ses EXCEPT ![p] = Idle]
        BY <2>1, <2>3, <3>1, SelectCases, IdleHoldsNothing, SettledStays DEF vars
      <3>2. CASE ~(ses' = [ses EXCEPT ![p] = Idle])
        <4>1. /\ UNCHANGED vars /\ ses[p].todo # <<>>
              /\ Head(ses[p].todo) = "op" => ops[ses[p].id].status = "pending"
          BY <2>3, <3>2, SelectCases
        <4>2. PICK m \in Requests :
                   /\ ses' = [ses EXCEPT ![p] = m]
                   /\ Selected(ses[p], Head(ses[p].todo), m)
          BY <2>3, <3>2, SelectCases
        <4>3. ~(ses[p].act \in {"confirm", "cancel"} /\ ses[p].id = i)
          BY <2>1, <4>1 DEF Settled
        <4>4. ~Holds(m, i)
          BY <4>2, <4>3 DEF Holds, Selected
        <4> QED BY <2>1, <4>1, <4>2, <4>4, SettledStays DEF vars
      <3> QED BY <3>1, <3>2
    <2>4. ASSUME NEW p \in Sessions, Refuse(p) PROVE Settled(i)' /\ ops'[i] = ops[i]
      BY <2>1, <2>4, IdleHoldsNothing, SettledStays DEF Refuse, Close, vars
    <2>5. ASSUME NEW p \in Sessions, Commit(p) PROVE Settled(i)' /\ ops'[i] = ops[i]
      <3>1. i \in DOMAIN ops' /\ ops'[i] = ops[i]
        BY <2>1, <2>5, AnswerSpares, OthersSpare DEF Commit
      <3>2. ses' = [ses EXCEPT ![p] = Idle]
        BY <2>5 DEF Commit, CommitTakeOut, CommitReturn, CommitCancel, CommitEdit,
                    CommitDisappear, CommitAppear, Close
      <3> QED BY <2>1, <3>1, <3>2, IdleHoldsNothing, SettledStays
    <2> QED BY <2>2, <2>3, <2>4, <2>5 DEF SesNext
  <1> QED BY <1>1, <1>2, SesTypedFirst, PTL DEF SesSpec, SettledForGood
=============================================================================
