-------------------------- MODULE OperationsProofs --------------------------
(***************************************************************************)
(* Proofs about Operations, for any slots (finitely many), requests, cache *)
(* keys and bounds.                                                        *)
(***************************************************************************)
EXTENDS Operations, FiniteSetTheorems, WellFoundedInduction, TLAPS

-----------------------------------------------------------------------------
(* First of a set of rows.                                                 *)

LEMMA Least ==
    ASSUME NEW S, S # {}, NEW f \in [S -> Nat]
    PROVE  \E i \in S : \A j \in S : f[i] <= f[j]
<1> DEFINE T == {f[j] : j \in S}
<1>1. T \subseteq Nat /\ T # {}
  OBVIOUS
<1>2. PICK u \in T : \A v \in T : ~ (<<v, u>> \in OpToRel(<, Nat))
  BY <1>1, NatLessThanWellFounded, WFMin
<1>3. ASSUME NEW v \in T PROVE u <= v
  <2>1. u \in Nat /\ v \in Nat
    BY <1>1
  <2>2. ~ (<<v, u>> \in OpToRel(<, Nat))
    BY <1>2
  <2>3. ~ (v < u)
    BY <2>1, <2>2 DEF OpToRel
  <2> QED
    BY <2>1, <2>3
<1>4. PICK i \in S : f[i] = u
  OBVIOUS
<1> QED
  BY <1>3, <1>4

LEMMA Firsts ==
    ASSUME NEW I \in SUBSET Item
    PROVE  IF I = {} THEN First(I) = None ELSE First(I) \in I /\ First(I) # None
<1>1. CASE I = {}
  BY <1>1 DEF First
<1>2. CASE I # {}
  <2> DEFINE f == [i \in I |-> i.order]
  <2>1. f \in [I -> Nat]
    BY DEF Item
  <2>2. \E i \in I : \A j \in I : f[i] <= f[j]
    <3> HIDE DEF f
    <3> QED
      BY <1>2, <2>1, Least
  <2>3. First(I) \in I
    BY <1>2, <2>2 DEF First
  <2> QED
    BY <1>2, <2>3, NoneAssumption
<1> QED
  BY <1>1, <1>2

\* The Big Game that is pointed to.
LEMMA Foremost ==
    ASSUME NEW I \in SUBSET Item, I # {}
    PROVE  (CHOOSE i \in I : \A j \in I :
              \/ Priority(i) < Priority(j)
              \/ Priority(i) = Priority(j) /\ i.order <= j.order) \in I
<1> DEFINE f == [i \in I |-> Priority(i)]
<1>1. \A i \in I : Priority(i) \in Nat
  BY DEF Priority
<1>2. PICK i \in I : \A j \in I : Priority(i) <= Priority(j)
  <2>1. f \in [I -> Nat]
    BY <1>1
  <2>2. \E i \in I : \A j \in I : f[i] <= f[j]
    <3> HIDE DEF f
    <3> QED
      BY <2>1, Least
  <2> QED
    BY <2>2
<1> DEFINE J == {j \in I : Priority(j) = Priority(i)}
           g == [j \in J |-> j.order]
<1>3. g \in [J -> Nat]
  BY DEF Item
<1>4. PICK k \in J : \A j \in J : g[k] <= g[j]
  <2> HIDE DEF g
  <2>1. J # {}
    OBVIOUS
  <2> QED
    BY <1>3, <2>1, Least
<1>5. \A j \in J : k.order <= j.order
  BY <1>4
<1>6. ASSUME NEW j \in I
      PROVE  \/ Priority(k) < Priority(j)
             \/ Priority(k) = Priority(j) /\ k.order <= j.order
  <2>1. Priority(k) = Priority(i)
    OBVIOUS
  <2>2. CASE j \in J
    BY <1>5, <2>1, <2>2
  <2>3. CASE j \notin J
    BY <1>1, <1>2, <2>1, <2>3
  <2> QED
    BY <2>2, <2>3
<1>7. k \in I
  OBVIOUS
<1> QED
  BY <1>6, <1>7

-----------------------------------------------------------------------------
(* Rows.                                                                   *)

Statuses == Claimed \cup {"NEXT", "READY", "CANCELLED"}
InPlay == Claimed \cup {"READY"}
RowsTyped ==
    /\ status \in [Slots -> Statuses]
    /\ round \in [Slots -> Nat]
    /\ order \in [Slots -> Nat]
    /\ due \subseteq Slots
    /\ over \subseteq OverRow
    /\ now \in 0 .. MaxTime /\ changes \in 0 .. MaxChanges
    /\ \A s \in Slots : round[s] <= changes + 1

\* A session is over once, and after that its slot has another one or none; one
\* session is played at a time.
Past ==
    /\ \A o \in over : /\ o.round <= round[o.slot]
                       /\ status[o.slot] \in InPlay => o.round < round[o.slot]
    /\ \A o, p \in over : o.slot = p.slot /\ o.round = p.round => o = p
OneActive == \A s, t \in Active : s = t

RowsInv == RowsTyped /\ Past /\ OneActive

\* How the rows may change.
RowsChange ==
    /\ changes' = changes + 1 /\ now' = now
    /\ \A s \in Slots :
         /\ status'[s] = "READY" /\ round'[s] = round[s] => status[s] = "READY"
         /\ status'[s] \in Claimed => status[s] \in InPlay /\ round'[s] = round[s]
         /\ s \in due' => s \in due \/ status'[s] = "READY"
    /\ over \subseteq over' /\ \A o \in over' \ over : o.at = now

RowStep ==
    \/ \E s \in Slots : \/ Open(s) \/ DeadlinePasses(s) \/ Start(s)
                        \/ \E to \in Claimed : Play(s, to)
                        \/ Finish(s) \/ Cancel(s)
    \/ RepairCountdown

LEMMA CountedSlots == Cardinality(Slots) \in Nat
  BY OperationsAssumption, FS_CardinalityType

LEMMA Counted ==
    ASSUME RowsTyped, changes < MaxChanges, changes' = changes + 1
    PROVE  changes' \in 0 .. MaxChanges /\ \A s \in Slots : round[s] <= changes' + 1
<1>1. MaxChanges \in Nat
  BY OperationsAssumption
<1> QED
  BY <1>1 DEF RowsTyped

\* A registration is opened.
LEMMA Opened ==
    ASSUME RowsInv, NEW s \in Slots, status[s] = "NEXT",
           status' = [status EXCEPT ![s] = "READY"],
           round' = [round EXCEPT ![s] = @ + 1],
           due' = due \ {s}, UNCHANGED <<order, over, now>>,
           changes < MaxChanges, changes' = changes + 1
    PROVE  RowsInv' /\ RowsChange
<1>1. RowsTyped'
  BY Counted DEF RowsInv, RowsTyped, Statuses
<1>2. Past'
  <2>1. \A o \in over : o.slot \in Slots /\ o.round \in Nat
    BY DEF RowsInv, RowsTyped, OverRow
  <2>2. \A t \in Slots : round'[t] = (IF t = s THEN round[t] + 1 ELSE round[t]) /\ round[t] \in Nat
    BY DEF RowsInv, RowsTyped
  <2>3. \A t \in Slots : t # s => status'[t] = status[t]
    BY DEF RowsInv, RowsTyped
  <2> QED
    BY <2>1, <2>2, <2>3 DEF RowsInv, Past, InPlay
<1>3. OneActive'
  BY DEF RowsInv, RowsTyped, OneActive, Active, Claimed
<1>4. RowsChange
  BY DEF RowsInv, RowsTyped, RowsChange, Claimed, InPlay
<1> QED
  BY <1>1, <1>2, <1>3, <1>4 DEF RowsInv

\* A session goes on.
LEMMA GoesOn ==
    ASSUME RowsInv, NEW s \in Slots, NEW to \in Claimed,
           status[s] \in Claimed \/ (status[s] = "READY" /\ Active = {}),
           status' = [status EXCEPT ![s] = to],
           UNCHANGED <<round, order, due, over, now>>,
           changes < MaxChanges, changes' = changes + 1
    PROVE  RowsInv' /\ RowsChange
<1>1. RowsTyped'
  BY Counted DEF RowsInv, RowsTyped, Statuses
<1>2. \A t \in Slots : t # s => status'[t] = status[t]
  BY DEF RowsInv, RowsTyped
<1>3. status'[s] = to /\ status[s] \in InPlay
  BY DEF RowsInv, RowsTyped, InPlay
<1>4. Past'
  <2>1. \A o \in over : o.slot \in Slots
    BY DEF RowsInv, RowsTyped, OverRow
  <2> QED
    BY <1>2, <1>3, <2>1 DEF RowsInv, Past, InPlay
<1>5. OneActive'
  BY <1>2, <1>3 DEF RowsInv, OneActive, Active
<1>6. RowsChange
  BY <1>2, <1>3 DEF RowsInv, RowsTyped, RowsChange, Claimed, InPlay
<1> QED
  BY <1>1, <1>4, <1>5, <1>6 DEF RowsInv

\* A session is over.
LEMMA Closed ==
    ASSUME RowsInv, NEW s \in Slots, status[s] \in InPlay,
           NEW how \in {"FINISHED", "CANCELLED"}, NEW to \in {"NEXT", "CANCELLED"},
           Close(s, how, to)
    PROVE  RowsInv' /\ RowsChange
<1> DEFINE row == [slot |-> s, round |-> round[s], at |-> now, order |-> Last, status |-> how]
<1>1. /\ over' = over \cup {row}
      /\ status' = [status EXCEPT ![s] = to] /\ order' = [order EXCEPT ![s] = Last]
      /\ due' = due \ {s} /\ UNCHANGED <<round, now>>
      /\ changes < MaxChanges /\ changes' = changes + 1
  BY DEF Close, Committed, Changed
<1>2. Last \in Nat
  BY CountedSlots DEF Last, RowsInv, RowsTyped
<1>3. row \in OverRow /\ row.slot = s /\ row.round = round[s] /\ row.at = now
  <2>1. round[s] \in 0 .. MaxChanges + 1
    BY OperationsAssumption DEF RowsInv, RowsTyped
  <2> HIDE DEF Last
  <2> QED
    BY <1>2, <2>1 DEF RowsInv, RowsTyped, OverRow
<1> HIDE DEF row
<1>4. RowsTyped'
  <2>1. status' \in [Slots -> Statuses]
    BY <1>1 DEF RowsInv, RowsTyped, Statuses
  <2>2. order' \in [Slots -> Nat] /\ due' \subseteq Slots /\ over' \subseteq OverRow
    BY <1>1, <1>2, <1>3 DEF RowsInv, RowsTyped
  <2> QED
    BY <1>1, <2>1, <2>2, Counted DEF RowsInv, RowsTyped
<1>5. status'[s] = to /\ \A t \in Slots : t # s => status'[t] = status[t]
  BY <1>1 DEF RowsInv, RowsTyped
<1>6. Past'
  <2>1. \A o \in over : o.slot \in Slots /\ o.round \in Nat
    BY DEF RowsInv, RowsTyped, OverRow
  <2>2. \A t \in Slots : round[t] \in Nat
    BY DEF RowsInv, RowsTyped
  <2>3. \A o \in over : o.slot = s => o.round < round[s]
    BY DEF RowsInv, Past
  <2>4. \A o, p \in over' : o.slot = p.slot /\ o.round = p.round => o = p
    BY <1>1, <1>3, <2>1, <2>2, <2>3 DEF RowsInv, Past
  <2>5. \A o \in over' : /\ o.round <= round'[o.slot]
                         /\ status'[o.slot] \in InPlay => o.round < round'[o.slot]
    BY <1>1, <1>3, <1>5, <2>1, <2>2 DEF RowsInv, Past, InPlay, Claimed
  <2> QED
    BY <2>4, <2>5 DEF Past
<1>7. OneActive'
  BY <1>5 DEF RowsInv, OneActive, Active, Claimed
<1>8. RowsChange
  BY <1>1, <1>3, <1>5 DEF RowsInv, RowsTyped, RowsChange, Claimed, InPlay
<1> QED
  BY <1>4, <1>6, <1>7, <1>8 DEF RowsInv

LEMMA RowSteps ==
    ASSUME RowsInv, RowStep
    PROVE  RowsInv' /\ RowsChange /\ Changed
<1>1. ASSUME NEW s \in Slots, Open(s) PROVE RowsInv' /\ RowsChange /\ Changed
  BY <1>1, Opened DEF Open, Committed, Changed
<1>2. ASSUME NEW s \in Slots, DeadlinePasses(s) PROVE RowsInv' /\ RowsChange /\ Changed
  <2>1. /\ status[s] = "READY" /\ due' = due \cup {s}
        /\ UNCHANGED <<status, round, order, over, now>>
        /\ changes < MaxChanges /\ changes' = changes + 1
    BY <1>2 DEF DeadlinePasses, Changed
  <2>2. RowsInv'
    BY <2>1, Counted DEF RowsInv, RowsTyped, Past, OneActive, Active
  <2>3. RowsChange
    BY <2>1 DEF RowsChange, InPlay
  <2> QED
    BY <1>2, <2>2, <2>3 DEF DeadlinePasses
<1>3. ASSUME NEW s \in Slots, Start(s) PROVE RowsInv' /\ RowsChange /\ Changed
  BY <1>3, GoesOn DEF Start, Committed, Changed, Claimed
<1>4. ASSUME NEW s \in Slots, NEW to \in Claimed, Play(s, to)
      PROVE  RowsInv' /\ RowsChange /\ Changed
  <2>1. status[s] \in Claimed
    BY <1>4 DEF Play, Claimed
  <2> QED
    BY <1>4, <2>1, GoesOn DEF Play, Committed, Changed
<1>5. ASSUME NEW s \in Slots, Finish(s) PROVE RowsInv' /\ RowsChange /\ Changed
  <2>1. PICK to \in {"NEXT", "CANCELLED"} : Close(s, "FINISHED", to)
    BY <1>5 DEF Finish
  <2> QED
    BY <1>5, <2>1, Closed DEF Finish, InPlay, Close, Committed
<1>6. ASSUME NEW s \in Slots, Cancel(s) PROVE RowsInv' /\ RowsChange /\ Changed
  <2>1. PICK to \in {"NEXT", "CANCELLED"} : Close(s, "CANCELLED", to)
    BY <1>6 DEF Cancel
  <2> QED
    BY <1>6, <2>1, Closed DEF Cancel, InPlay, Close, Committed
<1>7. CASE RepairCountdown
  <2>1. /\ due' \subseteq due /\ UNCHANGED <<status, round, order, over, now>>
        /\ changes < MaxChanges /\ changes' = changes + 1
    BY <1>7 DEF RepairCountdown, Committed, Changed
  <2>2. RowsInv'
    BY <2>1, Counted DEF RowsInv, RowsTyped, Past, OneActive, Active
  <2>3. RowsChange
    BY <2>1 DEF RowsChange, InPlay
  <2> QED
    BY <1>7, <2>2, <2>3 DEF RepairCountdown, Committed
<1> QED
  BY <1>1, <1>2, <1>3, <1>4, <1>5, <1>6, <1>7 DEF RowStep

-----------------------------------------------------------------------------
(* Requests.                                                               *)

Req == [at : {"idle", "reading", "spot", "claimed", "terminal", "recheck", "built"},
        key : Keys \cup {None}, todo : SUBSET Queries,
        live : Item \cup {None}, checking : Item \cup {None}, ready : SUBSET Item,
        next : SUBSET Slots, big : SUBSET Item, registration : Item \cup {None},
        queue : SUBSET Slots, healed : BOOLEAN, begun : 0 .. MaxTime, seen : 0 .. MaxChanges,
        steady : SUBSET (Slots \X (0 .. MaxChanges + 1))]

LEMMA RowItems ==
    ASSUME RowsTyped
    PROVE  /\ \A s \in Slots : status[s] \in InPlay => Row(s) \in Item
           /\ \A s \in Slots : /\ Row(s).slot = s /\ Row(s).round = round[s]
                               /\ Row(s).due = (s \in due) /\ Row(s).status = status[s]
<1>1. ASSUME NEW s \in Slots PROVE round[s] \in 0 .. MaxChanges + 1
  BY OperationsAssumption DEF RowsTyped
<1>2. ASSUME NEW s \in Slots, status[s] \in InPlay PROVE Row(s) \in Item
  BY <1>1, <1>2 DEF Row, Item, RowsTyped, InPlay
<1> QED
  BY <1>2 DEF Row

LEMMA RowSets ==
    ASSUME RowsTyped, NEW S \in SUBSET InPlay
    PROVE  /\ Rows(S) \in SUBSET Item
           /\ \A i \in Rows(S) : /\ i.slot \in Slots /\ status[i.slot] \in S
                                 /\ i.status = status[i.slot] /\ i.round = round[i.slot]
                                 /\ i.due = (i.slot \in due)
           /\ \A s \in Slots : status[s] \in S => Row(s) \in Rows(S)
  BY RowItems DEF Rows

LEMMA Found ==
    ASSUME RowsTyped, NEW S \in SUBSET InPlay
    PROVE  /\ FindFirst(S) \in Item \cup {None}
           /\ FindFirst(S) # None =>
                LET i == FindFirst(S)
                IN  /\ i \in Item /\ status[i.slot] \in S
                    /\ i.status = status[i.slot] /\ i.round = round[i.slot]
           /\ (\E s \in Slots : status[s] \in S) => FindFirst(S) # None
<1>1. Rows(S) \in SUBSET Item
  BY RowSets
<1>2. IF Rows(S) = {} THEN FindFirst(S) = None
      ELSE FindFirst(S) \in Rows(S) /\ FindFirst(S) # None
  BY <1>1, Firsts DEF FindFirst
<1>3. (\E s \in Slots : status[s] \in S) => Rows(S) # {}
  BY RowSets
<1> QED
  BY <1>1, <1>2, <1>3, RowSets

LEMMA Candidate ==
    ASSUME NEW I \in SUBSET Item, NEW blocked
    PROVE  /\ RegistrationCandidate(I, blocked) \in I \cup {None}
           /\ RegistrationCandidate(I, blocked) \in Item \cup {None}
           /\ RegistrationCandidate(I, blocked) # None =>
                RegistrationCandidate(I, blocked).slot \notin Big
           /\ RegistrationCandidate(I, blocked) = None =>
                \A i \in I : i.slot \notin Big => ~CanRegister(i, blocked)
<1> DEFINE J == {i \in Standard(I) : CanRegister(i, blocked)}
<1>1. J \in SUBSET Item
  BY DEF Standard
<1>2. RegistrationCandidate(I, blocked) = First(J)
  BY DEF RegistrationCandidate
<1>3. IF J = {} THEN First(J) = None ELSE First(J) \in J /\ First(J) # None
  <2> HIDE DEF J
  <2> QED
    BY <1>1, Firsts
<1>4. \A i \in J : i \in I /\ i.slot \notin Big
  BY DEF Standard
<1>5. \A i \in I : i.slot \notin Big /\ CanRegister(i, blocked) => i \in J
  BY DEF Standard
<1> HIDE DEF J
<1> QED
  BY <1>2, <1>3, <1>4, <1>5

\* What a query adds.
LEMMA Takes ==
    ASSUME RowsTyped, NEW b \in Req, NEW q \in Queries
    PROVE  LET c == Take(b, q)
           IN  /\ c \in Req /\ c.todo = b.todo \ {q}
               /\ c.at = b.at /\ c.key = b.key /\ c.begun = b.begun /\ c.seen = b.seen
               /\ c.steady = b.steady /\ c.healed = b.healed
               /\ c.registration = b.registration /\ c.queue = b.queue
               /\ c.live = IF q = "live" THEN FindFirst({"PLAYING", "WINNER_WINDOW"}) ELSE b.live
               /\ c.checking = IF q = "checking" THEN FindFirst({"CHECKING"}) ELSE b.checking
               /\ c.ready = IF q = "ready" THEN FindQueueReady ELSE b.ready
               /\ c.next = IF q = "slots" THEN FindNextSlots ELSE b.next
<1> DEFINE c0 == [b EXCEPT !.todo = b.todo \ {q}]
<1>1. /\ c0 \in Req /\ c0.todo = b.todo \ {q}
      /\ c0.at = b.at /\ c0.key = b.key /\ c0.begun = b.begun /\ c0.seen = b.seen
      /\ c0.steady = b.steady /\ c0.healed = b.healed
      /\ c0.registration = b.registration /\ c0.queue = b.queue
      /\ c0.live = b.live /\ c0.checking = b.checking /\ c0.ready = b.ready /\ c0.next = b.next
  BY DEF Req
<1>2. Take(b, q) = CASE q = "live" -> [c0 EXCEPT !.live = FindFirst({"PLAYING", "WINNER_WINDOW"})]
                     [] q = "checking" -> [c0 EXCEPT !.checking = FindFirst({"CHECKING"})]
                     [] q = "ready" -> [c0 EXCEPT !.ready = FindQueueReady]
                     [] q = "slots" -> [c0 EXCEPT !.next = FindNextSlots, !.big = FindBigGames]
  BY DEF Take
<1> HIDE DEF c0
<1>3. CASE q = "live"
  <2>1. FindFirst({"PLAYING", "WINNER_WINDOW"}) \in Item \cup {None}
    BY Found DEF InPlay, Claimed
  <2>2. Take(b, q) = [c0 EXCEPT !.live = FindFirst({"PLAYING", "WINNER_WINDOW"})]
    BY <1>2, <1>3
  <2> QED
    BY <1>1, <1>3, <2>1, <2>2 DEF Req
<1>4. CASE q = "checking"
  <2>1. FindFirst({"CHECKING"}) \in Item \cup {None}
    BY Found DEF InPlay, Claimed
  <2>2. Take(b, q) = [c0 EXCEPT !.checking = FindFirst({"CHECKING"})]
    BY <1>2, <1>4
  <2> QED
    BY <1>1, <1>4, <2>1, <2>2 DEF Req
<1>5. CASE q = "ready"
  <2>1. FindQueueReady \in SUBSET Item
    BY RowSets DEF InPlay, FindQueueReady
  <2>2. Take(b, q) = [c0 EXCEPT !.ready = FindQueueReady]
    BY <1>2, <1>5
  <2> QED
    BY <1>1, <1>5, <2>1, <2>2 DEF Req
<1>6. CASE q = "slots"
  <2>1. FindNextSlots \in SUBSET Slots
    BY DEF FindNextSlots
  <2>2. FindBigGames \in SUBSET Item
    BY RowSets DEF InPlay, FindBigGames
  <2>3. Take(b, q) = [c0 EXCEPT !.next = FindNextSlots, !.big = FindBigGames]
    BY <1>2, <1>6
  <2> DEFINE d == [c0 EXCEPT !.next = FindNextSlots, !.big = FindBigGames]
  <2>4. d \in Req
    BY <1>1, <2>1, <2>2 DEF Req
  <2>5. /\ d.todo = c0.todo /\ d.next = FindNextSlots
        /\ d.at = c0.at /\ d.key = c0.key /\ d.begun = c0.begun /\ d.seen = c0.seen
        /\ d.steady = c0.steady /\ d.healed = c0.healed
        /\ d.registration = c0.registration /\ d.queue = c0.queue
        /\ d.live = c0.live /\ d.checking = c0.checking /\ d.ready = c0.ready
    BY <1>1 DEF Req
  <2> HIDE DEF d
  <2>6. Take(b, q) = d
    BY <2>3 DEF d
  <2> QED
    BY <1>1, <1>6, <2>4, <2>5, <2>6
<1> QED
  BY <1>3, <1>4, <1>5, <1>6 DEF Queries

\* What is made of the four queries.
LEMMA Selects ==
    ASSUME NEW b \in Req
    PROVE  LET c == Selected(b)
               blocked == b.live # None \/ b.checking # None
               used == SlotsOf({b.live, b.checking})
               ready == {i \in b.ready : i.slot \notin used}
               candidate == RegistrationCandidate(ready, blocked)
           IN  /\ c \in Req /\ c.todo = b.todo
               /\ c.key = b.key /\ c.begun = b.begun /\ c.seen = b.seen
               /\ c.steady = b.steady /\ c.healed = b.healed
               /\ c.live = b.live /\ c.checking = b.checking /\ c.ready = {} /\ c.next = {}
               /\ c.registration = candidate
               /\ c.queue = ((b.next \ used) \cup SlotsOf(ready)) \ (SlotsOf({candidate}) \cup Big)
               /\ c.at = IF blocked THEN "built" ELSE IF candidate # None THEN "spot" ELSE "claimed"
<1> DEFINE blocked == b.live # None \/ b.checking # None
           used == SlotsOf({b.live, b.checking})
           ready == {i \in b.ready : i.slot \notin used}
           candidate == RegistrationCandidate(ready, blocked)
           queue == ((b.next \ used) \cup SlotsOf(ready)) \ (SlotsOf({candidate}) \cup Big)
           at == CASE blocked -> "built"
                   [] ~ blocked /\ candidate # None -> "spot"
                   [] OTHER -> "claimed"
<1>1. ready \in SUBSET Item
  BY DEF Req
<1>2. candidate \in Item \cup {None}
  <2> HIDE DEF ready
  <2> QED
    BY <1>1, Candidate
<1>3. queue \in SUBSET Slots
  <2>1. SlotsOf(ready) \subseteq Slots
    BY <1>1 DEF SlotsOf, Item
  <2>2. b.next \subseteq Slots
    BY DEF Req
  <2> QED
    BY <2>1, <2>2
<1>4. /\ at \in {"built", "spot", "claimed"}
      /\ at = IF blocked THEN "built" ELSE IF candidate # None THEN "spot" ELSE "claimed"
  OBVIOUS
<1>5. Selected(b) = [b EXCEPT !.registration = candidate, !.queue = queue, !.ready = {},
                              !.next = {}, !.at = at]
  BY DEF Selected
<1> HIDE DEF blocked, used, ready, candidate, queue, at
<1>6. /\ Selected(b).todo = b.todo /\ Selected(b).key = b.key /\ Selected(b).begun = b.begun
      /\ Selected(b).seen = b.seen /\ Selected(b).steady = b.steady /\ Selected(b).healed = b.healed
      /\ Selected(b).live = b.live /\ Selected(b).checking = b.checking
      /\ Selected(b).ready = {} /\ Selected(b).next = {}
      /\ Selected(b).registration = candidate /\ Selected(b).queue = queue /\ Selected(b).at = at
  BY <1>5 DEF Req
<1>7. Selected(b) \in Req
  <2> DEFINE e(c, q, x) == [b EXCEPT !.registration = c, !.queue = q, !.ready = {},
                                    !.next = {}, !.at = x]
  <2>1. \A c \in Item \cup {None}, q \in SUBSET Slots, x \in {"built", "spot", "claimed"} :
          e(c, q, x) \in Req
    BY DEF Req
  <2>2. e(candidate, queue, at) \in Req
    <3> HIDE DEF e
    <3> QED
      BY <1>2, <1>3, <1>4, <2>1
  <2> QED
    BY <1>5, <2>2
<1> QED
  BY <1>4, <1>6, <1>7 DEF blocked, used, ready, candidate, queue

-----------------------------------------------------------------------------
(* What is known of a request.                                             *)

In(i, s) == i # None /\ i.slot = s

\* The clock and the count of changes it has.
ReqTyped(b) ==
    /\ b \in Req
    /\ b.at # "idle" => b.key \in Keys /\ now - b.begun <= MaxBuild
    /\ b.begun <= now /\ b.seen <= changes

\* A session that was there all the time is found, by one of the queries or by
\* a later look.
Shows(b) ==
    /\ b.steady \subseteq Showing
    /\ b.at = "reading" /\ "ready" \notin b.todo =>
         \A p \in b.steady :
           \/ status[p[1]] \in Claimed
           \/ \E i \in b.ready : i.slot = p[1] /\ i.round = p[2] /\ ~ i.due
    /\ b.at = "claimed" => \A p \in b.steady : status[p[1]] \in Claimed
    /\ b.at \in {"terminal", "recheck"} => b.steady = {}
    /\ b.at = "spot" => b.registration # None
    /\ b.at = "built" => b.steady = {} \/ ~ Empty(b)

PlacedOnce(b, s) ==
    \/ In(b.live, s) /\ ~ In(b.checking, s) /\ ~ In(b.registration, s) /\ s \notin b.queue
    \/ ~ In(b.live, s) /\ In(b.checking, s) /\ ~ In(b.registration, s) /\ s \notin b.queue
    \/ ~ In(b.live, s) /\ ~ In(b.checking, s) /\ In(b.registration, s) /\ s \notin b.queue
    \/ ~ In(b.live, s) /\ ~ In(b.checking, s) /\ ~ In(b.registration, s) /\ s \in b.queue
Exact(b) ==
    /\ b.queue \cap Big = {}
    /\ \A s \in Slots \ Big : status[s] # "CANCELLED" => PlacedOnce(b, s)

\* While nothing changes, what was read is what there is.
Same(b) ==
    /\ b.at = "reading" =>
         /\ b.live = IF "live" \in b.todo THEN None ELSE FindFirst({"PLAYING", "WINNER_WINDOW"})
         /\ b.checking = IF "checking" \in b.todo THEN None ELSE FindFirst({"CHECKING"})
         /\ b.ready = IF "ready" \in b.todo THEN {} ELSE FindQueueReady
         /\ b.next = IF "slots" \in b.todo THEN {} ELSE FindNextSlots
    /\ b.at \in {"claimed", "terminal", "recheck"} =>
         /\ Active = {} /\ Empty(b) /\ Exact(b)
         /\ \A i \in b.ready : status[i.slot] # "CANCELLED"
    /\ b.at = "recheck" => b.queue = {}
    /\ b.at = "spot" =>
         /\ b.registration # None /\ b.registration.status = "READY"
         /\ status[b.registration.slot] = "READY" /\ Exact(b)
    /\ b.at = "built" => Empty(b) \/ Exact(b)

\* What was over by the time t is not among what was read.
Unspoiled(i, t) ==
    \A o \in over : o.slot = i.slot /\ o.round = i.round =>
      o.at + (IF i.status = "FINISHED" THEN Display ELSE 0) >= t
Fresh(b) ==
    \A i \in b.ready \cup ({b.live, b.checking, b.registration} \ {None}) : Unspoiled(i, b.begun)

ReqInv(b) == ReqTyped(b) /\ Shows(b) /\ (b.seen = changes => Same(b)) /\ Fresh(b)

LEMMA ShowingIs ==
    \A p \in Showing : /\ p[1] \in Slots /\ p[2] = round[p[1]]
                       /\ \/ status[p[1]] \in Claimed
                          \/ status[p[1]] = "READY" /\ p[1] \notin Big \cup due
  BY DEF Showing

\* A session of a slot in play is not over.
LEMMA RowsUnspoiled ==
    ASSUME RowsInv, NEW S \in SUBSET InPlay, NEW i \in Rows(S), NEW t
    PROVE  Unspoiled(i, t)
<1>1. i.slot \in Slots /\ status[i.slot] \in InPlay /\ i.round = round[i.slot]
  BY RowSets DEF RowsInv
<1>2. \A o \in over : o.slot = i.slot => o.round < round[i.slot]
  BY <1>1 DEF RowsInv, Past
<1>3. \A o \in over : o.round \in Int
  BY DEF RowsInv, RowsTyped, OverRow
<1>4. round[i.slot] \in Int
  BY <1>1 DEF RowsInv, RowsTyped
<1> QED
  BY <1>1, <1>2, <1>3, <1>4 DEF Unspoiled

LEMMA FoundUnspoiled ==
    ASSUME RowsInv, NEW S \in SUBSET InPlay, NEW t, FindFirst(S) # None
    PROVE  Unspoiled(FindFirst(S), t)
<1>1. FindFirst(S) \in Rows(S)
  <2>1. Rows(S) \in SUBSET Item
    BY RowSets DEF RowsInv
  <2> QED
    BY <2>1, Firsts DEF FindFirst
<1> QED
  BY <1>1, RowsUnspoiled

-----------------------------------------------------------------------------
(* The steps of a request.                                                 *)

LEMMA Begins ==
    ASSUME now \in 0 .. MaxTime, NEW k \in Keys, NEW h \in BOOLEAN, NEW n \in 0 .. MaxChanges,
           NEW S \in SUBSET (Slots \X (0 .. MaxChanges + 1))
    PROVE  LET b == Begin(k, h, n, S)
           IN  /\ b \in Req /\ b.at = "reading" /\ b.key = k /\ b.todo = Queries /\ b.begun = now
               /\ b.healed = h /\ b.seen = n /\ b.steady = S
               /\ b.live = None /\ b.checking = None /\ b.registration = None
               /\ b.ready = {} /\ b.next = {}
<1> DEFINE b == Begin(k, h, n, S)
           c == [Nothing EXCEPT !.at = "reading", !.key = k, !.todo = Queries]
           d == [c EXCEPT !.begun = now, !.healed = h]
           e == [d EXCEPT !.seen = n, !.steady = S]
<1>1. 0 \in 0 .. MaxTime /\ 0 \in 0 .. MaxChanges
  BY OperationsAssumption
<1>2. Nothing \in Req
  BY <1>1 DEF Nothing, Req
<1>3. c \in Req
  BY <1>2 DEF Req
<1>4. d \in Req
  <2> HIDE DEF c
  <2> QED
    BY <1>3 DEF Req
<1>5. e \in Req
  <2> HIDE DEF d
  <2> QED
    BY <1>4 DEF Req
<1>6. b = e
  BY DEF Begin, Nothing
<1>7. /\ b.at = "reading" /\ b.key = k /\ b.todo = Queries /\ b.begun = now
      /\ b.healed = h /\ b.seen = n /\ b.steady = S
      /\ b.live = None /\ b.checking = None /\ b.registration = None
      /\ b.ready = {} /\ b.next = {}
  BY DEF Begin, Nothing
<1> QED
  BY <1>5, <1>6, <1>7

LEMMA ShowingTyped == RowsInv => Showing \in SUBSET (Slots \X (0 .. MaxChanges + 1))
<1> SUFFICES ASSUME RowsInv PROVE Showing \in SUBSET (Slots \X (0 .. MaxChanges + 1))
  OBVIOUS
<1>1. \A s \in Slots : round[s] \in 0 .. MaxChanges + 1
  BY OperationsAssumption DEF RowsInv, RowsTyped
<1> QED
  BY <1>1 DEF Showing

LEMMA Starts ==
    ASSUME RowsInv
    PROVE  /\ ReqInv(Nothing)
           /\ \A k \in Keys, h \in BOOLEAN : ReqInv(Begin(k, h, changes, Showing))
<1>1. Showing \in SUBSET (Slots \X (0 .. MaxChanges + 1))
  BY ShowingTyped
<1>2. now \in 0 .. MaxTime /\ changes \in 0 .. MaxChanges /\ 0 \in 0 .. MaxTime /\ 0 \in 0 .. MaxChanges
      /\ MaxBuild \in Nat
  BY OperationsAssumption DEF RowsInv, RowsTyped
<1>3. /\ Nothing \in Req /\ Nothing.at = "idle" /\ Nothing.begun = 0 /\ Nothing.seen = 0
      /\ Nothing.steady = {} /\ Nothing.ready = {} /\ Nothing.live = None
      /\ Nothing.checking = None /\ Nothing.registration = None /\ Nothing.next = {}
  BY <1>2 DEF Nothing, Req
<1>4. ReqInv(Nothing)
  <2> HIDE DEF Nothing
  <2>1. ReqTyped(Nothing)
    BY <1>2, <1>3 DEF ReqTyped
  <2>2. Shows(Nothing)
    BY <1>3 DEF Shows
  <2>3. Same(Nothing)
    BY <1>3 DEF Same
  <2>4. Fresh(Nothing)
    BY <1>3 DEF Fresh
  <2> QED
    BY <2>1, <2>2, <2>3, <2>4 DEF ReqInv
<1>5. ASSUME NEW k \in Keys, NEW h \in BOOLEAN
      PROVE  ReqInv(Begin(k, h, changes, Showing))
  <2> DEFINE b == Begin(k, h, changes, Showing)
  <2>1. /\ b \in Req /\ b.at = "reading" /\ b.key = k /\ b.todo = Queries /\ b.begun = now
        /\ b.healed = h /\ b.seen = changes /\ b.steady = Showing
        /\ b.live = None /\ b.checking = None /\ b.registration = None
        /\ b.ready = {} /\ b.next = {}
    BY <1>1, <1>2, Begins
  <2> HIDE DEF b
  <2>2. ReqTyped(b)
    BY <1>2, <2>1 DEF ReqTyped
  <2>3. Shows(b)
    BY <2>1 DEF Shows, Queries
  <2>4. Same(b)
    BY <2>1 DEF Same, Queries
  <2>5. Fresh(b)
    BY <2>1 DEF Fresh
  <2> QED
    BY <2>2, <2>3, <2>4, <2>5 DEF ReqInv, b
<1> QED
  BY <1>4, <1>5

\* A request begins anew with the change it has made.
LEMMA Restarts ==
    ASSUME RowsInv', now' = now, NEW k \in Keys, NEW h \in BOOLEAN,
           NEW n, n = changes', NEW S, S = Showing', NEW c, c = Begin(k, h, n, S)
    PROVE  ReqInv(c)'
<1>1. now' \in 0 .. MaxTime /\ changes' \in 0 .. MaxChanges /\ MaxBuild \in Nat
  BY OperationsAssumption DEF RowsInv, RowsTyped
<1>2. Showing' \in SUBSET (Slots \X (0 .. MaxChanges + 1))
  <2>1. \A s \in Slots : round'[s] \in 0 .. MaxChanges + 1
    BY OperationsAssumption DEF RowsInv, RowsTyped
  <2> QED
    BY <2>1 DEF Showing
<1>3. /\ c \in Req /\ c.at = "reading" /\ c.key = k /\ c.todo = Queries /\ c.begun = now'
      /\ c.seen = changes' /\ c.steady = Showing'
      /\ c.live = None /\ c.checking = None /\ c.registration = None
      /\ c.ready = {} /\ c.next = {}
  <2>1. n \in 0 .. MaxChanges /\ S \in SUBSET (Slots \X (0 .. MaxChanges + 1))
    BY <1>1, <1>2
  <2>2. now \in 0 .. MaxTime
    BY <1>1
  <2> QED
    BY <2>1, <2>2, Begins
<1>4. ReqTyped(c)'
  <2>1. c \in Req /\ c.key \in Keys /\ c.begun <= now' /\ c.seen <= changes'
    BY <1>1, <1>3
  <2>2. now' - c.begun <= MaxBuild
    BY <1>1, <1>3
  <2> QED
    BY <2>1, <2>2 DEF ReqTyped
<1>q. \A q \in {"live", "checking", "ready", "slots"} : q \in c.todo
  BY <1>3 DEF Queries
<1>5. Shows(c)'
  <2>1. c.steady \subseteq Showing' /\ "ready" \in c.todo /\ c.at = "reading"
    BY <1>3, <1>q
  <2> QED
    BY <2>1 DEF Shows
<1>6. Same(c)'
  <2>1. /\ c.at = "reading" /\ "ready" \in c.todo /\ "live" \in c.todo /\ "slots" \in c.todo
        /\ "checking" \in c.todo
        /\ c.live = None /\ c.checking = None /\ c.ready = {} /\ c.next = {}
    BY <1>3, <1>q
  <2> QED
    BY <2>1 DEF Same
<1>7. Fresh(c)'
  BY <1>3 DEF Fresh
<1> QED
  BY <1>4, <1>5, <1>6, <1>7 DEF ReqInv

LEMMA Reads ==
    ASSUME RowsInv, NEW b, ReqInv(b), b.at \in {"reading", "recheck"}, NEW q \in Queries,
           q \in b.todo
    PROVE  ReqInv(Take(b, q))
<1> DEFINE c == Take(b, q)
           first(S) == FindFirst(S)
<1>1. RowsTyped /\ b \in Req
  BY DEF RowsInv, ReqInv, ReqTyped
<1>2. /\ c \in Req /\ c.todo = b.todo \ {q}
      /\ c.at = b.at /\ c.key = b.key /\ c.begun = b.begun /\ c.seen = b.seen
      /\ c.steady = b.steady /\ c.healed = b.healed
      /\ c.registration = b.registration /\ c.queue = b.queue
      /\ c.live = IF q = "live" THEN FindFirst({"PLAYING", "WINNER_WINDOW"}) ELSE b.live
      /\ c.checking = IF q = "checking" THEN FindFirst({"CHECKING"}) ELSE b.checking
      /\ c.ready = IF q = "ready" THEN FindQueueReady ELSE b.ready
      /\ c.next = IF q = "slots" THEN FindNextSlots ELSE b.next
  BY <1>1, Takes
<1> HIDE DEF c
<1>3. ReqTyped(c)
  BY <1>2 DEF ReqInv, ReqTyped
<1>4. Shows(c)
  <2>1. b.steady \subseteq Showing /\ (b.at = "recheck" => b.steady = {})
    BY DEF ReqInv, Shows
  <2>2. ASSUME c.at = "reading", "ready" \notin c.todo, NEW p \in c.steady
        PROVE  \/ status[p[1]] \in Claimed
               \/ \E i \in c.ready : i.slot = p[1] /\ i.round = p[2] /\ ~ i.due
    <3>1. CASE q = "ready"
      <4>1. /\ p[1] \in Slots /\ p[2] = round[p[1]]
            /\ \/ status[p[1]] \in Claimed
               \/ status[p[1]] = "READY" /\ p[1] \notin Big \cup due
        BY <1>2, <2>1, <2>2, ShowingIs
      <4>2. status[p[1]] = "READY" => Row(p[1]) \in c.ready
        BY <1>1, <1>2, <3>1, <4>1, RowSets DEF FindQueueReady, InPlay
      <4>3. /\ Row(p[1]).slot = p[1] /\ Row(p[1]).round = p[2]
            /\ p[1] \notin due => ~ Row(p[1]).due
        BY <1>1, <4>1, RowItems
      <4> QED
        BY <4>1, <4>2, <4>3
    <3>2. CASE q # "ready"
      BY <1>2, <2>2, <3>2 DEF ReqInv, Shows
    <3> QED
      BY <3>1, <3>2
  <2> QED
    BY <1>2, <2>1, <2>2 DEF Shows
<1>5. ASSUME c.seen = changes PROVE Same(c)
  <2>1. Same(b)
    BY <1>2, <1>5 DEF ReqInv
  <2>2. CASE b.at = "reading"
    BY <1>2, <2>1, <2>2 DEF Same
  <2>3. CASE b.at = "recheck"
    <3>1. Active = {} /\ Empty(b) /\ Exact(b) /\ b.queue = {}
          /\ \A i \in b.ready : status[i.slot] # "CANCELLED"
      BY <2>1, <2>3 DEF Same
    <3>2. FindFirst({"PLAYING", "WINNER_WINDOW"}) = None
      BY <1>1, <3>1, Found DEF InPlay, Claimed, Active, Item
    <3>3. FindFirst({"CHECKING"}) = None
      BY <1>1, <3>1, Found DEF InPlay, Claimed, Active, Item
    <3>4. Empty(c) /\ c.live = b.live /\ c.checking = b.checking
      BY <1>2, <3>1, <3>2, <3>3 DEF Empty
    <3>5. Exact(c)
      BY <1>2, <3>1, <3>4 DEF Exact, PlacedOnce
    <3>6. \A i \in c.ready : status[i.slot] # "CANCELLED"
      <4>1. \A i \in FindQueueReady : status[i.slot] = "READY"
        BY <1>1, RowSets DEF FindQueueReady, InPlay
      <4> QED
        BY <1>2, <3>1, <4>1
    <3> QED
      BY <1>2, <2>3, <3>1, <3>4, <3>5, <3>6 DEF Same
  <2> QED
    BY <2>2, <2>3
<1>6. Fresh(c)
  <2> SUFFICES ASSUME NEW i \in c.ready \cup ({c.live, c.checking, c.registration} \ {None})
               PROVE  Unspoiled(i, c.begun)
    BY DEF Fresh
  <2>1. CASE i \in b.ready \cup ({b.live, b.checking, b.registration} \ {None})
    BY <1>2, <2>1 DEF ReqInv, Fresh
  <2>2. CASE i \in FindQueueReady
    BY <2>2, RowsUnspoiled DEF FindQueueReady, InPlay
  <2>3. CASE i = FindFirst({"PLAYING", "WINNER_WINDOW"}) /\ i # None
    BY <2>3, FoundUnspoiled DEF InPlay, Claimed
  <2>4. CASE i = FindFirst({"CHECKING"}) /\ i # None
    BY <2>4, FoundUnspoiled DEF InPlay, Claimed
  <2> QED
    BY <1>2, <2>1, <2>2, <2>3, <2>4
<1> QED
  BY <1>3, <1>4, <1>5, <1>6 DEF ReqInv, c

\* The four queries have answered.
LEMMA Selecting ==
    ASSUME RowsInv, NEW b, ReqInv(b), b.at = "reading", b.todo = {}
    PROVE  ReqInv(Selected(b))
<1> DEFINE c == Selected(b)
           blocked == b.live # None \/ b.checking # None
           used == SlotsOf({b.live, b.checking})
           ready == {i \in b.ready : i.slot \notin used}
           candidate == RegistrationCandidate(ready, blocked)
<1>1. RowsTyped /\ b \in Req
  BY DEF RowsInv, ReqInv, ReqTyped
<1>2. /\ c \in Req /\ c.todo = b.todo
      /\ c.key = b.key /\ c.begun = b.begun /\ c.seen = b.seen
      /\ c.steady = b.steady /\ c.healed = b.healed
      /\ c.live = b.live /\ c.checking = b.checking /\ c.ready = {} /\ c.next = {}
      /\ c.registration = candidate
      /\ c.queue = ((b.next \ used) \cup SlotsOf(ready)) \ (SlotsOf({candidate}) \cup Big)
      /\ c.at = IF blocked THEN "built" ELSE IF candidate # None THEN "spot" ELSE "claimed"
  BY <1>1, Selects
<1>3. /\ candidate \in ready \cup {None}
      /\ candidate # None => candidate.slot \notin Big
      /\ candidate = None => \A i \in ready : i.slot \notin Big => ~ CanRegister(i, blocked)
  <2>1. ready \in SUBSET Item
    BY <1>1 DEF Req
  <2> HIDE DEF ready, blocked
  <2> QED
    BY <2>1, Candidate
<1>4. ready \subseteq b.ready /\ b.ready \subseteq Item /\ (~ blocked => ready = b.ready)
  <2>1. b.ready \subseteq Item
    BY <1>1 DEF Req
  <2>2. ~ blocked => used = {}
    BY DEF SlotsOf
  <2> QED
    BY <2>1, <2>2
<1>u. /\ \A s : s \in used <=> In(b.live, s) \/ In(b.checking, s)
      /\ \A s : s \in SlotsOf({candidate}) <=> In(candidate, s)
      /\ \A s : s \in SlotsOf(ready) <=> \E i \in ready : i # None /\ i.slot = s
  BY DEF SlotsOf, In
<1>v. \A i \in ready : i.slot \notin used
  OBVIOUS
<1> HIDE DEF c, used, ready, candidate
<1>5. ReqTyped(c)
  BY <1>2 DEF ReqInv, ReqTyped
<1>6. Shows(c)
  <2>1. /\ b.steady \subseteq Showing
        /\ \A p \in b.steady :
             \/ status[p[1]] \in Claimed
             \/ \E i \in b.ready : i.slot = p[1] /\ i.round = p[2] /\ ~ i.due
    BY DEF ReqInv, Shows
  <2>2. ASSUME ~ blocked, candidate = None, NEW p \in b.steady
        PROVE  status[p[1]] \in Claimed
    <3> SUFFICES ASSUME status[p[1]] \notin Claimed PROVE FALSE
      OBVIOUS
    <3>1. PICK i \in b.ready : i.slot = p[1] /\ i.round = p[2] /\ ~ i.due
      BY <2>1
    <3>2. p[1] \notin Big \cup due
      BY <2>1, ShowingIs
    <3>3. CanRegister(i, blocked)
      BY <3>1, <3>2 DEF CanRegister
    <3> QED
      BY <1>3, <1>4, <2>2, <3>1, <3>2, <3>3
  <2> QED
    BY <1>2, <2>1, <2>2 DEF Shows, Empty
<1>7. ASSUME c.seen = changes PROVE Same(c)
  <2>1. /\ b.live = FindFirst({"PLAYING", "WINNER_WINDOW"})
        /\ b.checking = FindFirst({"CHECKING"})
        /\ b.ready = FindQueueReady /\ b.next = FindNextSlots
    BY <1>2, <1>7 DEF ReqInv, Same
  <2>2. /\ b.live # None => /\ b.live.slot \in Slots
                            /\ status[b.live.slot] \in {"PLAYING", "WINNER_WINDOW"}
        /\ (\E s \in Slots : status[s] \in {"PLAYING", "WINNER_WINDOW"}) => b.live # None
    BY <1>1, <2>1, Found DEF InPlay, Claimed, Item
  <2>3. /\ b.checking # None => b.checking.slot \in Slots /\ status[b.checking.slot] = "CHECKING"
        /\ (\E s \in Slots : status[s] = "CHECKING") => b.checking # None
    BY <1>1, <2>1, Found DEF InPlay, Claimed, Item
  <2>4. \A i \in b.ready : /\ i.slot \in Slots /\ i.status = "READY" /\ status[i.slot] = "READY"
    BY <1>1, <2>1, RowSets DEF FindQueueReady, InPlay
  <2>5. \A s \in Slots : s \in b.next <=> status[s] \in {"NEXT", "READY"}
    BY <2>1 DEF FindNextSlots
  <2>6. ~ blocked <=> Active = {}
    BY <2>2, <2>3 DEF Active, Claimed
  <2>7. candidate # None => /\ candidate.slot \in Slots /\ candidate.status = "READY"
                            /\ status[candidate.slot] = "READY"
    BY <1>3, <1>4, <2>4
  <2>8. Exact(c)
    <3>1. c.queue \cap Big = {}
      BY <1>2
    <3>2. ASSUME NEW s \in Slots \ Big, status[s] \in Claimed PROVE PlacedOnce(c, s)
      <4>1. ~ In(candidate, s)
        BY <2>7, <3>2 DEF In, Claimed
      <4>2. \A t \in Slots : status[t] \in Claimed => t = s
        BY <3>2 DEF RowsInv, OneActive, Active
      <4>3. CASE status[s] = "CHECKING"
        <5>1. In(b.checking, s)
          BY <2>3, <4>2, <4>3 DEF In, Claimed
        <5>2. ~ In(b.live, s)
          BY <2>2, <4>3 DEF In
        <5> QED
          BY <1>2, <1>u, <1>v, <4>1, <5>1, <5>2 DEF PlacedOnce
      <4>4. CASE status[s] # "CHECKING"
        <5>1. In(b.live, s)
          BY <2>2, <3>2, <4>2, <4>4 DEF In, Claimed
        <5>2. ~ In(b.checking, s)
          BY <2>3, <4>4 DEF In
        <5> QED
          BY <1>2, <1>u, <1>v, <4>1, <5>1, <5>2 DEF PlacedOnce
      <4> QED
        BY <4>3, <4>4
    <3>3. ASSUME NEW s \in Slots \ Big, status[s] \in {"NEXT", "READY"} PROVE PlacedOnce(c, s)
      <4>1. ~ In(b.live, s) /\ ~ In(b.checking, s)
        BY <2>2, <2>3, <3>3 DEF In
      <4>2. s \in b.next /\ s \notin used
        BY <1>u, <2>5, <3>3, <4>1
      <4>3. s \in c.queue <=> ~ In(candidate, s)
        BY <1>2, <1>u, <4>2
      <4> QED
        BY <1>2, <4>1, <4>3 DEF PlacedOnce
    <3>4. \A s \in Slots : status[s] \in Claimed \cup {"NEXT", "READY", "CANCELLED"}
      BY <1>1 DEF RowsTyped, Statuses
    <3> QED
      BY <3>1, <3>2, <3>3, <3>4 DEF Exact
  <2> QED
    BY <1>2, <2>6, <2>7, <2>8 DEF Same, Empty
<1>8. Fresh(c)
  BY <1>2, <1>3, <1>4 DEF ReqInv, Fresh
<1> QED
  BY <1>5, <1>6, <1>7, <1>8 DEF ReqInv, c

\* The session that was chosen for registration has started meanwhile, or not.
LEMMA Spotted ==
    ASSUME RowsInv, NEW b, ReqInv(b), b.at = "spot",
           NEW c,
           LET i == Spot(b.registration)
               d == [b EXCEPT !.at = "built"]
           IN  c = CASE i.status \in {"PLAYING", "WINNER_WINDOW"} ->
                          [d EXCEPT !.live = i, !.registration = None]
                     [] i.status = "CHECKING" ->
                          [d EXCEPT !.checking = i, !.registration = None]
                     [] OTHER -> d
    PROVE  ReqInv(c)
<1> DEFINE i == Spot(b.registration)
           d == [b EXCEPT !.at = "built"]
<1>1. RowsTyped /\ b \in Req /\ b.registration # None /\ b.registration \in Item
  BY DEF RowsInv, ReqInv, ReqTyped, Shows, Req
<1>2. i \in Item /\ (i = b.registration \/ i \in Rows(Claimed))
  BY <1>1, RowItems, RowSets DEF Spot, Item, InPlay
<1>3. i # None
  BY <1>2, NoneAssumption
<1>4. \A t : Unspoiled(b.registration, b.begun) => Unspoiled(i, b.begun)
  BY <1>2, RowsUnspoiled DEF InPlay
<1>5. /\ d \in Req /\ d.at = "built" /\ d.key = b.key /\ d.begun = b.begun /\ d.seen = b.seen
      /\ d.steady = b.steady /\ d.live = b.live /\ d.checking = b.checking
      /\ d.registration = b.registration /\ d.ready = b.ready /\ d.queue = b.queue
  BY <1>1 DEF Req
<1>6. \/ c = [d EXCEPT !.live = i, !.registration = None]
      \/ c = [d EXCEPT !.checking = i, !.registration = None]
      \/ c = d
  OBVIOUS
<1>7. b.registration.status = "READY" /\ status[b.registration.slot] = "READY" => c = d
  BY <1>1 DEF Spot, Claimed
<1> HIDE DEF i, d
<1>8. /\ c \in Req /\ c.at = "built" /\ c.key = b.key /\ c.begun = b.begun /\ c.seen = b.seen
      /\ c.steady = b.steady /\ c.ready = b.ready
      /\ ~ Empty(c)
      /\ {c.live, c.checking, c.registration} \subseteq
           {b.live, b.checking, b.registration, None, i}
  <2>1. CASE c = [d EXCEPT !.live = i, !.registration = None]
    <3>1. c.live = i /\ c.checking = d.checking /\ c.registration = None
      BY <1>5, <2>1 DEF Req
    <3> QED
      BY <1>2, <1>3, <1>5, <2>1, <3>1 DEF Req, Empty
  <2>2. CASE c = [d EXCEPT !.checking = i, !.registration = None]
    <3>1. c.checking = i /\ c.live = d.live /\ c.registration = None
      BY <1>5, <2>2 DEF Req
    <3> QED
      BY <1>2, <1>3, <1>5, <2>2, <3>1 DEF Req, Empty
  <2>3. CASE c = d
    BY <1>1, <1>5, <2>3 DEF Empty
  <2> QED
    BY <1>6, <2>1, <2>2, <2>3
<1>9. ReqTyped(c)
  BY <1>8 DEF ReqInv, ReqTyped
<1>10. Shows(c)
  BY <1>8 DEF ReqInv, Shows
<1>11. ASSUME c.seen = changes PROVE Same(c)
  <2>1. c = d /\ Exact(b)
    BY <1>7, <1>8, <1>11 DEF ReqInv, Same
  <2>2. Exact(c)
    BY <1>5, <2>1 DEF Exact, PlacedOnce
  <2> QED
    BY <1>8, <2>2 DEF Same
<1>12. Fresh(c)
  BY <1>1, <1>4, <1>8 DEF ReqInv, Fresh
<1> QED
  BY <1>9, <1>10, <1>11, <1>12 DEF ReqInv

\* A slot in play that the queries missed.
LEMMA ClaimedFound ==
    ASSUME RowsInv, NEW b, ReqInv(b), b.at = "claimed",
           NEW c,
           LET i == FindFirst(Claimed)
           IN  c = CASE i = None -> [b EXCEPT !.at = "terminal"]
                     [] i # None /\ i.status = "CHECKING" ->
                          [b EXCEPT !.checking = i, !.at = "built"]
                     [] OTHER -> [b EXCEPT !.live = i, !.at = "built"]
    PROVE  ReqInv(c)
<1> DEFINE i == FindFirst(Claimed)
<1>1. RowsTyped /\ b \in Req
  BY DEF RowsInv, ReqInv, ReqTyped
<1>2. /\ i \in Item \cup {None}
      /\ i = None <=> Active = {}
      /\ i # None => Unspoiled(i, b.begun)
  <2>1. /\ i \in Item \cup {None}
        /\ i # None => i \in Item /\ status[i.slot] \in Claimed
        /\ (\E s \in Slots : status[s] \in Claimed) => i # None
    BY <1>1, Found DEF InPlay
  <2>2. i # None => Unspoiled(i, b.begun)
    BY FoundUnspoiled DEF InPlay
  <2> QED
    BY <2>1, <2>2 DEF Active, Item
<1>3. CASE i = None
  <2>1. c = [b EXCEPT !.at = "terminal"]
    BY <1>3
  <2>2. /\ c \in Req /\ c.at = "terminal" /\ c.key = b.key /\ c.begun = b.begun /\ c.seen = b.seen
        /\ c.steady = b.steady /\ c.ready = b.ready /\ c.queue = b.queue
        /\ c.live = b.live /\ c.checking = b.checking /\ c.registration = b.registration
    BY <1>1, <2>1 DEF Req
  <2>3. Shows(c)
    <3>1. \A p \in b.steady : p[1] \in Slots /\ status[p[1]] \in Claimed
      BY ShowingIs DEF ReqInv, Shows
    <3>2. b.steady = {}
      BY <1>2, <1>3, <3>1 DEF Active
    <3> QED
      BY <2>2, <3>2 DEF ReqInv, Shows
  <2>4. ReqTyped(c) /\ Fresh(c)
    BY <2>2 DEF ReqInv, ReqTyped, Fresh
  <2>5. c.seen = changes => Same(c)
    BY <2>2 DEF ReqInv, Same, Empty, Exact, PlacedOnce
  <2> QED
    BY <2>3, <2>4, <2>5 DEF ReqInv
<1>4. CASE i # None
  <2>1. c = [b EXCEPT !.checking = i, !.at = "built"] \/ c = [b EXCEPT !.live = i, !.at = "built"]
    BY <1>4
  <2> HIDE DEF i
  <2>2. /\ c \in Req /\ c.at = "built" /\ c.key = b.key /\ c.begun = b.begun /\ c.seen = b.seen
        /\ c.steady = b.steady /\ c.ready = b.ready
        /\ ~ Empty(c)
        /\ {c.live, c.checking, c.registration} \subseteq
             {b.live, b.checking, b.registration, None, i}
    <3>1. CASE c = [b EXCEPT !.checking = i, !.at = "built"]
      <4>1. c \in Req
        BY <1>1, <1>2, <3>1 DEF Req
      <4>2. /\ c.at = "built" /\ c.key = b.key /\ c.begun = b.begun /\ c.seen = b.seen
            /\ c.steady = b.steady /\ c.ready = b.ready
            /\ c.live = b.live /\ c.checking = i /\ c.registration = b.registration
        BY <1>1, <3>1 DEF Req
      <4> QED
        BY <1>4, <4>1, <4>2 DEF Empty
    <3>2. CASE c = [b EXCEPT !.live = i, !.at = "built"]
      <4>1. c \in Req
        BY <1>1, <1>2, <3>2 DEF Req
      <4>2. /\ c.at = "built" /\ c.key = b.key /\ c.begun = b.begun /\ c.seen = b.seen
            /\ c.steady = b.steady /\ c.ready = b.ready
            /\ c.live = i /\ c.checking = b.checking /\ c.registration = b.registration
        BY <1>1, <3>2 DEF Req
      <4> QED
        BY <1>4, <4>1, <4>2 DEF Empty
    <3> QED
      BY <2>1, <3>1, <3>2
  <2>3. ReqTyped(c)
    BY <2>2 DEF ReqInv, ReqTyped
  <2>4. Shows(c)
    BY <2>2 DEF ReqInv, Shows
  <2>5. c.seen # changes
    BY <1>2, <1>4, <2>2 DEF ReqInv, Same
  <2>6. Fresh(c)
    BY <1>2, <1>4, <2>2 DEF ReqInv, Fresh
  <2> QED
    BY <2>3, <2>4, <2>5, <2>6 DEF ReqInv
<1> QED
  BY <1>3, <1>4

LEMMA ReqClock ==
    ASSUME NEW b, ReqInv(b)
    PROVE  b.begun \in Int /\ b.begun <= now
  BY OperationsAssumption DEF ReqInv, ReqTyped, Req

\* A result is shown for as long as it is on display.
LEMMA RecentUnspoiled ==
    ASSUME RowsInv, NEW o \in RecentTerminal, NEW t \in Int, t <= now,
           NEW i, i.slot = o.slot, i.round = o.round, i.status = "FINISHED"
    PROVE  Unspoiled(i, t)
<1>1. o \in over /\ o \in OverRow /\ now - o.at <= Display
  BY DEF RecentTerminal, RowsInv, RowsTyped
<1>2. \A p \in over : p.slot = o.slot /\ p.round = o.round => p = o
  BY <1>1 DEF RowsInv, Past
<1>3. now \in Int /\ o.at \in Int /\ Display \in Int
  BY <1>1, OperationsAssumption DEF RowsInv, RowsTyped, OverRow
<1>4. o.at + Display >= t
  BY <1>1, <1>3
<1> QED
  BY <1>2, <1>4 DEF Unspoiled

\* A round that ended a moment ago, a queue without a game, or a second look.
LEMMA TerminalFound ==
    ASSUME RowsInv, NEW b, ReqInv(b), b.at = "terminal",
           NEW c,
           \/ \E o \in RecentTerminal :
                c = [b EXCEPT
                  !.live = [slot |-> o.slot, round |-> o.round, due |-> FALSE,
                            order |-> order[o.slot], status |-> "FINISHED"],
                  !.queue = @ \ {o.slot}, !.at = "built"]
           \/ c = IF b.queue = {} THEN [b EXCEPT !.at = "recheck", !.todo = Rechecks]
                  ELSE [b EXCEPT !.at = "built"]
    PROVE  ReqInv(c)
<1>1. RowsTyped /\ b \in Req /\ b.steady = {}
  BY DEF RowsInv, ReqInv, ReqTyped, Shows
<1>2. ASSUME NEW o \in RecentTerminal,
             c = [b EXCEPT
               !.live = [slot |-> o.slot, round |-> o.round, due |-> FALSE,
                         order |-> order[o.slot], status |-> "FINISHED"],
               !.queue = @ \ {o.slot}, !.at = "built"]
      PROVE  ReqInv(c)
  <2> DEFINE i == [slot |-> o.slot, round |-> o.round, due |-> FALSE,
                   order |-> order[o.slot], status |-> "FINISHED"]
  <2>1. o \in over /\ o \in OverRow /\ now - o.at <= Display
    BY <1>1 DEF RecentTerminal, RowsTyped
  <2>2. i \in Item /\ i.slot = o.slot /\ i.round = o.round /\ i.status = "FINISHED"
    BY <1>1, <2>1 DEF Item, OverRow, RowsTyped
  <2>3. i # None
    BY <2>2, NoneAssumption
  <2>4. Unspoiled(i, b.begun)
    <3> HIDE DEF i
    <3>1. b.begun \in Int /\ b.begun <= now
      BY ReqClock
    <3> QED
      BY <2>2, <3>1, RecentUnspoiled
  <2>5. c = [b EXCEPT !.live = i, !.queue = b.queue \ {o.slot}, !.at = "built"]
    BY <1>2
  <2> HIDE DEF i
  <2>6. /\ c.at = "built" /\ c.key = b.key /\ c.begun = b.begun /\ c.seen = b.seen
        /\ c.steady = b.steady /\ c.ready = b.ready /\ c.queue = b.queue \ {o.slot}
        /\ c.live = i /\ c.checking = b.checking /\ c.registration = b.registration
    BY <1>1, <2>5 DEF Req
  <2>7. c \in Req
    <3>1. b.queue \ {o.slot} \in SUBSET Slots
      BY <1>1 DEF Req
    <3> QED
      BY <1>1, <2>2, <2>5, <3>1 DEF Req
  <2>8. ReqTyped(c)
    BY <2>6, <2>7 DEF ReqInv, ReqTyped
  <2>9. Shows(c)
    BY <1>1, <2>3, <2>6 DEF Shows, Empty
  <2>10. ASSUME c.seen = changes PROVE Same(c)
    <3>1. Empty(b) /\ Exact(b)
      BY <2>6, <2>10 DEF ReqInv, Same
    <3>2. Exact(c)
      BY <2>2, <2>3, <2>6, <3>1 DEF Exact, PlacedOnce, In, Empty
    <3> QED
      BY <2>6, <3>2 DEF Same
  <2>11. Fresh(c)
    BY <2>4, <2>6 DEF ReqInv, Fresh
  <2> QED
    BY <2>8, <2>9, <2>10, <2>11 DEF ReqInv
<1>3. ASSUME NEW x \in {"recheck", "built"}, NEW T \in SUBSET Queries,
             c = [b EXCEPT !.at = x, !.todo = T], x = "recheck" => b.queue = {}
      PROVE  ReqInv(c)
  <2>1. /\ c \in Req /\ c.at = x /\ c.key = b.key /\ c.begun = b.begun /\ c.seen = b.seen
        /\ c.steady = b.steady /\ c.ready = b.ready /\ c.queue = b.queue
        /\ c.live = b.live /\ c.checking = b.checking /\ c.registration = b.registration
    BY <1>1, <1>3 DEF Req
  <2>2. ReqTyped(c) /\ Fresh(c)
    BY <2>1 DEF ReqInv, ReqTyped, Fresh
  <2>3. Shows(c)
    BY <1>1, <2>1 DEF Shows
  <2>4. ASSUME c.seen = changes PROVE Same(c)
    <3>1. /\ Empty(b) /\ Exact(b) /\ Active = {}
          /\ \A i \in b.ready : status[i.slot] # "CANCELLED"
      BY <2>1, <2>4 DEF ReqInv, Same
    <3>2. Empty(c) /\ Exact(c)
      BY <2>1, <3>1 DEF Empty, Exact, PlacedOnce
    <3> QED
      BY <1>3, <2>1, <3>1, <3>2 DEF Same
  <2> QED
    BY <2>2, <2>3, <2>4 DEF ReqInv
<1>4. [b EXCEPT !.at = "built"] = [b EXCEPT !.at = "built", !.todo = b.todo]
  BY <1>1 DEF Req
<1>5. b.todo \in SUBSET Queries /\ Rechecks \in SUBSET Queries
  BY <1>1 DEF Req, Queries, Rechecks
<1> QED
  BY <1>2, <1>3, <1>4, <1>5

\* The second look has answered.
LEMMA Recovering ==
    ASSUME RowsInv, NEW b, ReqInv(b), b.at = "recheck"
    PROVE  ReqInv(Recovered(b))
<1> DEFINE open == RegistrationCandidate(b.ready, FALSE)
           ch == IF b.live = None THEN b.checking ELSE None
           reg == IF b.live = None /\ b.checking = None THEN open ELSE None
           c == Recovered(b)
<1>1. RowsTyped /\ b \in Req /\ b.steady = {} /\ b.ready \in SUBSET Item
  BY DEF RowsInv, ReqInv, ReqTyped, Shows, Req
<1>2. open \in b.ready \cup {None} /\ open \in Item \cup {None}
      /\ (open # None => open.slot \notin Big)
  BY <1>1, Candidate
<1>3. c = [b EXCEPT !.checking = ch, !.registration = reg, !.ready = {}, !.at = "built"]
  BY DEF Recovered
<1>4. ch \in {b.checking, None} /\ reg \in {open, None} /\ (Empty(b) => ch = None)
  BY DEF Empty
<1> HIDE DEF open, ch, reg, c
<1>5. /\ c \in Req /\ c.at = "built" /\ c.key = b.key /\ c.begun = b.begun /\ c.seen = b.seen
      /\ c.steady = b.steady /\ c.ready = {} /\ c.queue = b.queue
      /\ c.live = b.live /\ c.checking = ch /\ c.registration = reg
  BY <1>1, <1>2, <1>3, <1>4 DEF Req
<1>6. ReqTyped(c)
  BY <1>5 DEF ReqInv, ReqTyped
<1>7. Shows(c)
  BY <1>1, <1>5 DEF Shows
<1>8. ASSUME c.seen = changes PROVE Same(c)
  <2>1. /\ Empty(b) /\ Exact(b) /\ b.queue = {}
        /\ \A i \in b.ready : status[i.slot] # "CANCELLED"
    BY <1>5, <1>8 DEF ReqInv, Same
  <2>2. open = None
    <3> SUFFICES ASSUME open # None PROVE FALSE
      OBVIOUS
    <3>1. /\ open.slot \in Slots \ Big /\ status[open.slot] # "CANCELLED"
      BY <1>2, <2>1 DEF Item
    <3> QED
      BY <2>1, <3>1 DEF Exact, PlacedOnce, In, Empty
  <2>3. Empty(c)
    BY <1>4, <1>5, <2>1, <2>2 DEF Empty
  <2> QED
    BY <1>5, <2>3 DEF Same
<1>9. Fresh(c)
  BY <1>2, <1>4, <1>5 DEF ReqInv, Fresh
<1> QED
  BY <1>6, <1>7, <1>8, <1>9 DEF ReqInv, c

-----------------------------------------------------------------------------
(* What the other steps leave of it.                                       *)

LEMMA SameRows ==
    ASSUME UNCHANGED rows
    PROVE  /\ \A S : FindFirst(S)' = FindFirst(S)
           /\ FindQueueReady' = FindQueueReady /\ FindNextSlots' = FindNextSlots
           /\ Showing' = Showing /\ Active' = Active
<1>1. ASSUME NEW S PROVE Rows(S)' = Rows(S)
  <2>1. \A s : Row(s)' = Row(s)
    BY DEF Row, rows
  <2> QED
    BY <2>1 DEF Rows, rows
<1>2. ASSUME NEW S PROVE FindFirst(S)' = FindFirst(S)
  BY <1>1 DEF FindFirst
<1>3. FindQueueReady' = FindQueueReady
  BY <1>1 DEF FindQueueReady
<1> QED
  BY <1>2, <1>3 DEF FindNextSlots, Showing, Active, rows

\* Time passes, or nothing that requests are about.
LEMMA Unmoved ==
    ASSUME RowsInv, UNCHANGED <<rows, changes>>, NEW b, ReqInv(b),
           \/ now' = now
           \/ now' = now + 1 /\ (b.at = "idle" \/ now - b.begun < MaxBuild)
    PROVE  ReqInv(b)'
<1>1. /\ \A S : FindFirst(S)' = FindFirst(S)
      /\ FindQueueReady' = FindQueueReady /\ FindNextSlots' = FindNextSlots
      /\ Showing' = Showing /\ Active' = Active
  BY SameRows
<1>2. status' = status /\ round' = round /\ due' = due /\ over' = over /\ changes' = changes
  BY DEF rows
<1>3. ReqTyped(b)'
  <2>1. b \in Req /\ b.begun \in Int /\ now \in Int /\ MaxBuild \in Int
    BY OperationsAssumption DEF ReqInv, ReqTyped, Req, RowsInv, RowsTyped
  <2> QED
    BY <1>2, <2>1 DEF ReqInv, ReqTyped
<1>4. Shows(b)'
  BY <1>1, <1>2 DEF ReqInv, Shows
<1>5. (b.seen = changes => Same(b))'
  <2>1. b.seen = changes => Same(b)
    BY DEF ReqInv
  <2>2. FindFirst({"PLAYING", "WINNER_WINDOW"})' = FindFirst({"PLAYING", "WINNER_WINDOW"})
        /\ FindFirst({"CHECKING"})' = FindFirst({"CHECKING"})
    BY <1>1
  <2> QED
    BY <1>1, <1>2, <2>1, <2>2 DEF Same, Exact
<1>6. Fresh(b)'
  BY <1>2 DEF ReqInv, Fresh, Unspoiled
<1> QED
  BY <1>3, <1>4, <1>5, <1>6 DEF ReqInv

\* The rows change: what was there all the time may be there no longer.
LEMMA Survives ==
    ASSUME RowsInv, RowsInv', RowsChange, NEW b, ReqInv(b),
           NEW c, c = [b EXCEPT !.steady = @ \cap Showing']
    PROVE  ReqInv(c)'
<1>1. b \in Req /\ b.begun \in Int /\ b.seen \in Int /\ b.seen <= changes /\ b.begun <= now
      /\ now \in Int /\ changes \in Int /\ Display \in Nat
  BY OperationsAssumption DEF ReqInv, ReqTyped, Req, RowsInv, RowsTyped
<1>2. /\ c \in Req /\ c.at = b.at /\ c.todo = b.todo
      /\ c.key = b.key /\ c.begun = b.begun /\ c.seen = b.seen
      /\ c.ready = b.ready /\ c.live = b.live /\ c.checking = b.checking
      /\ c.registration = b.registration
      /\ c.steady = b.steady \cap Showing'
  <2> DEFINE S == b.steady \cap Showing'
  <2>1. S \in SUBSET (Slots \X (0 .. MaxChanges + 1)) /\ c = [b EXCEPT !.steady = S]
    BY <1>1 DEF Req
  <2> HIDE DEF S
  <2> QED
    BY <1>1, <2>1 DEF Req, S
<1>3. changes' = changes + 1 /\ now' = now
  BY DEF RowsChange
<1>4. ReqTyped(c)'
  BY <1>1, <1>2, <1>3 DEF ReqInv, ReqTyped
<1>5. Shows(c)'
  <2>1. ASSUME NEW p \in c.steady
        PROVE  p \in b.steady /\ (status[p[1]] \in Claimed => status'[p[1]] \in Claimed)
    <3>1. p \in b.steady /\ p \in Showing'
      BY <1>2, <2>1
    <3>2. p[1] \in Slots /\ p[2] = round[p[1]]
      BY <3>1, ShowingIs DEF ReqInv, Shows
    <3>3. p[2] = round'[p[1]] /\ (status'[p[1]] \in Claimed \/ status'[p[1]] = "READY")
      BY <3>1 DEF Showing
    <3>4. status'[p[1]] = "READY" => status[p[1]] = "READY"
      BY <3>2, <3>3 DEF RowsChange
    <3> QED
      BY <3>1, <3>3, <3>4 DEF Claimed
  <2> QED
    BY <1>2, <2>1 DEF ReqInv, Shows, Empty
<1>6. c.seen # changes'
  BY <1>1, <1>2, <1>3
<1>7. Fresh(c)'
  <2> SUFFICES ASSUME NEW i \in c.ready \cup ({c.live, c.checking, c.registration} \ {None}),
                      NEW o \in over', o.slot = i.slot, o.round = i.round
               PROVE  o.at + (IF i.status = "FINISHED" THEN Display ELSE 0) >= c.begun
    BY DEF Fresh, Unspoiled
  <2>1. CASE o \in over
    BY <1>2, <2>1 DEF ReqInv, Fresh, Unspoiled
  <2>2. CASE o \notin over
    <3>1. o.at = now
      BY <2>2 DEF RowsChange
    <3> QED
      BY <1>1, <1>2, <3>1
  <2> QED
    BY <2>1, <2>2
<1> QED
  BY <1>4, <1>5, <1>6, <1>7 DEF ReqInv

LEMMA Carried ==
    ASSUME NEW r, NEW c, req'[r] = c, ReqInv(c)'
    PROVE  ReqInv(req[r])'
  BY DEF ReqInv, ReqTyped, Shows, Same, Exact, PlacedOnce, In, Fresh, Unspoiled, Empty

-----------------------------------------------------------------------------
(* Answers and memories.                                                   *)

MemoryTyped ==
    /\ unannounced \in BOOLEAN
    /\ cache \in [key : Keys, payload : Snapshot, until : Nat] \cup {None}
    /\ recent \in [Keys -> [at : 0 .. MaxTime, payload : Snapshot] \cup {None}]

\* What is cached was built a moment before it was stored.
CacheFresh ==
    cache # None =>
      /\ cache.until <= now + Ttl
      /\ cache.payload.state # "handoff" =>
           \A i \in Shown(cache.payload) : Unspoiled(i, cache.until - (Ttl + MaxBuild))

IInv ==
    /\ RowsInv /\ MemoryTyped /\ CacheFresh
    /\ req \in [Requests -> Req]
    /\ \A r \in Requests : ReqInv(req[r])

LEMMA Sends ==
    ASSUME NEW i \in Item \cup {None}
    PROVE  /\ Sent(i) \in SentItem \cup {None}
           /\ Sent(i) = None <=> i = None
           /\ i # None => /\ Sent(i).slot = i.slot /\ Sent(i).round = i.round
                          /\ Sent(i).status = i.status
<1>1. CASE i = None
  BY <1>1 DEF Sent
<1>2. CASE i # None
  <2>1. Sent(i) = [slot |-> i.slot, round |-> i.round, status |-> i.status] /\ i \in Item
    BY <1>2 DEF Sent
  <2>2. Sent(i) \in SentItem
    BY <2>1 DEF Item, SentItem
  <2> QED
    BY <1>2, <2>1, <2>2, NoneAssumption
<1> QED
  BY <1>1, <1>2

LEMMA Points ==
    ASSUME NEW b \in Req
    PROVE  BigGameLiveElsewhere(b) \in (Slots \X {"live", "held"}) \cup {None}
<1> DEFINE best == CHOOSE i \in b.big : \A j \in b.big :
                     \/ Priority(i) < Priority(j)
                     \/ Priority(i) = Priority(j) /\ i.order <= j.order
<1>1. b.big \in SUBSET Item
  BY DEF Req
<1>2. b.big # {} => best \in b.big
  <2> DEFINE I == b.big
  <2>1. I \in SUBSET Item
    BY <1>1
  <2>2. I # {} => (CHOOSE i \in I : \A j \in I :
                     \/ Priority(i) < Priority(j)
                     \/ Priority(i) = Priority(j) /\ i.order <= j.order) \in I
    <3> HIDE DEF I
    <3> QED
      BY <2>1, Foremost
  <2> QED
    BY <2>2
<1>3. b.big # {} => best.slot \in Slots
  <2> HIDE DEF best
  <2> QED
    BY <1>1, <1>2 DEF Item
<1>4. \/ BigGameLiveElsewhere(b) = None
      \/ b.big # {} /\ \E x \in {"live", "held"} : BigGameLiveElsewhere(b) = <<best.slot, x>>
  BY DEF BigGameLiveElsewhere
<1> HIDE DEF best
<1> QED
  BY <1>3, <1>4

LEMMA Results ==
    ASSUME NEW b \in Req
    PROVE  LET a == Result(b)
           IN  /\ a \in Snapshot /\ a.queue = b.queue
               /\ a.live = Sent(b.live) /\ a.checking = Sent(b.checking)
               /\ a.registration = Sent(b.registration)
               /\ a.state = "active" => ~ Empty(b)
               /\ Empty(a) <=> Empty(b)
<1>1. /\ b.live \in Item \cup {None} /\ b.checking \in Item \cup {None}
      /\ b.registration \in Item \cup {None} /\ b.queue \in SUBSET Slots
  BY DEF Req
<1> DEFINE l == Sent(b.live)
           ch == Sent(b.checking)
           reg == Sent(b.registration)
           el == BigGameLiveElsewhere(b)
           st == IF ~ Empty(b) THEN "active" ELSE IF b.queue # {} THEN "handoff" ELSE "idle"
<1>2. /\ l \in SentItem \cup {None} /\ ch \in SentItem \cup {None} /\ reg \in SentItem \cup {None}
      /\ (l = None <=> b.live = None) /\ (ch = None <=> b.checking = None)
      /\ (reg = None <=> b.registration = None)
  BY <1>1, Sends
<1>3. el \in (Slots \X {"live", "held"}) \cup {None}
  BY Points
<1>4. st \in {"active", "handoff", "idle"} /\ (st = "active" => ~ Empty(b))
  OBVIOUS
<1>5. Result(b) = [live |-> l, checking |-> ch, registration |-> reg, queue |-> b.queue,
                   elsewhere |-> el, state |-> st]
  BY DEF Result
<1> HIDE DEF l, ch, reg, el, st
<1>6. /\ Result(b).live = l /\ Result(b).checking = ch /\ Result(b).registration = reg
      /\ Result(b).queue = b.queue /\ Result(b).state = st
  BY <1>5
<1>7. Result(b) \in Snapshot
  BY <1>1, <1>2, <1>3, <1>4, <1>5 DEF Snapshot
<1>8. Empty(Result(b)) <=> Empty(b)
  BY <1>2, <1>6 DEF Empty
<1> QED
  BY <1>4, <1>6, <1>7, <1>8 DEF l, ch, reg

LEMMA Stabilizes ==
    ASSUME MemoryTyped, NEW k \in Keys, NEW a \in Snapshot
    PROVE  /\ Stabilized(k, a) \in Snapshot
           /\ Stabilized(k, a).state # "handoff" => Stabilized(k, a) = a
           /\ ~ Empty(a) => Stabilized(k, a) = a
<1>1. CASE Empty(a) /\ Repeatable(k)
  <2>1. recent[k].payload \in Snapshot
    BY <1>1 DEF MemoryTyped, Repeatable
  <2>2. Stabilized(k, a) = [recent[k].payload EXCEPT !.state = "handoff"]
    BY <1>1 DEF Stabilized
  <2>3. \A p \in Snapshot : /\ [p EXCEPT !.state = "handoff"] \in Snapshot
                            /\ [p EXCEPT !.state = "handoff"].state = "handoff"
    BY DEF Snapshot
  <2> QED
    BY <1>1, <2>1, <2>2, <2>3
<1>2. CASE ~ (Empty(a) /\ Repeatable(k))
  BY <1>2 DEF Stabilized
<1> QED
  BY <1>1, <1>2

LEMMA Remembers ==
    ASSUME RowsInv, MemoryTyped, NEW k \in Keys, NEW a \in Snapshot, Remember(k, a)
    PROVE  recent' \in [Keys -> [at : 0 .. MaxTime, payload : Snapshot] \cup {None}]
<1>1. [at |-> now, payload |-> a] \in [at : 0 .. MaxTime, payload : Snapshot]
  BY DEF RowsInv, RowsTyped
<1>2. \/ recent' = recent
      \/ recent' = [recent EXCEPT ![k] = None]
      \/ recent' = [recent EXCEPT ![k] = [at |-> now, payload |-> a]]
  BY DEF Remember
<1> DEFINE m == [at |-> now, payload |-> a]
           M == [at : 0 .. MaxTime, payload : Snapshot]
<1> HIDE DEF m, M
<1>3. m \in M /\ recent \in [Keys -> M \cup {None}]
  BY <1>1 DEF m, M, MemoryTyped
<1>4. recent' = recent \/ recent' = [recent EXCEPT ![k] = None] \/ recent' = [recent EXCEPT ![k] = m]
  BY <1>2 DEF m
<1>5. recent' \in [Keys -> M \cup {None}]
  BY <1>3, <1>4
<1> QED
  BY <1>5 DEF M

\* What is in an answer that is not a repetition was over only shortly before.
LEMMA FreshAnswer ==
    ASSUME MemoryTyped, NEW b, ReqInv(b), b.at = "built",
           NEW i \in Shown(Stabilized(b.key, Result(b))),
           Stabilized(b.key, Result(b)).state # "handoff"
    PROVE  Unspoiled(i, b.begun)
<1>1. b \in Req /\ b.key \in Keys
  BY DEF ReqInv, ReqTyped
<1>2. Result(b) \in Snapshot
  BY <1>1, Results
<1>3. Stabilized(b.key, Result(b)) = Result(b)
  BY <1>1, <1>2, Stabilizes
<1>4. /\ Result(b).live = Sent(b.live) /\ Result(b).checking = Sent(b.checking)
      /\ Result(b).registration = Sent(b.registration)
  BY <1>1, Results
<1>5. /\ b.live \in Item \cup {None} /\ b.checking \in Item \cup {None}
      /\ b.registration \in Item \cup {None}
  BY <1>1 DEF Req
<1>6. PICK j \in {b.live, b.checking, b.registration} : i = Sent(j) /\ i # None
  BY <1>3, <1>4 DEF Shown
<1>7. j # None /\ i.slot = j.slot /\ i.round = j.round /\ i.status = j.status
  BY <1>5, <1>6, Sends
<1>8. Unspoiled(j, b.begun)
  BY <1>6, <1>7 DEF ReqInv, Fresh
<1> QED
  BY <1>7, <1>8 DEF Unspoiled

-----------------------------------------------------------------------------
(* The invariant.                                                          *)

LEMMA RowsStay ==
    ASSUME RowsInv, UNCHANGED <<rows, changes>>, now' \in 0 .. MaxTime
    PROVE  RowsInv'
<1>1. /\ status' = status /\ round' = round /\ order' = order /\ due' = due /\ over' = over
      /\ changes' = changes
  BY DEF rows
<1> QED
  BY <1>1 DEF RowsInv, RowsTyped, Past, OneActive, Active

LEMMA CacheStays ==
    ASSUME RowsInv, MemoryTyped, CacheFresh, cache' = cache,
           \/ over' = over /\ (now' = now \/ now' = now + 1)
           \/ RowsChange
    PROVE  CacheFresh'
<1> SUFFICES ASSUME cache # None PROVE CacheFresh'
  BY DEF CacheFresh
<1>1. now \in Int /\ cache.until \in Int /\ Ttl \in Nat /\ MaxBuild \in Nat /\ Display \in Nat
  BY OperationsAssumption DEF RowsInv, RowsTyped, MemoryTyped
<1>2. cache.until <= now + Ttl /\ (now' = now \/ now' = now + 1)
  BY DEF CacheFresh, RowsChange
<1>3. cache.until <= now' + Ttl
  BY <1>1, <1>2
<1>4. \A o \in over' : o \in over \/ o.at = now
  BY DEF RowsChange
<1>5. ASSUME cache.payload.state # "handoff", NEW i \in Shown(cache.payload)
      PROVE  Unspoiled(i, cache.until - (Ttl + MaxBuild))'
  <2> DEFINE t == cache.until - (Ttl + MaxBuild)
  <2>1. Unspoiled(i, t)
    BY <1>5 DEF CacheFresh
  <2>2. t <= now /\ t \in Int
    BY <1>1, <1>2
  <2>3. t' = t
    OBVIOUS
  <2> HIDE DEF t
  <2> SUFFICES ASSUME NEW o \in over', o.slot = i.slot, o.round = i.round
               PROVE  o.at + (IF i.status = "FINISHED" THEN Display ELSE 0) >= t
    BY <2>3 DEF Unspoiled, t
  <2>4. CASE o \in over
    BY <2>1, <2>4 DEF Unspoiled
  <2>5. CASE o.at = now
    BY <1>1, <2>2, <2>5
  <2> QED
    BY <1>4, <2>4, <2>5
<1> QED
  BY <1>3, <1>5 DEF CacheFresh, Shown

LEMMA OneRequest ==
    ASSUME IInv, NEW r \in Requests, NEW c, ReqInv(c), To(r, c), UNCHANGED <<rows, now, changes>>
    PROVE  /\ RowsInv' /\ (req \in [Requests -> Req])'
           /\ \A q \in Requests : ReqInv(req[q])'
<1>1. c \in Req
  BY DEF ReqInv, ReqTyped
<1>2. RowsInv'
  BY RowsStay DEF IInv, RowsInv, RowsTyped
<1>3. req' \in [Requests -> Req] /\ req'[r] = c /\ \A q \in Requests \ {r} : req'[q] = req[q]
  BY <1>1 DEF IInv, To
<1>4. ASSUME NEW q \in Requests PROVE ReqInv(req[q])'
  <2>1. PICK d : d = req'[q]
    OBVIOUS
  <2>2. ReqInv(d)
    <3>1. CASE q = r
      <4>1. d = c
        BY <1>3, <2>1, <3>1
      <4> QED
        BY <4>1
    <3>2. CASE q # r
      <4>1. d = req[q]
        BY <1>3, <2>1, <3>2
      <4> QED
        BY <4>1 DEF IInv
    <3> QED
      BY <3>1, <3>2
  <2>3. ReqInv(d)'
    BY <2>2, Unmoved DEF IInv
  <2> QED
    BY <2>1, <2>3, Carried
<1>5. Req' = Req
  OBVIOUS
<1> QED
  BY <1>2, <1>3, <1>4, <1>5

LEMMA InitIInv == Init => IInv
<1> SUFFICES ASSUME Init PROVE IInv
  OBVIOUS
<1>1. PICK st \in {"NEXT", "READY", "PLAYING"} :
        status = [s \in Slots |->
          IF s \in Big THEN "READY" ELSE IF s = Min(Slots \ Big) THEN st ELSE "NEXT"]
  BY DEF Init
<1>2. /\ round = [s \in Slots |-> IF status[s] = "NEXT" THEN 0 ELSE 1]
      /\ order = [s \in Slots |-> s] /\ due = {} /\ over = {}
      /\ now = 0 /\ changes = 0 /\ unannounced = FALSE /\ cache = None
      /\ recent = [k \in Keys |-> None] /\ req = [r \in Requests |-> Nothing]
  BY DEF Init
<1>3. 0 \in 0 .. MaxTime /\ 0 \in 0 .. MaxChanges
  BY OperationsAssumption
<1>4. RowsTyped
  <2>1. status \in [Slots -> Statuses]
    BY <1>1 DEF Statuses, Claimed
  <2>2. order \in [Slots -> Nat]
    BY <1>2, OperationsAssumption
  <2> QED
    BY <1>2, <1>3, <2>1, <2>2 DEF RowsTyped
<1>5. OneActive
  <2> DEFINE head == Min(Slots \ Big)
  <2>1. \A s \in Slots : status[s] = IF s \in Big THEN "READY" ELSE IF s = head THEN st ELSE "NEXT"
    BY <1>1
  <2> HIDE DEF head
  <2>2. \A s \in Active : s = head
    BY <2>1 DEF Active, Claimed
  <2> QED
    BY <2>2 DEF OneActive
<1>6. RowsInv
  BY <1>2, <1>4, <1>5 DEF RowsInv, Past
<1>7. MemoryTyped /\ CacheFresh
  BY <1>2 DEF MemoryTyped, CacheFresh
<1>8. ReqInv(Nothing)
  BY <1>6, Starts
<1>9. Nothing \in Req
  BY <1>8 DEF ReqInv, ReqTyped
<1>10. \A r \in Requests : ReqInv(req[r])
  <2>1. \A r \in Requests : req[r] = Nothing
    BY <1>2
  <2> QED
    BY <1>8, <2>1
<1> QED
  BY <1>2, <1>6, <1>7, <1>9, <1>10 DEF IInv

\* The rows change.
LEMMA RowsKeep ==
    ASSUME IInv, RowStep
    PROVE  IInv'
<1>1. RowsInv' /\ RowsChange /\ Changed
  BY RowSteps DEF IInv
<1>2. /\ req' = [r \in Requests |-> [req[r] EXCEPT !.steady = @ \cap Showing']]
      /\ cache' = cache /\ recent' = recent
  BY <1>1 DEF Changed
<1>3. unannounced' \in BOOLEAN
  BY DEF IInv, MemoryTyped, RowStep, Open, DeadlinePasses, Start, Play, Finish, Cancel, Close,
         RepairCountdown, Committed
<1>4. MemoryTyped'
  BY <1>2, <1>3 DEF IInv, MemoryTyped
<1>5. CacheFresh'
  BY <1>1, <1>2, CacheStays DEF IInv
<1>6. ASSUME NEW r \in Requests PROVE ReqInv(req[r])' /\ req'[r] \in Req
  <2>1. PICK b : b = req[r]
    OBVIOUS
  <2>2. PICK c : c = [b EXCEPT !.steady = @ \cap Showing']
    OBVIOUS
  <2>3. ReqInv(b)
    BY <2>1 DEF IInv
  <2>4. ReqInv(c)'
    BY <1>1, <2>2, <2>3, Survives DEF IInv
  <2>5. req'[r] = c
    BY <1>2, <2>1, <2>2
  <2>6. c \in Req
    BY <2>4 DEF ReqInv, ReqTyped
  <2> QED
    BY <2>4, <2>5, <2>6, Carried
<1>7. req' \in [Requests -> Req]
  BY <1>2, <1>6
<1> QED
  BY <1>1, <1>4, <1>5, <1>6, <1>7 DEF IInv

\* An administrator finds a gap and has it closed.
LEMMA HealKeeps ==
    ASSUME IInv, NEW r \in Requests, HealGap(r)
    PROVE  IInv'
<1>1. PICK s \in Slots :
        /\ status[s] = "NEXT"
        /\ status' = [status EXCEPT ![s] = "READY"]
        /\ round' = [round EXCEPT ![s] = round[s] + 1]
        /\ due' = due \ {s}
  BY OperationsAssumption DEF HealGap
<1>2. /\ changes < MaxChanges /\ changes' = changes + 1 /\ order' = order /\ over' = over
      /\ now' = now /\ unannounced' = unannounced /\ recent' = recent /\ cache' = None
      /\ req[r].at = "built"
      /\ req' = [q \in Requests |->
                   IF q = r
                   THEN Begin(req[r].key, TRUE, changes', Showing')
                   ELSE [req[q] EXCEPT !.steady = @ \cap Showing']]
  BY DEF HealGap
<1>3. RowsInv' /\ RowsChange
  BY <1>1, <1>2, Opened DEF IInv
<1>4. MemoryTyped' /\ CacheFresh'
  BY <1>2 DEF IInv, MemoryTyped, CacheFresh
<1>5. ASSUME NEW q \in Requests, q # r PROVE ReqInv(req[q])' /\ req'[q] \in Req
  <2>1. PICK b : b = req[q]
    OBVIOUS
  <2>2. PICK c : c = [b EXCEPT !.steady = @ \cap Showing']
    OBVIOUS
  <2>3. ReqInv(b)
    BY <2>1 DEF IInv
  <2>4. ReqInv(c)'
    BY <1>3, <2>2, <2>3, Survives DEF IInv
  <2>5. req'[q] = c
    BY <1>2, <1>5, <2>1, <2>2
  <2>6. c \in Req
    BY <2>4 DEF ReqInv, ReqTyped
  <2> QED
    BY <2>4, <2>5, <2>6, Carried
<1>6. ReqInv(req[r])' /\ req'[r] \in Req
  <2>1. req[r].key \in Keys
    BY <1>2 DEF IInv, ReqInv, ReqTyped
  <2>2. PICK k \in Keys : k = req[r].key
    BY <2>1
  <2>3. PICK c : c = req'[r]
    OBVIOUS
  <2>4. PICK n : n = changes'
    OBVIOUS
  <2>5. PICK S : S = Showing'
    OBVIOUS
  <2>6. PICK h \in BOOLEAN : h = TRUE
    OBVIOUS
  <2>7. c = Begin(k, h, n, S)
    BY <1>2, <2>2, <2>3, <2>4, <2>5, <2>6
  <2>8. ReqInv(c)'
    BY <1>2, <1>3, <2>4, <2>5, <2>7, Restarts
  <2>9. c \in Req
    BY <2>8 DEF ReqInv, ReqTyped
  <2> QED
    BY <2>3, <2>8, <2>9, Carried
<1>7. req' \in [Requests -> Req]
  BY <1>2, <1>5, <1>6
<1> QED
  BY <1>3, <1>4, <1>5, <1>6, <1>7 DEF IInv

\* A request goes on without an answer.
LEMMA InternalKeeps ==
    ASSUME IInv, NEW r \in Requests, NEW c, ReqInv(c), To(r, c), Internal
    PROVE  IInv'
<1>1. UNCHANGED <<rows, now, changes, unannounced, cache, recent>>
  BY DEF Internal
<1>2. over' = over
  BY <1>1 DEF rows
<1>3. MemoryTyped'
  BY <1>1 DEF IInv, MemoryTyped
<1>4. CacheFresh'
  BY <1>1, <1>2, CacheStays DEF IInv
<1> QED
  BY <1>1, <1>3, <1>4, OneRequest DEF IInv

LEMMA ReadKeeps ==
    ASSUME IInv, NEW r \in Requests
    PROVE  /\ \A q \in Queries : Read(r, q) => IInv'
           /\ \A q \in Rechecks : Recheck(r, q) => IInv'
<1> PICK b : b = req[r]
  OBVIOUS
<1>0. ReqInv(b) /\ RowsInv
  BY DEF IInv
<1>1. ASSUME NEW q \in Queries, Read(r, q) PROVE IInv'
  <2>1. PICK d : d = Take(b, q)
    OBVIOUS
  <2>2. PICK c : c = IF d.todo = {} THEN Selected(d) ELSE d
    OBVIOUS
  <2>3. b.at = "reading" /\ q \in b.todo /\ To(r, c) /\ Internal
    BY <1>1, <2>1, <2>2 DEF Read
  <2>4. ReqInv(d)
    BY <1>0, <2>1, <2>3, Reads
  <2>5. d.at = "reading"
    <3>1. b \in Req /\ RowsTyped
      BY <1>0 DEF ReqInv, ReqTyped, RowsInv
    <3> QED
      BY <2>1, <2>3, <3>1, Takes
  <2>6. ReqInv(c)
    <3>1. CASE d.todo = {}
      <4>1. ReqInv(Selected(d))
        BY <1>0, <2>4, <2>5, <3>1, Selecting
      <4>2. c = Selected(d)
        BY <2>2, <3>1
      <4> QED
        BY <4>1, <4>2
    <3>2. CASE d.todo # {}
      BY <2>2, <2>4, <3>2
    <3> QED
      BY <3>1, <3>2
  <2> QED
    BY <2>3, <2>6, InternalKeeps
<1>2. ASSUME NEW q \in Rechecks, Recheck(r, q) PROVE IInv'
  <2>1. PICK d : d = Take(b, q)
    OBVIOUS
  <2>2. PICK c : c = IF d.todo = {} THEN Recovered(d) ELSE d
    OBVIOUS
  <2>3. b.at = "recheck" /\ q \in b.todo /\ To(r, c) /\ Internal /\ q \in Queries
    BY <1>2, <2>1, <2>2 DEF Recheck, Rechecks, Queries
  <2>4. ReqInv(d)
    BY <1>0, <2>1, <2>3, Reads
  <2>5. d.at = "recheck"
    <3>1. b \in Req /\ RowsTyped
      BY <1>0 DEF ReqInv, ReqTyped, RowsInv
    <3> QED
      BY <2>1, <2>3, <3>1, Takes
  <2>6. ReqInv(c)
    <3>1. CASE d.todo = {}
      <4>1. ReqInv(Recovered(d))
        BY <1>0, <2>4, <2>5, Recovering
      <4>2. c = Recovered(d)
        BY <2>2, <3>1
      <4> QED
        BY <4>1, <4>2
    <3>2. CASE d.todo # {}
      BY <2>2, <2>4, <3>2
    <3> QED
      BY <3>1, <3>2
  <2> QED
    BY <2>3, <2>6, InternalKeeps
<1> QED
  BY <1>1, <1>2

LEMMA LookKeeps ==
    ASSUME IInv, NEW r \in Requests, SpotCheck(r) \/ FindClaimed(r) \/ FindTerminal(r)
    PROVE  IInv'
<1> PICK b : b = req[r]
  OBVIOUS
<1>0. ReqInv(b) /\ RowsInv
  BY DEF IInv
<1>1. CASE SpotCheck(r)
  <2>1. PICK c : LET i == Spot(b.registration)
                     d == [b EXCEPT !.at = "built"]
                 IN  c = CASE i.status \in {"PLAYING", "WINNER_WINDOW"} ->
                                [d EXCEPT !.live = i, !.registration = None]
                           [] i.status = "CHECKING" ->
                                [d EXCEPT !.checking = i, !.registration = None]
                           [] OTHER -> d
    OBVIOUS
  <2>2. b.at = "spot" /\ To(r, c) /\ Internal
    BY <1>1, <2>1 DEF SpotCheck
  <2>3. ReqInv(c)
    BY <1>0, <2>1, <2>2, Spotted
  <2> QED
    BY <2>2, <2>3, InternalKeeps
<1>2. CASE FindClaimed(r)
  <2>1. PICK c : LET i == FindFirst(Claimed)
                 IN  c = CASE i = None -> [b EXCEPT !.at = "terminal"]
                           [] i # None /\ i.status = "CHECKING" ->
                                [b EXCEPT !.checking = i, !.at = "built"]
                           [] OTHER -> [b EXCEPT !.live = i, !.at = "built"]
    OBVIOUS
  <2>2. b.at = "claimed" /\ To(r, c) /\ Internal
    BY <1>2, <2>1 DEF FindClaimed
  <2>3. ReqInv(c)
    BY <1>0, <2>1, <2>2, ClaimedFound
  <2> QED
    BY <2>2, <2>3, InternalKeeps
<1>3. CASE FindTerminal(r)
  <2>1. PICK c :
          /\ To(r, c)
          /\ \/ \E o \in RecentTerminal :
                  c = [b EXCEPT
                    !.live = [slot |-> o.slot, round |-> o.round, due |-> FALSE,
                              order |-> order[o.slot], status |-> "FINISHED"],
                    !.queue = @ \ {o.slot}, !.at = "built"]
             \/ c = IF b.queue = {} THEN [b EXCEPT !.at = "recheck", !.todo = Rechecks]
                    ELSE [b EXCEPT !.at = "built"]
    BY <1>3 DEF FindTerminal
  <2>2. b.at = "terminal" /\ Internal
    BY <1>3 DEF FindTerminal
  <2>3. ReqInv(c)
    BY <1>0, <2>1, <2>2, TerminalFound
  <2> QED
    BY <2>1, <2>2, <2>3, InternalKeeps
<1> QED
  BY <1>1, <1>2, <1>3

\* A request is answered from the cache, or begins.
LEMMA AskKeeps ==
    ASSUME IInv, NEW k \in Keys
    PROVE  /\ AskCached(k) => IInv'
           /\ \A r \in Requests : Ask(r, k) => IInv'
<1>1. ASSUME AskCached(k) PROVE IInv'
  <2>1. UNCHANGED <<rows, now, changes, unannounced, cache, req>> /\ Remember(k, Cached(k))
    BY <1>1 DEF AskCached
  <2>2. Cached(k) \in Snapshot
    BY <1>1 DEF AskCached, Usable, Cached, IInv, MemoryTyped
  <2>3. MemoryTyped'
    BY <2>1, <2>2, Remembers DEF IInv, MemoryTyped
  <2>4. over' = over /\ now' \in 0 .. MaxTime
    BY <2>1 DEF rows, IInv, RowsInv, RowsTyped
  <2>5. CacheFresh'
    BY <2>1, <2>4, CacheStays DEF IInv
  <2>6. RowsInv'
    BY <2>1, <2>4, RowsStay DEF IInv
  <2>7. ASSUME NEW r \in Requests PROVE ReqInv(req[r])'
    <3>1. PICK c : c = req'[r]
      OBVIOUS
    <3>2. ReqInv(c)
      <4>1. c = req[r]
        BY <2>1, <3>1
      <4> QED
        BY <4>1 DEF IInv
    <3>3. ReqInv(c)'
      BY <2>1, <3>2, Unmoved DEF IInv
    <3> QED
      BY <3>1, <3>3, Carried
  <2>8. req' \in [Requests -> Req]
    BY <2>1 DEF IInv
  <2> QED
    BY <2>3, <2>5, <2>6, <2>7, <2>8 DEF IInv
<1>2. ASSUME NEW r \in Requests, Ask(r, k) PROVE IInv'
  <2>1. PICK h \in BOOLEAN : h = FALSE
    OBVIOUS
  <2>2. PICK c : c = Begin(k, h, changes, Showing)
    OBVIOUS
  <2>3. To(r, c) /\ UNCHANGED <<rows, now, changes, unannounced, recent>>
    BY <1>2, <2>1, <2>2 DEF Ask
  <2>4. cache' = None \/ cache' = cache
    BY <1>2 DEF Ask
  <2>5. ReqInv(c)
    BY <2>2, Starts DEF IInv
  <2>6. MemoryTyped'
    BY <2>3, <2>4 DEF IInv, MemoryTyped
  <2>7. CacheFresh'
    <3>1. CASE cache' = None
      BY <3>1 DEF CacheFresh
    <3>2. CASE cache' = cache
      <4>1. over' = over
        BY <2>3 DEF rows
      <4> QED
        BY <2>3, <3>2, <4>1, CacheStays DEF IInv
    <3> QED
      BY <2>4, <3>1, <3>2
  <2> QED
    BY <2>3, <2>5, <2>6, <2>7, OneRequest DEF IInv
<1> QED
  BY <1>1, <1>2

\* A request is answered, the answer stored and remembered.
LEMMA AnswerKeeps ==
    ASSUME IInv, NEW r \in Requests, Answer(r)
    PROVE  IInv'
<1>1. PICK b : b = req[r]
  OBVIOUS
<1>2. /\ ReqInv(b) /\ RowsInv /\ MemoryTyped /\ b.at = "built"
      /\ UNCHANGED <<rows, now, changes, unannounced>>
  BY <1>1 DEF IInv, Answer
<1>3. b \in Req /\ b.key \in Keys /\ now - b.begun <= MaxBuild /\ b.begun \in Int
      /\ now \in Nat
  BY <1>2, OperationsAssumption DEF ReqInv, ReqTyped, Req, RowsInv, RowsTyped
<1>4. Result(b) \in Snapshot
  BY <1>3, Results
<1>5. PICK a : a = Stabilized(b.key, Result(b))
  OBVIOUS
<1>6. a \in Snapshot
  BY <1>2, <1>3, <1>4, <1>5, Stabilizes
<1>7. \/ cache' = cache
      \/ cache' = [key |-> b.key, payload |-> a, until |-> now + Ttl]
  BY <1>1, <1>5 DEF Answer, Reply
<1>8. Ttl \in Nat /\ MaxBuild \in Nat /\ Display \in Nat
  BY OperationsAssumption
<1>9. MemoryTyped'
  <2>1. recent' \in [Keys -> [at : 0 .. MaxTime, payload : Snapshot] \cup {None}]
    <3>1. UNCHANGED recent \/ Remember(b.key, Result(b))
      BY <1>1 DEF Answer, RememberBuilt
    <3> QED
      BY <1>2, <1>3, <1>4, <3>1, Remembers DEF MemoryTyped
  <2>2. cache' \in [key : Keys, payload : Snapshot, until : Nat] \cup {None}
    <3>1. [key |-> b.key, payload |-> a, until |-> now + Ttl] \in
            [key : Keys, payload : Snapshot, until : Nat]
      BY <1>3, <1>6, <1>8
    <3> QED
      BY <1>2, <1>7, <3>1 DEF MemoryTyped
  <2> QED
    BY <1>2, <2>1, <2>2 DEF MemoryTyped
<1>10. over' = over /\ now' = now
  BY <1>2 DEF rows
<1>11. CacheFresh'
  <2>1. CASE cache' = cache
    BY <1>10, <2>1, CacheStays DEF IInv
  <2>2. CASE cache' = [key |-> b.key, payload |-> a, until |-> now + Ttl]
    <3>1. cache'.payload = a /\ cache'.until = now + Ttl
      BY <2>2
    <3>2. ASSUME NEW i \in Shown(a), a.state # "handoff"
          PROVE  \A o \in over : o.slot = i.slot /\ o.round = i.round =>
                   o.at + (IF i.status = "FINISHED" THEN Display ELSE 0) >= now - MaxBuild
      <4>1. Unspoiled(i, b.begun)
        BY <1>2, <1>5, <3>2, FreshAnswer
      <4>2. \A o \in over : o.at \in Int
        BY <1>2 DEF RowsInv, RowsTyped, OverRow
      <4>3. b.begun >= now - MaxBuild
        BY <1>3, <1>8
      <4> QED
        BY <1>3, <1>8, <4>1, <4>2, <4>3 DEF Unspoiled
    <3>3. (now + Ttl) - (Ttl + MaxBuild) = now - MaxBuild
      BY <1>3, <1>8
    <3>4. cache'.until - (Ttl + MaxBuild) = now - MaxBuild /\ cache'.until <= now' + Ttl
      BY <1>3, <1>8, <1>10, <3>1, <3>3
    <3> QED
      BY <1>10, <3>1, <3>2, <3>4 DEF CacheFresh, Unspoiled, Shown
  <2> QED
    BY <1>7, <2>1, <2>2
<1>12. PICK c : c = Nothing
  OBVIOUS
<1>13. ReqInv(c) /\ To(r, c)
  BY <1>2, <1>12, Starts DEF Answer
<1> QED
  BY <1>2, <1>9, <1>11, <1>13, OneRequest DEF IInv

LEMMA TickKeeps ==
    ASSUME IInv, Tick
    PROVE  IInv'
<1>1. /\ now' = now + 1 /\ UNCHANGED <<rows, changes, unannounced, cache, recent, req>>
      /\ now < MaxTime
      /\ \A r \in Requests : req[r].at = "idle" \/ now - req[r].begun < MaxBuild
  BY DEF Tick
<1>2. now' \in 0 .. MaxTime /\ over' = over
  BY <1>1, OperationsAssumption DEF rows, IInv, RowsInv, RowsTyped
<1>3. RowsInv'
  BY <1>1, <1>2, RowsStay DEF IInv
<1>4. MemoryTyped'
  BY <1>1 DEF IInv, MemoryTyped
<1>5. CacheFresh'
  BY <1>1, <1>2, CacheStays DEF IInv
<1>6. ASSUME NEW r \in Requests PROVE ReqInv(req[r])'
  <2>1. PICK c : c = req[r]
    OBVIOUS
  <2>2. ReqInv(c) /\ req'[r] = c
    BY <1>1, <2>1 DEF IInv
  <2>3. c.at = "idle" \/ now - c.begun < MaxBuild
    BY <1>1, <2>1
  <2>4. ReqInv(c)'
    BY <1>1, <2>2, <2>3, Unmoved DEF IInv
  <2> QED
    BY <2>2, <2>4, Carried
<1> QED
  BY <1>1, <1>3, <1>4, <1>5, <1>6 DEF IInv

LEMMA NothingKeeps ==
    ASSUME IInv, UNCHANGED vars \/ Invalidate
    PROVE  IInv'
<1>1. UNCHANGED <<rows, now, changes, recent, req>> /\ unannounced' \in BOOLEAN
      /\ (cache' = cache \/ cache' = None)
  BY DEF vars, Invalidate, IInv, MemoryTyped
<1>2. now' \in 0 .. MaxTime /\ over' = over
  BY <1>1 DEF rows, IInv, RowsInv, RowsTyped
<1>3. RowsInv'
  BY <1>1, <1>2, RowsStay DEF IInv
<1>4. MemoryTyped'
  BY <1>1 DEF IInv, MemoryTyped
<1>5. CacheFresh'
  <2>1. CASE cache' = None
    BY <2>1 DEF CacheFresh
  <2>2. CASE cache' = cache
    BY <1>1, <1>2, <2>2, CacheStays DEF IInv
  <2> QED
    BY <1>1, <2>1, <2>2
<1>6. ASSUME NEW r \in Requests PROVE ReqInv(req[r])'
  <2>1. PICK c : c = req[r]
    OBVIOUS
  <2>2. ReqInv(c) /\ req'[r] = c
    BY <1>1, <2>1 DEF IInv
  <2>3. ReqInv(c)'
    BY <1>1, <2>2, Unmoved DEF IInv
  <2> QED
    BY <2>2, <2>3, Carried
<1> QED
  BY <1>1, <1>3, <1>4, <1>5, <1>6 DEF IInv

LEMMA Kept == IInv /\ [Next]_vars => IInv'
<1> SUFFICES ASSUME IInv, [Next]_vars PROVE IInv'
  OBVIOUS
<1>1. CASE RowStep
  BY <1>1, RowsKeep
<1>2. CASE Invalidate \/ UNCHANGED vars
  BY <1>2, NothingKeeps
<1>3. CASE Tick
  BY <1>3, TickKeeps
<1>4. ASSUME NEW k \in Keys, AskCached(k) PROVE IInv'
  BY <1>4, AskKeeps
<1>5. ASSUME NEW r \in Requests, NEW k \in Keys, Ask(r, k) PROVE IInv'
  BY <1>5, AskKeeps
<1>6. ASSUME NEW r \in Requests,
             (\E q \in Queries : Read(r, q)) \/ (\E q \in Rechecks : Recheck(r, q))
      PROVE  IInv'
  BY <1>6, ReadKeeps
<1>7. ASSUME NEW r \in Requests, SpotCheck(r) \/ FindClaimed(r) \/ FindTerminal(r) PROVE IInv'
  BY <1>7, LookKeeps
<1>8. ASSUME NEW r \in Requests, HealGap(r) PROVE IInv'
  BY <1>8, HealKeeps
<1>9. ASSUME NEW r \in Requests, Answer(r) PROVE IInv'
  BY <1>9, AnswerKeeps
<1> QED
  BY <1>1, <1>2, <1>3, <1>4, <1>5, <1>6, <1>7, <1>8, <1>9 DEF Next, RowStep

\* What a request has read is what there was when nothing has changed since,
\* and enough to find a session that was there all the time; what it holds, and
\* what is cached, was over only shortly before it was read
\* (getCurrentOperations, OperationsCacheService).
THEOREM Invariant == Spec => []IInv
<1> QED
  BY InitIInv, Kept, PTL DEF Spec

\* Rows, requests and both memories are well typed in every reachable state.
THEOREM TypeCorrect == Spec => []TypeOK
<1>1. IInv => TypeOK
  <2> SUFFICES ASSUME IInv PROVE TypeOK
    OBVIOUS
  <2>1. round \in [Slots -> 0 .. MaxChanges + 1]
    BY OperationsAssumption DEF IInv, RowsInv, RowsTyped
  <2>2. \A r \in Requests :
          /\ req[r].at \in {"idle", "reading", "spot", "claimed", "terminal", "recheck", "built"}
          /\ req[r].key \in Keys \cup {None}
          /\ {req[r].live, req[r].checking, req[r].registration} \ {None} \subseteq Item
    BY DEF IInv, Req
  <2>3. status \in [Slots -> Claimed \cup {"NEXT", "READY", "CANCELLED"}]
    BY DEF IInv, RowsInv, RowsTyped, Statuses
  <2> QED
    BY <2>1, <2>2, <2>3 DEF IInv, RowsInv, RowsTyped, MemoryTyped, TypeOK
<1> QED
  BY <1>1, Invariant, PTL

\* If a session was open or in play all the time while an answer was put
\* together, the answer shows a game, although each of its queries saw another
\* moment (getCurrentOperations with its later looks).
THEOREM GameIsShown == Spec => []ShowsTheGame
<1>1. IInv => ShowsTheGame
  <2> SUFFICES ASSUME IInv, NEW r \in Requests, About(r), req[r].steady # {}
               PROVE  ~ Empty(Reply(r))
    BY DEF ShowsTheGame
  <2>1. PICK b : b = req[r]
    OBVIOUS
  <2>2. ReqInv(b) /\ b.at = "built" /\ b.steady # {} /\ MemoryTyped
    BY <2>1 DEF IInv, About
  <2>3. b \in Req /\ b.key \in Keys /\ ~ Empty(b)
    BY <2>2 DEF ReqInv, ReqTyped, Shows
  <2>4. Result(b) \in Snapshot /\ ~ Empty(Result(b))
    BY <2>3, Results
  <2>5. Stabilized(b.key, Result(b)) = Result(b)
    BY <2>2, <2>3, <2>4, Stabilizes
  <2> QED
    BY <2>1, <2>4, <2>5 DEF Reply
<1> QED
  BY <1>1, Invariant, PTL

\* If nothing changed meanwhile, an answer has every slot of the standard queue
\* in exactly one place, and no Big Game waits in the queue.
THEOREM SlotsPlacedOnce == Spec => []EachSlotOnce
<1>1. IInv => EachSlotOnce
  <2> SUFFICES ASSUME IInv, NEW r \in Requests, About(r), req[r].seen = changes,
                      Reply(r).state = "active"
               PROVE  /\ \A s \in Slots \ Big :
                           status[s] # "CANCELLED" => Cardinality(ShownAt(Reply(r), s)) = 1
                      /\ Reply(r).queue \cap Big = {}
    BY DEF EachSlotOnce
  <2>1. PICK b : b = req[r]
    OBVIOUS
  <2>2. ReqInv(b) /\ b.at = "built" /\ b.seen = changes /\ MemoryTyped
    BY <2>1 DEF IInv, About
  <2>3. b \in Req /\ b.key \in Keys
    BY <2>2 DEF ReqInv, ReqTyped
  <2>4. PICK a : a = Result(b)
    OBVIOUS
  <2>5. Reply(r) = a
    <3>1. Result(b) \in Snapshot
      BY <2>3, Results
    <3> QED
      BY <2>1, <2>2, <2>3, <2>4, <3>1, Stabilizes DEF Reply
  <2>6. ~ Empty(b)
    BY <2>3, <2>4, <2>5, Results
  <2>7. Exact(b)
    BY <2>2, <2>6 DEF ReqInv, Same
  <2>8. /\ a.queue = b.queue /\ a.live = Sent(b.live) /\ a.checking = Sent(b.checking)
        /\ a.registration = Sent(b.registration)
    BY <2>3, <2>4, Results
  <2>9. ASSUME NEW s \in Slots \ Big, status[s] # "CANCELLED"
        PROVE  Cardinality(ShownAt(a, s)) = 1
    <3>1. \A i \in Item \cup {None} : In(Sent(i), s) <=> In(i, s)
      BY Sends DEF In
    <3>2. /\ In(a.live, s) <=> In(b.live, s)
          /\ In(a.checking, s) <=> In(b.checking, s)
          /\ In(a.registration, s) <=> In(b.registration, s)
      BY <2>3, <2>8, <3>1 DEF Req
    <3>3. PlacedOnce(a, s)
      BY <2>7, <2>8, <2>9, <3>2 DEF Exact, PlacedOnce
    <3>4. \A p : p \in ShownAt(a, s) <=>
            \/ p = "live" /\ In(a.live, s)
            \/ p = "checking" /\ In(a.checking, s)
            \/ p = "registration" /\ In(a.registration, s)
            \/ p = "queue" /\ s \in a.queue
      BY DEF ShownAt, In
    <3>5. \E p : ShownAt(a, s) = {p}
      BY <3>3, <3>4 DEF PlacedOnce
    <3> QED
      BY <3>5, FS_Singleton
  <2> QED
    BY <2>5, <2>7, <2>8, <2>9 DEF Exact
<1> QED
  BY <1>1, Invariant, PTL

\* Except as a handoff, nothing is shown for longer after its end than the
\* cache lives and an answer takes to build, a result for the time it is on
\* display in addition: although entries are written after the invalidation
\* that should have prevented them.
THEOREM StaleBriefly == Spec => []StaleOnlyBriefly
<1>1. ASSUME RowsInv, NEW i, NEW t \in Int, NEW limit \in Int, Unspoiled(i, t),
             now - t <= limit, limit >= 0
      PROVE  Age(i) <= limit + IF i.status = "FINISHED" THEN Display ELSE 0
  <2> DEFINE O == {o \in over : o.slot = i.slot /\ o.round = i.round}
             d == IF i.status = "FINISHED" THEN Display ELSE 0
  <2>1. d \in Nat
    BY OperationsAssumption
  <2>2. CASE O = {}
    <3>1. Age(i) = 0
      BY <2>2 DEF Age
    <3> HIDE DEF O, d
    <3>2. 0 <= limit + d
      BY <1>1, <2>1
    <3> QED
      BY <3>1, <3>2 DEF d
  <2>3. CASE O # {}
    <3>1. PICK o : o = CHOOSE x \in O : TRUE
      OBVIOUS
    <3>2. o \in O
      BY <2>3, <3>1
    <3>3. Age(i) = now - o.at
      BY <2>3, <3>1 DEF Age
    <3>4. o.at + d >= t
      BY <1>1, <3>2 DEF Unspoiled
    <3>5. o.at \in Int /\ now \in Int
      BY <1>1, <3>2 DEF RowsInv, RowsTyped, OverRow
    <3> HIDE DEF O, d
    <3>6. now - o.at <= limit + d
      BY <1>1, <2>1, <3>4, <3>5
    <3> QED
      BY <3>3, <3>6 DEF d
  <2> QED
    BY <2>2, <2>3
<1>2. IInv => StaleOnlyBriefly
  <2> SUFFICES ASSUME IInv PROVE StaleOnlyBriefly
    OBVIOUS
  <2>0. RowsInv /\ MemoryTyped /\ CacheFresh /\ now \in Int /\ MaxBuild \in Nat /\ Ttl \in Nat
    BY OperationsAssumption DEF IInv, RowsInv, RowsTyped
  <2>1. ASSUME NEW r \in Requests, About(r), Reply(r).state # "handoff", NEW i \in Shown(Reply(r))
        PROVE  Age(i) <= MaxBuild + IF i.status = "FINISHED" THEN Display ELSE 0
    <3>1. PICK b : b = req[r]
      OBVIOUS
    <3>2. ReqInv(b) /\ b.at = "built"
      BY <2>1, <3>1 DEF IInv, About
    <3>3. Unspoiled(i, b.begun)
      BY <2>0, <2>1, <3>1, <3>2, FreshAnswer DEF Reply
    <3>4. b.begun \in Int /\ now - b.begun <= MaxBuild
      BY <3>2 DEF ReqInv, ReqTyped, Req
    <3> QED
      BY <1>1, <2>0, <3>3, <3>4
  <2>2. ASSUME NEW k \in Keys, Usable(k), Cached(k).state # "handoff", NEW i \in Shown(Cached(k))
        PROVE  Age(i) <= (Ttl + MaxBuild) + IF i.status = "FINISHED" THEN Display ELSE 0
    <3>1. cache # None /\ now < cache.until /\ Cached(k) = cache.payload
      BY <2>2 DEF Usable, Cached
    <3>2. PICK t : t = cache.until - (Ttl + MaxBuild)
      OBVIOUS
    <3>3. Unspoiled(i, t)
      BY <2>0, <2>2, <3>1, <3>2 DEF CacheFresh
    <3>4. cache.until \in Int
      BY <2>0, <3>1 DEF MemoryTyped
    <3>5. t \in Int /\ now - t <= Ttl + MaxBuild /\ Ttl + MaxBuild \in Int /\ Ttl + MaxBuild >= 0
      BY <2>0, <3>1, <3>2, <3>4
    <3> QED
      BY <1>1, <2>0, <3>3, <3>5
  <2> QED
    BY <2>1, <2>2 DEF StaleOnlyBriefly, NotOver
<1> QED
  BY <1>2, Invariant, PTL

=============================================================================
