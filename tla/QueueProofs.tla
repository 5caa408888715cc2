---------------------------- MODULE QueueProofs ----------------------------
(***************************************************************************)
(* Proofs about Queue, for any slots, sessions, rules and orders, whatever *)
(* the administrator uses and players ask for.                             *)
(***************************************************************************)
EXTENDS Queue, FiniteSetTheorems, FunctionTheorems, WellFoundedInduction, TLAPS

-----------------------------------------------------------------------------
(* Orders.                                                                 *)

AnySlotRow == [status : {"ABSENT", "NEXT", "READY", "PLAYING", "CANCELLED"}, order : Nat]
Steps == {"idle", "choose", "cancel", "cancelling", "closing", "ending", "start",
          "starting", "failed", "open", "opening", "remove", "clear", "repair", "retire"}
AnyTx == [step : Steps, session : Sessions \cup {None}, slot : Slots \cup {None},
          order : Nat, mode : OpenerMode, requeue : BOOLEAN,
          then : {"idle", "start", "remove", "clear", "repair"},
          keep : SUBSET Slots, todo : SUBSET Sessions]

LEMMA Bounds ==
    /\ IsFiniteSet(Slots) /\ IsFiniteSet(Actors)
    /\ Cardinality(Slots) \in Nat /\ Cardinality(Actors) \in Nat
    /\ Cardinality(Slots) > 0
    /\ MaxOrder = 2 * Cardinality(Slots) + Cardinality(Actors) /\ MaxOrder \in Nat
<1>1. IsFiniteSet({}) /\ IsFiniteSet({} \cup {"scheduler"})
  BY FS_EmptySet, FS_AddElement
<1>2. IsFiniteSet(({} \cup {"scheduler"}) \cup {"finalizer"})
  BY <1>1, FS_AddElement
<1>3. IsFiniteSet((({} \cup {"scheduler"}) \cup {"finalizer"}) \cup {"admin"})
  BY <1>2, FS_AddElement
<1>4. Actors = (({} \cup {"scheduler"}) \cup {"finalizer"}) \cup {"admin"}
  BY DEF Actors
<1>5. IsFiniteSet(Actors)
  BY <1>3, <1>4
<1>6. Cardinality(Slots) \in Nat /\ Cardinality(Actors) \in Nat
  BY <1>5, FS_CardinalityType, QueueAssumption
<1>7. Cardinality(Slots) # 0
  BY FS_EmptySet, QueueAssumption
<1> QED
  BY <1>5, <1>6, <1>7, QueueAssumption DEF MaxOrder

\* The values of finitely many rows.
LEMMA Values ==
    ASSUME NEW S, IsFiniteSet(S), NEW f
    PROVE  /\ IsFiniteSet({f[x] : x \in S})
           /\ Cardinality({f[x] : x \in S}) <= Cardinality(S)
<1> DEFINE T == {f[x] : x \in S}
           g == [x \in S |-> f[x]]
<1>1. g \in Surjection(S, T)
  BY DEF Surjection
<1> QED
  BY <1>1, FS_Surjection

LEMMA UsedFew ==
    ASSUME NEW sl, NEW t
    PROVE  /\ IsFiniteSet(UsedOrders(sl, t))
           /\ Cardinality(UsedOrders(sl, t)) <= Cardinality(Slots) + Cardinality(Actors)
<1> DEFINE f == [s \in Slots |-> sl[s].order]
           g == [a \in Actors |-> t[a].order]
           F == {f[s] : s \in Slots}
           G == {g[a] : a \in Actors}
<1>1. IsFiniteSet(F) /\ Cardinality(F) <= Cardinality(Slots)
  BY Bounds, Values
<1>2. IsFiniteSet(G) /\ Cardinality(G) <= Cardinality(Actors)
  BY Bounds, Values
<1>3. UsedOrders(sl, t) = F \cup G
  BY DEF UsedOrders
<1> HIDE DEF F, G
<1>4. /\ IsFiniteSet(F \cup G)
      /\ Cardinality(F \cup G) = Cardinality(F) + Cardinality(G) - Cardinality(F \cap G)
  BY <1>1, <1>2, FS_Union, ZenonT(20)
<1>5. IsFiniteSet(F \cap G) /\ Cardinality(F \cap G) \in Nat
  BY <1>1, FS_Intersection, FS_CardinalityType
<1>6. Cardinality(F) \in Nat /\ Cardinality(G) \in Nat
  BY <1>1, <1>2, FS_CardinalityType
<1> QED
  BY <1>1, <1>2, <1>3, <1>4, <1>5, <1>6, Bounds

LEMMA RenumberedBound ==
    ASSUME NEW used, IsFiniteSet(used),
           Cardinality(used) <= Cardinality(Slots) + Cardinality(Actors), NEW v \in Nat
    PROVE  Renumbered(v, used) \in 0 .. MaxOrder
<1> DEFINE n == Cardinality(Slots)
           W == {w \in used : n < w /\ w <= v}
<1>1. W \in SUBSET used
  OBVIOUS
<1> HIDE DEF W
<1>2. IsFiniteSet(W) /\ Cardinality(W) <= Cardinality(used)
  BY <1>1, FS_Subset
<1>3. Cardinality(W) \in Nat /\ Cardinality(used) \in Nat
  BY <1>2, FS_CardinalityType
<1>4. Renumbered(v, used) = IF v <= n THEN v ELSE n + Cardinality(W)
  BY DEF Renumbered, W
<1> QED
  BY <1>2, <1>3, <1>4, Bounds

\* Store keeps everything but the orders, and brings these within their bound.
LEMMA Stored ==
    ASSUME NEW sl \in [Slots -> AnySlotRow], NEW t \in [Actors -> AnyTx], Store(sl, t)
    PROVE  /\ slot' \in [Slots -> SlotRow] /\ tx' \in [Actors -> Tx]
           /\ \A s \in Slots : slot'[s].status = sl[s].status
           /\ \A a \in Actors :
                /\ tx'[a].step = t[a].step /\ tx'[a].session = t[a].session
                /\ tx'[a].slot = t[a].slot /\ tx'[a].mode = t[a].mode
                /\ tx'[a].requeue = t[a].requeue /\ tx'[a].then = t[a].then
                /\ tx'[a].keep = t[a].keep /\ tx'[a].todo = t[a].todo
<1> DEFINE used == UsedOrders(sl, t)
<1>1. /\ slot' = [s \in Slots |-> [sl[s] EXCEPT !.order = Renumbered(sl[s].order, used)]]
      /\ tx' = [a \in Actors |-> [t[a] EXCEPT !.order = Renumbered(t[a].order, used)]]
  BY DEF Store
<1>2. \A v \in Nat : Renumbered(v, used) \in 0 .. MaxOrder
  BY UsedFew, RenumberedBound
<1> HIDE DEF used
<1>3. ASSUME NEW s \in Slots
      PROVE  slot'[s] \in SlotRow /\ slot'[s].status = sl[s].status
  <2>1. sl[s] \in AnySlotRow
    OBVIOUS
  <2>2. slot'[s] = [sl[s] EXCEPT !.order = Renumbered(sl[s].order, used)]
    BY <1>1
  <2>3. Renumbered(sl[s].order, used) \in 0 .. MaxOrder
    BY <1>2, <2>1 DEF AnySlotRow
  <2> QED
    BY <2>1, <2>2, <2>3 DEF AnySlotRow, SlotRow
<1>4. ASSUME NEW a \in Actors
      PROVE  /\ tx'[a] \in Tx
             /\ tx'[a].step = t[a].step /\ tx'[a].session = t[a].session
             /\ tx'[a].slot = t[a].slot /\ tx'[a].mode = t[a].mode
             /\ tx'[a].requeue = t[a].requeue /\ tx'[a].then = t[a].then
             /\ tx'[a].keep = t[a].keep /\ tx'[a].todo = t[a].todo
  <2>1. t[a] \in AnyTx
    OBVIOUS
  <2>2. tx'[a] = [t[a] EXCEPT !.order = Renumbered(t[a].order, used)]
    BY <1>1
  <2>3. Renumbered(t[a].order, used) \in 0 .. MaxOrder
    BY <1>2, <2>1 DEF AnyTx
  <2>4. tx'[a] \in Tx
    BY <2>1, <2>2, <2>3 DEF AnyTx, Tx, Steps
  <2> QED
    BY <2>1, <2>2, <2>4 DEF AnyTx
<1> QED
  BY <1>1, <1>3, <1>4

LEMMA LastOrderType ==
    ASSUME NEW S \in SUBSET Slots, S # {}, NEW sl \in [S -> SlotRow]
    PROVE  LastOrder(sl) \in Nat /\ \A s \in S : sl[s].order <= LastOrder(sl)
<1> DEFINE T == {sl[s].order : s \in S}
           U == {MaxOrder - v : v \in T}
<1>1. T \subseteq 0 .. MaxOrder /\ T # {}
  <2>1. \A s \in S : sl[s] \in SlotRow
    OBVIOUS
  <2>2. \A s \in S : sl[s].order \in 0 .. MaxOrder
    BY <2>1 DEF SlotRow
  <2> QED
    BY <2>2
<1> HIDE DEF T
<1>2. MaxOrder \in Nat
  BY Bounds
<1> HIDE DEF MaxOrder
<1>3. U \subseteq Nat /\ U # {}
  BY <1>1, <1>2
<1>4. PICK u \in U : \A v \in U : u <= v
  <2>1. PICK u \in U : \A v \in U : ~ (<<v, u>> \in OpToRel(<, Nat))
    BY <1>3, NatLessThanWellFounded, WFMin
  <2>2. ASSUME NEW v \in U PROVE u <= v
    <3>1. u \in Nat /\ v \in Nat
      BY <1>3
    <3>2. ~ (<<v, u>> \in OpToRel(<, Nat))
      BY <2>1
    <3>3. ~ (v < u)
      BY <3>1, <3>2 DEF OpToRel
    <3> QED
      BY <3>1, <3>3
  <2> QED
    BY <2>2
<1>5. PICK m \in T : u = MaxOrder - m
  OBVIOUS
<1>6. \A v \in T : MaxOrder - v \in U
  OBVIOUS
<1>7. ASSUME NEW v \in T PROVE m >= v
  <2>1. v \in 0 .. MaxOrder /\ m \in 0 .. MaxOrder
    BY <1>1
  <2>2. u <= MaxOrder - v
    BY <1>4, <1>6
  <2> QED
    BY <1>2, <1>5, <2>1, <2>2
<1>8. Max(T) \in T /\ \A v \in T : Max(T) >= v
  BY <1>7 DEF Max
<1>9. LastOrder(sl) = Max(T)
  BY DEF LastOrder, T
<1>10. \A s \in S : sl[s].order \in T
  BY DEF T
<1>11. ASSUME NEW v \in T PROVE v \in Nat
  BY <1>1, <1>2
<1>12. LastOrder(sl) \in Nat
  BY <1>8, <1>9, <1>11
<1>13. ASSUME NEW s \in S PROVE sl[s].order <= LastOrder(sl)
  BY <1>8, <1>9, <1>10, <1>11
<1> QED
  BY <1>12, <1>13

-----------------------------------------------------------------------------
(* Types.                                                                  *)

Typed ==
    /\ slot \in [Slots -> SlotRow]
    /\ session \in [Sessions -> SessionRow]
    /\ tx \in [Actors -> Tx]
    /\ opening \in Plan
    /\ review \in BOOLEAN

\* Sessions in play or open have a slot, and a start holds one.
Placed ==
    /\ \A x \in Sessions : session[x].status \in {"READY", "PLAYING"} => session[x].slot \in Slots
    /\ \A a \in Actors : tx[a].step = "starting" => tx[a].slot \in Slots

LEMMA Records ==
    /\ Idle \in Tx
    /\ \A mode \in OpenerMode : Opener(mode) \in Tx
    /\ NoPlan \in Plan
    /\ NoSession \in SessionRow
<1>1. Idle \in Tx
  BY Bounds DEF Idle, Tx, OpenerMode
<1> QED
  BY <1>1, Bounds DEF Idle, Opener, Tx, OpenerMode, NoPlan, Plan, NoSession, SessionRow

LEMMA Rows ==
    ASSUME Typed
    PROVE  /\ slot \in [Slots -> AnySlotRow]
           /\ tx \in [Actors -> AnyTx]
           /\ \A a \in Actors : tx[a] \in AnyTx /\ tx[a] \in Tx
  BY Bounds DEF Typed, SlotRow, AnySlotRow, Tx, AnyTx, Steps

LEMMA LastInQueue ==
    ASSUME Typed
    PROVE  LastOrder(slot) \in Nat
  BY LastOrderType, QueueAssumption DEF Typed

\* Whoever goes on by himself.
LEMMA Goes ==
    ASSUME Typed, NEW a \in Actors, NEW t \in Tx, tx' = [tx EXCEPT ![a] = t]
    PROVE  tx' \in [Actors -> Tx]
  BY DEF Typed

LEMMA PlansTyped ==
    ASSUME NEW a \in Actors, NEW sl, NEW ss, NEW mode, NEW p \in Plans(a, sl, ss, mode)
    PROVE  p \in Plan
<1> DEFINE ready == StandardReady(sl, ss)
           next == {s \in Slots : sl[s].status = "NEXT"}
           idle == Live(ss) = {}
           nothing == [NoPlan EXCEPT !.by = a]
<1>1. nothing \in Plan
  BY DEF NoPlan, Plan
<1>2. ready \subseteq Sessions
  BY DEF StandardReady
<1>3. ASSUME NEW x \in HeadReady(ready, sl, ss), NEW y \in {x, None}
      PROVE  [nothing EXCEPT !.retire = Retirable(ready \ {x}), !.activate = y,
                             !.countdown = TRUE] \in Plan
  BY <1>1, <1>2, <1>3 DEF HeadReady, Retirable, Plan
<1>4. ASSUME NEW s \in Heads(next, sl)
      PROVE  [nothing EXCEPT !.create = s, !.countdown = idle] \in Plan
  BY <1>1, <1>4 DEF Heads, Plan
<1> HIDE DEF nothing, idle
<1>5. \/ p = nothing
      \/ \E x \in HeadReady(ready, sl, ss) :
           p = [nothing EXCEPT !.retire = Retirable(ready \ {x}),
                  !.activate = IF idle /\ ss[x].due = "unset" /\ ss[x].slot \in Automatic
                               THEN x ELSE None, !.countdown = TRUE]
      \/ \E s \in Heads(next, sl) :
           p = [nothing EXCEPT !.create = s, !.countdown = idle]
  BY DEF Plans, nothing, idle
<1> QED
  BY <1>1, <1>3, <1>4, <1>5

LEMMA PlannedTyped ==
    ASSUME NEW ss \in [Sessions -> SessionRow], NEW p \in Plan, NEW new \in NewOf(p)
    PROVE  Planned(ss, p, new) \in [Sessions -> SessionRow]
<1> SUFFICES ASSUME NEW x \in Sessions
             PROVE  Planned(ss, p, new)[x] \in SessionRow
  BY DEF Planned
<1>1. ss[x] \in SessionRow
  OBVIOUS
<1>2. [ss[x] EXCEPT !.status = "CANCELLED", !.due = "unset"] \in SessionRow
  BY <1>1 DEF SessionRow
<1>3. [ss[x] EXCEPT !.due = "running"] \in SessionRow
  BY <1>1 DEF SessionRow
<1>4. \A due \in {"unset", "running"} : NewSession(p.create, "READY", due) \in SessionRow
  BY DEF NewSession, SessionRow, Plan
<1> QED
  BY <1>1, <1>2, <1>3, <1>4 DEF Planned

LEMMA OverTyped ==
    ASSUME Typed, NEW x, NEW a, NEW status \in {"FINISHED", "CANCELLED"}
    PROVE  Over(x, a, status) \in [Sessions -> SessionRow]
<1>1. \A st \in {status, "NONE"} : [NoSession EXCEPT !.status = st] \in SessionRow
  BY DEF NoSession, SessionRow
<1> QED
  BY <1>1 DEF Over, Typed

LEMMA RestoredTyped ==
    ASSUME Typed, NEW s, NEW order \in Nat
    PROVE  Restored(slot, s, order) \in [Slots -> AnySlotRow]
<1>1. slot \in [Slots -> AnySlotRow]
  BY Rows
<1>2. ASSUME NEW r \in Slots
      PROVE  /\ [slot[r] EXCEPT !.status = "CANCELLED"] \in AnySlotRow
             /\ [slot[r] EXCEPT !.status = "NEXT", !.order = order] \in AnySlotRow
  BY <1>1 DEF AnySlotRow
<1>3. CASE s \in Slots
  BY <1>1, <1>2, <1>3 DEF Restored
<1>4. CASE s \notin Slots
  BY <1>1, <1>4 DEF Restored
<1> QED
  BY <1>3, <1>4

LEMMA InitTyped == Init => Typed
<1> SUFFICES ASSUME Init PROVE Typed
  OBVIOUS
<1> DEFINE S == Created \ Big
           n == Cardinality(S)
<1>1. IsFiniteSet(S) /\ n \in Nat /\ n <= Cardinality(Slots)
  BY FS_Subset, FS_CardinalityType, QueueAssumption
<1>2. Cardinality(Created) \in Nat /\ Cardinality(Created) <= Cardinality(Slots)
  BY FS_Subset, FS_CardinalityType, QueueAssumption
<1>3. slot \in [Slots -> SlotRow]
  <2>1. PICK o \in SetToSeqs(S) :
          slot = [s \in Slots |->
            IF s \notin Created THEN [status |-> "ABSENT", order |-> 0]
            ELSE IF s \in Big THEN [status |-> "READY", order |-> Cardinality(Created)]
            ELSE [status |-> "NEXT", order |-> CHOOSE i \in DOMAIN o : o[i] = s]]
    BY DEF Init
  <2>2. o \in [1 .. n -> S] /\ \A i, j \in 1 .. n : i # j => o[i] # o[j]
    BY DEF SetToSeqs
  <2> HIDE DEF S
  <2>3. IsFiniteSet(1 .. n) /\ Cardinality(1 .. n) = n
    <3>1. 1 \in Int /\ n \in Int
      BY <1>1
    <3>2. IsFiniteSet(1 .. n) /\ Cardinality(1 .. n) = IF 1 > n THEN 0 ELSE n - 1 + 1
      BY <3>1, FS_Interval, ZenonT(20)
    <3> QED
      BY <1>1, <3>2
  <2>4. o \in Injection(1 .. n, S)
    BY <2>2 DEF Injection, IsInjective
  <2>5. o \in Surjection(1 .. n, S)
    BY <1>1, <2>3, <2>4, FS_Injection
  <2>6. ASSUME NEW s \in S
        PROVE  (CHOOSE i \in DOMAIN o : o[i] = s) \in 0 .. MaxOrder
    <3>1. \E i \in DOMAIN o : o[i] = s
      BY <2>5 DEF Surjection
    <3>2. (CHOOSE i \in DOMAIN o : o[i] = s) \in 1 .. n
      BY <2>2, <3>1
    <3> QED
      BY <1>1, <3>2, Bounds
  <2>7. 0 \in 0 .. MaxOrder /\ Cardinality(Created) \in 0 .. MaxOrder
    BY <1>2, Bounds
  <2>8. \A s \in Slots : s \in Created /\ s \notin Big => s \in S
    BY DEF S
  <2> QED
    BY <2>1, <2>6, <2>7, <2>8 DEF SlotRow
<1>4. session \in [Sessions -> SessionRow]
  <2>1. PICK f \in [Big -> Sessions] :
          session = [x \in Sessions |->
            IF x \in {f[b] : b \in Big}
            THEN [slot |-> CHOOSE b \in Big : f[b] = x, status |-> "READY",
                  due |-> "running", players |-> FALSE]
            ELSE NoSession]
    BY DEF Init
  <2>2. ASSUME NEW x \in {f[b] : b \in Big}
        PROVE  (CHOOSE b \in Big : f[b] = x) \in Slots
    <3>1. \E b \in Big : f[b] = x
      OBVIOUS
    <3>2. (CHOOSE b \in Big : f[b] = x) \in Big
      BY <3>1
    <3> QED
      BY <3>2, QueueAssumption
  <2>3. \A s \in Slots : [slot |-> s, status |-> "READY", due |-> "running", players |-> FALSE]
                            \in SessionRow
    BY DEF SessionRow
  <2>4. \A x \in Sessions : session[x] \in SessionRow
    BY <2>1, <2>2, <2>3, Records
  <2> QED
    BY <2>1, <2>4
<1> QED
  BY <1>3, <1>4, Records DEF Init, Typed

LEMMA OpenerTyped ==
    ASSUME Typed, NEW a \in Actors
    PROVE  /\ \A sl, ss, mode : TryOpen(a, sl, ss, mode) => opening' \in Plan
           /\ OwnPlan(a) \in Plan
           /\ opening' = (IF opening.by = a THEN NoPlan ELSE opening) => opening' \in Plan
<1>1. \A sl, ss, mode : TryOpen(a, sl, ss, mode) => opening' \in Plan
  BY PlansTyped DEF TryOpen, Typed
<1> QED
  BY <1>1, Records DEF OwnPlan, Typed

LEMMA OpenTyped ==
    ASSUME Typed, NEW a \in Actors, OpenerStep(a)
    PROVE  Typed'
<1> USE Rows
<1>1. CASE OpenBegin(a)
  <2>1. [tx[a] EXCEPT !.step = "opening"] \in Tx
    BY DEF Tx
  <2>2. tx' = [tx EXCEPT ![a] = [tx[a] EXCEPT !.step = "opening"]]
    BY <1>1 DEF OpenBegin
  <2>3. opening' \in Plan
    BY <1>1, OpenerTyped DEF OpenBegin
  <2> QED
    BY <1>1, <2>1, <2>2, <2>3, Goes DEF OpenBegin, Typed
<1>2. CASE OpenCommit(a)
  <2>1. session' \in [Sessions -> SessionRow]
    BY <1>2, OpenerTyped, PlannedTyped DEF OpenCommit, Typed
  <2>2. opening' \in Plan
    BY <1>2, OpenerTyped DEF OpenCommit
  <2>3. tx' \in [Actors -> Tx]
    BY <1>2, Records DEF OpenCommit, Typed, OpenerMode
  <2> QED
    BY <1>2, <2>1, <2>2, <2>3 DEF OpenCommit, Typed
<1> QED
  BY <1>1, <1>2 DEF OpenerStep

LEMMA AfterStartTyped == \A a : AfterStart(a) \in Tx
  BY Records DEF AfterStart, OpenerMode

LEMMA StartFailsTyped ==
    ASSUME Typed, NEW a \in Actors, StartFails(a)
    PROVE  Typed'
<1>1. [tx[a] EXCEPT !.step = "failed"] \in Tx
  BY Rows DEF Tx
<1>2. tx' \in [Actors -> Tx]
  BY <1>1, Records DEF StartFails, Typed
<1> QED
  BY <1>2 DEF StartFails, Typed

LEMMA StartTyped ==
    ASSUME Typed, NEW a \in Actors, StartStep(a)
    PROVE  Typed'
<1> USE Rows
<1>1. CASE StartBegin(a)
  <2>1. PICK x \in Sessions \cup {None} :
          tx' = [tx EXCEPT ![a].step = "starting", ![a].session = x]
    <3>1. PICK x \in IF ReadyOf(tx[a].slot, session) = {} THEN {None}
                     ELSE ReadyOf(tx[a].slot, session) :
            tx' = [tx EXCEPT ![a].step = "starting", ![a].session = x]
      BY <1>1 DEF StartBegin
    <3>2. x \in Sessions \cup {None}
      BY DEF ReadyOf
    <3> QED
      BY <3>1, <3>2
  <2>2. [tx[a] EXCEPT !.step = "starting", !.session = x] \in Tx
    <3>1. tx[a] \in Tx
      BY Rows
    <3> QED
      BY <3>1 DEF Tx
  <2>3. tx' = [tx EXCEPT ![a] = [tx[a] EXCEPT !.step = "starting", !.session = x]]
    BY <2>1 DEF Typed
  <2> QED
    BY <1>1, <2>2, <2>3, Goes DEF StartBegin, Typed
<1>2. CASE StartRefused(a)
  <2>1. CASE StartFails(a)
    BY <2>1, StartFailsTyped
  <2>2. CASE tx' = [tx EXCEPT ![a] = AfterStart(a)]
             /\ UNCHANGED <<slot, session, opening, review>>
    BY <2>2, AfterStartTyped DEF Typed
  <2> QED
    BY <1>2, <2>1, <2>2 DEF StartRefused
<1>3. CASE StartCommit(a)
  <2> DEFINE s == tx[a].slot
             x == tx[a].session
  <2>1. slot' \in [Slots -> SlotRow]
    <3>1. slot' = [slot EXCEPT ![s].status = "PLAYING"]
      BY <1>3 DEF StartCommit
    <3>2. \A r \in Slots : [slot[r] EXCEPT !.status = "PLAYING"] \in SlotRow
      BY DEF Typed, SlotRow
    <3> QED
      BY <3>1, <3>2 DEF Typed
  <2>2. session' \in [Sessions -> SessionRow]
    <3>1. NewSession(s, "PLAYING", "unset") \in SessionRow
      BY DEF NewSession, SessionRow, Tx
    <3>2. \A y \in Sessions : [session[y] EXCEPT !.status = "PLAYING"] \in SessionRow
      BY DEF Typed, SessionRow
    <3> QED
      BY <1>3, <3>1, <3>2 DEF StartCommit, Typed, Free
  <2>3. tx' \in [Actors -> Tx]
    BY <1>3, AfterStartTyped, Records DEF StartCommit, Typed, OpenerMode
  <2> QED
    BY <1>3, <2>1, <2>2, <2>3 DEF StartCommit, Typed
<1>4. CASE StartTooLate(a)
  BY <1>4, StartFailsTyped DEF StartTooLate
<1> QED
  BY <1>1, <1>2, <1>3, <1>4 DEF StartStep

LEMMA EndTyped ==
    ASSUME Typed, (\E x \in Sessions : EndBegin(x)) \/ EndCommit \/ EndDeadlock
    PROVE  Typed'
<1> DEFINE a == "finalizer"
<1>0. a \in Actors
  BY DEF Actors
<1> USE Rows
<1>1. ASSUME NEW x \in Sessions, EndBegin(x) PROVE Typed'
  <2> DEFINE s == session[x].slot
             t == [Idle EXCEPT !.step = "ending", !.session = x, !.slot = s,
                               !.order = LastOrder(slot) + 1]
  <2>1. t \in AnyTx
    <3>1. s \in Slots \cup {None}
      BY DEF Typed, SessionRow
    <3>2. LastOrder(slot) + 1 \in Nat
      BY LastInQueue
    <3>3. Idle \in AnyTx
      BY Records, Bounds DEF Tx, AnyTx, Steps
    <3>4. \A r \in Slots \cup {None}, n \in Nat :
            [Idle EXCEPT !.step = "ending", !.session = x, !.slot = r, !.order = n] \in AnyTx
      BY <3>3 DEF AnyTx, Steps
    <3> QED
      BY <3>1, <3>2, <3>4
  <2>2. [tx EXCEPT ![a] = t] \in [Actors -> AnyTx]
    BY <1>0, <2>1
  <2>3. Store(slot, [tx EXCEPT ![a] = t])
    BY <1>1 DEF EndBegin
  <2>4. slot' \in [Slots -> SlotRow] /\ tx' \in [Actors -> Tx]
    BY <2>2, <2>3, Stored
  <2>5. opening' \in Plan
    BY <1>0, <1>1, OpenerTyped DEF EndBegin
  <2> QED
    BY <1>1, <2>4, <2>5 DEF EndBegin, Typed
<1>2. CASE EndCommit
  <2>1. session' \in [Sessions -> SessionRow]
    BY <1>0, <1>2, OpenerTyped, OverTyped, PlannedTyped DEF EndCommit
  <2>2. Store(Restored(slot, tx[a].slot, tx[a].order), [tx EXCEPT ![a] = Idle])
    BY <1>2 DEF EndCommit
  <2>3. [tx EXCEPT ![a] = Idle] \in [Actors -> AnyTx]
    <3>1. Idle \in AnyTx
      BY Records, Bounds DEF Tx, AnyTx, Steps
    <3> QED
      BY <3>1
  <2>4. tx[a].order \in Nat
    BY <1>0 DEF AnyTx
  <2>5. slot' \in [Slots -> SlotRow] /\ tx' \in [Actors -> Tx]
    BY <2>2, <2>3, <2>4, RestoredTyped, Stored
  <2>6. opening' \in Plan
    BY <1>0, <1>2, OpenerTyped DEF EndCommit
  <2> QED
    BY <1>2, <2>1, <2>5, <2>6 DEF EndCommit, Typed
<1>3. CASE EndDeadlock
  BY <1>0, <1>3, OpenerTyped, Records DEF EndDeadlock, Typed
<1> QED
  BY <1>1, <1>2, <1>3

LEMMA AfterCancelTyped ==
    ASSUME Typed, NEW a \in Actors
    PROVE  AfterCancel(a) \in Tx /\ CancelFailed(a) \in Tx
<1>1. tx[a] \in Tx
  BY Rows
<1>2. [tx[a] EXCEPT !.step = tx[a].then, !.session = None,
                    !.todo = tx[a].todo \ {tx[a].session}] \in Tx
  BY <1>1 DEF Tx
<1>3. AfterCancel(a) \in Tx
  BY <1>2, Records DEF AfterCancel, OpenerMode
<1> QED
  BY <1>3, Records DEF CancelFailed

LEMMA CancelTyped ==
    ASSUME Typed, NEW a \in Actors, CancelStep(a)
    PROVE  Typed'
<1> USE Rows
<1>1. CASE CancelClaim(a)
  <2>1. \A st \in {"start", "cancelling"} : [tx[a] EXCEPT !.step = st] \in Tx
    BY DEF Tx
  <2>2. tx' \in [Actors -> Tx]
    BY <1>1, <2>1 DEF CancelClaim, Typed
  <2> QED
    BY <1>1, <2>2 DEF CancelClaim, Typed
<1>2. CASE CancelRefused(a)
  BY <1>2, AfterCancelTyped DEF CancelRefused, Typed
<1>3. CASE CancelRestore(a)
  <2> DEFINE order == LastOrder(slot) + 1
  <2>1. CASE tx[a].requeue
    <3> DEFINE t == [tx[a] EXCEPT !.step = "closing", !.order = order]
    <3>1. t \in AnyTx
      <4>1. order \in Nat /\ tx[a] \in AnyTx
        BY LastInQueue
      <4> HIDE DEF order
      <4> QED
        BY <4>1 DEF AnyTx, Steps
    <3>2. [tx EXCEPT ![a].step = "closing", ![a].order = order] = [tx EXCEPT ![a] = t]
      BY DEF Typed
    <3>3. [tx EXCEPT ![a] = t] \in [Actors -> AnyTx]
      BY <3>1
    <3>4. Store(slot, [tx EXCEPT ![a] = t])
      BY <1>3, <2>1, <3>2 DEF CancelRestore
    <3>5. slot' \in [Slots -> SlotRow] /\ tx' \in [Actors -> Tx]
      BY <3>3, <3>4, Stored
    <3>6. opening' \in Plan
      BY <1>3, <2>1, OpenerTyped DEF CancelRestore
    <3> QED
      BY <1>3, <3>5, <3>6 DEF CancelRestore, Typed
  <2>2. CASE ~ tx[a].requeue
    <3>1. [tx[a] EXCEPT !.step = "closing"] \in Tx
      BY DEF Tx
    <3>2. tx' = [tx EXCEPT ![a] = [tx[a] EXCEPT !.step = "closing"]]
      BY <1>3, <2>2 DEF CancelRestore
    <3> QED
      BY <1>3, <2>2, <3>1, <3>2, Goes DEF CancelRestore, Typed
  <2> QED
    BY <2>1, <2>2
<1>4. CASE CancelCommit(a)
  <2> DEFINE sl == IF tx[a].requeue THEN Restored(slot, tx[a].slot, tx[a].order) ELSE slot
  <2>1. session' \in [Sessions -> SessionRow]
    BY <1>4, OpenerTyped, OverTyped, PlannedTyped DEF CancelCommit
  <2>2. sl \in [Slots -> AnySlotRow]
    <3>1. tx[a].order \in Nat
      BY DEF AnyTx
    <3> QED
      BY <3>1, RestoredTyped
  <2>3. [tx EXCEPT ![a] = AfterCancel(a)] \in [Actors -> AnyTx]
    <3>1. AfterCancel(a) \in AnyTx
      BY AfterCancelTyped, Bounds DEF Tx, AnyTx, Steps
    <3> QED
      BY <3>1
  <2>4. Store(sl, [tx EXCEPT ![a] = AfterCancel(a)])
    BY <1>4 DEF CancelCommit
  <2>5. slot' \in [Slots -> SlotRow] /\ tx' \in [Actors -> Tx]
    BY <2>2, <2>3, <2>4, Stored
  <2>6. opening' \in Plan
    BY <1>4, OpenerTyped DEF CancelCommit
  <2> QED
    BY <1>4, <2>1, <2>5, <2>6 DEF CancelCommit, Typed
<1>5. CASE CancelDeadlock(a)
  BY <1>5, OpenerTyped, AfterCancelTyped DEF CancelDeadlock, Typed
<1> QED
  BY <1>1, <1>2, <1>3, <1>4, <1>5 DEF CancelStep

LEMMA TickTyped ==
    ASSUME Typed, TickStep
    PROVE  Typed'
<1> DEFINE a == "scheduler"
<1>0. a \in Actors /\ tx[a] \in Tx
  BY Rows DEF Actors
<1>1. \A x \in Sessions, due \in {"unset", "running", "due"} :
        [session[x] EXCEPT !.due = due] \in SessionRow
  BY DEF Typed, SessionRow
<1>2. CASE TickRepair
  <2>1. session' \in [Sessions -> SessionRow]
    <3>1. session' \in Repaired
      BY <1>2 DEF TickRepair
    <3>2. CASE Live(session) # {}
      BY <1>1, <3>1, <3>2 DEF Repaired, Typed
    <3>3. CASE Live(session) = {}
      <4>1. session' = session \/ \E z : session' = [session EXCEPT ![z].due = "running"]
        BY <3>1, <3>3 DEF Repaired
      <4> QED
        BY <1>1, <4>1 DEF Typed
    <3> QED
      BY <3>2, <3>3
  <2>2. [tx[a] EXCEPT !.step = "choose"] \in Tx
    BY <1>0 DEF Tx
  <2>3. tx' = [tx EXCEPT ![a] = [tx[a] EXCEPT !.step = "choose"]]
    BY <1>2 DEF TickRepair
  <2> QED
    BY <1>0, <1>2, <2>1, <2>2, <2>3 DEF TickRepair, Typed
<1>3. CASE TickNothing
  BY <1>3, Records DEF TickNothing, Typed, OpenerMode
<1>4. CASE StartFailed
  <2>1. session' \in [Sessions -> SessionRow]
    BY <1>1, <1>4 DEF StartFailed, Typed
  <2> QED
    BY <1>4, <2>1, AfterStartTyped DEF StartFailed, Typed
<1>5. ASSUME NEW x \in Sessions, TickDue(x) PROVE Typed'
  <2>1. session' \in [Sessions -> SessionRow]
    BY <1>1, <1>5 DEF TickDue, Typed
  <2>2. \A st \in {"start", "cancel"} :
          [Idle EXCEPT !.step = st, !.session = x, !.slot = session[x].slot,
                       !.then = "start", !.todo = {x}] \in Tx
    <3>1. session[x].slot \in Slots \cup {None}
      BY DEF Typed, SessionRow
    <3>2. \A r \in Slots \cup {None}, st \in {"start", "cancel"} :
            [Idle EXCEPT !.step = st, !.session = x, !.slot = r,
                         !.then = "start", !.todo = {x}] \in Tx
      BY Records DEF Tx
    <3> QED
      BY <3>1, <3>2
  <2>3. tx' \in [Actors -> Tx]
    BY <1>5, <2>2, Records DEF TickDue, Typed, OpenerMode
  <2> QED
    BY <1>5, <2>1, <2>3 DEF TickDue, Typed
<1> QED
  BY <1>2, <1>3, <1>4, <1>5 DEF TickStep

LEMMA CreateTyped ==
    ASSUME Typed, NEW s \in Slots, NEW front \in SUBSET {r \in Slots \ Big : slot[r].status = "NEXT"}
    PROVE  LET anchor == LastOrder([r \in front |-> slot[r]])
               squeeze == \E r \in front : Rule[r] = Rule[s]
               moved == {r \in Slots : squeeze /\ slot[r].status = "NEXT" /\ slot[r].order > anchor}
           IN  [r \in Slots |->
                  IF r = s THEN [status |-> "NEXT",
                                 order |-> 1 + IF squeeze THEN anchor ELSE LastOrder(slot)]
                  ELSE IF r \in moved THEN [slot[r] EXCEPT !.order = slot[r].order + 1]
                  ELSE slot[r]] \in [Slots -> AnySlotRow]
<1> DEFINE anchor == LastOrder([r \in front |-> slot[r]])
           squeeze == \E r \in front : Rule[r] = Rule[s]
           moved == {r \in Slots : squeeze /\ slot[r].status = "NEXT" /\ slot[r].order > anchor}
<1>1. squeeze => anchor \in Nat
  <2> SUFFICES ASSUME squeeze PROVE anchor \in Nat
    OBVIOUS
  <2>1. front \in SUBSET Slots /\ front # {}
    OBVIOUS
  <2>2. [r \in front |-> slot[r]] \in [front -> SlotRow]
    BY <2>1 DEF Typed
  <2> QED
    BY <2>1, <2>2, LastOrderType
<1>2. \A r \in Slots : [slot[r] EXCEPT !.order = slot[r].order + 1] \in AnySlotRow
  BY Rows DEF AnySlotRow
<1>3. [status |-> "NEXT", order |-> 1 + IF squeeze THEN anchor ELSE LastOrder(slot)] \in AnySlotRow
  <2>1. (1 + IF squeeze THEN anchor ELSE LastOrder(slot)) \in Nat
    BY <1>1, LastInQueue
  <2> QED
    BY <2>1 DEF AnySlotRow
<1> HIDE DEF moved, anchor, squeeze
<1>4. [r \in Slots |->
         IF r = s THEN [status |-> "NEXT",
                        order |-> 1 + IF squeeze THEN anchor ELSE LastOrder(slot)]
         ELSE IF r \in moved THEN [slot[r] EXCEPT !.order = slot[r].order + 1]
         ELSE slot[r]] \in [Slots -> AnySlotRow]
  BY <1>2, <1>3, Rows
<1> QED
  BY <1>4 DEF moved, anchor, squeeze

LEMMA AdminTyped ==
    ASSUME Typed, Placed, AdminOperation \/ AdminStep
    PROVE  Typed'
<1> DEFINE a == "admin"
<1>0. a \in Actors /\ tx[a] \in Tx
  BY Rows DEF Actors
<1>s. \A x \in Sessions : session[x].slot \in Slots \cup {None}
  BY DEF Typed, SessionRow
<1>g. \A t \in Tx : AdminGoes(t) => tx' \in [Actors -> Tx]
  BY <1>0 DEF AdminGoes, Typed
<1>o. Opener("now") \in Tx
  BY Records DEF OpenerMode
<1>1. ASSUME NEW s \in Slots, AdminStart(s) PROVE Typed'
  <2>1. [Idle EXCEPT !.step = "start", !.slot = s] \in Tx
    BY Records DEF Tx
  <2> QED
    BY <1>1, <1>g, <2>1 DEF AdminStart, Typed
<1>2. ASSUME NEW x \in Sessions, AdminCancel(x) PROVE Typed'
  <2>1. \A s \in Slots \cup {None} :
          [Idle EXCEPT !.step = "cancel", !.session = x, !.slot = s] \in Tx
    BY Records DEF Tx
  <2> QED
    BY <1>2, <1>g, <1>s, <2>1 DEF AdminCancel, Typed
<1>3. ASSUME NEW s \in Slots, AdminRemove(s) PROVE Typed'
  <2>1. ActiveOf(s) \subseteq Sessions
    BY DEF ActiveOf
  <2>2. \A K \in SUBSET Slots, T \in SUBSET Sessions :
          [Idle EXCEPT !.step = "remove", !.slot = s, !.todo = T, !.keep = K] \in Tx
    BY Records DEF Tx
  <2> QED
    BY <1>3, <1>g, <2>1, <2>2 DEF AdminRemove, Typed
<1>4. ASSUME NEW x \in Sessions, RemoveSession(x) PROVE Typed'
  <2>1. [tx[a] EXCEPT !.step = "cancel", !.session = x, !.requeue = FALSE,
                      !.then = "remove"] \in Tx
    BY <1>0 DEF Tx
  <2> QED
    BY <1>4, <1>g, <2>1 DEF RemoveSession, Typed
<1>5. CASE RemoveSlot
  <2>1. slot' \in [Slots -> SlotRow]
    BY <1>5 DEF RemoveSlot, Typed, SlotRow
  <2> QED
    BY <1>5, <1>g, <1>o, <2>1, Records DEF RemoveSlot, Typed
<1>6. CASE AdminClear
  <2> DEFINE live == {session[x].slot : x \in Live(session)}
             regs == {x \in StandardReady(slot, session) : session[x].slot \notin live}
  <2>1. \A K \in SUBSET Slots : [Idle EXCEPT !.step = "clear", !.keep = K] \in Tx
    BY Records DEF Tx
  <2>2. \A K \in SUBSET Slots, x \in Sessions, s \in Slots \cup {None} :
          [Idle EXCEPT !.step = "cancel", !.session = x, !.slot = s, !.requeue = FALSE,
                       !.then = "clear", !.keep = K] \in Tx
    <3> SUFFICES ASSUME NEW K \in SUBSET Slots, NEW x \in Sessions, NEW s \in Slots \cup {None}
                 PROVE  [Idle EXCEPT !.step = "cancel", !.session = x, !.slot = s, !.requeue = FALSE,
                                     !.then = "clear", !.keep = K] \in Tx
      OBVIOUS
    <3> DEFINE c == [Idle EXCEPT !.step = "cancel", !.session = x, !.slot = s]
    <3>1. \A d \in Tx : [d EXCEPT !.step = "cancel", !.session = x, !.slot = s] \in Tx
      BY DEF Tx
    <3>2. \A d \in Tx : [d EXCEPT !.requeue = FALSE, !.then = "clear", !.keep = K] \in Tx
      BY DEF Tx
    <3>3. [c EXCEPT !.requeue = FALSE, !.then = "clear", !.keep = K] \in Tx
      BY <3>1, <3>2, Records
    <3> QED
      BY <3>3, Records DEF Tx
  <2>3. live \subseteq Slots
    BY DEF Placed, Live
  <2>4. ASSUME NEW x \in HeadReady(regs, slot, session)
        PROVE  x \in Sessions /\ session[x].slot \in Slots
    BY <2>4 DEF HeadReady, StandardReady, Placed
  <2> DEFINE Keep(x) == [Idle EXCEPT !.step = "clear", !.keep = live \cup {session[x].slot}]
             Cancel(x) == [Idle EXCEPT !.step = "cancel", !.session = x, !.slot = session[x].slot,
                             !.requeue = FALSE, !.then = "clear", !.keep = live]
  <2>5. \E t \in Tx : AdminGoes(t)
    <3>1. CASE regs = {}
      <4>1. AdminGoes([Idle EXCEPT !.step = "clear", !.keep = live])
        BY <1>6, <3>1 DEF AdminClear
      <4> QED
        BY <2>1, <2>3, <4>1
    <3>2. CASE regs # {}
      <4>1. PICK x \in HeadReady(regs, slot, session) : AdminGoes(Keep(x)) \/ AdminGoes(Cancel(x))
        BY <1>6, <3>2 DEF AdminClear
      <4>2. Keep(x) \in Tx /\ Cancel(x) \in Tx
        BY <2>1, <2>2, <2>3, <2>4
      <4> QED
        BY <4>1, <4>2
    <3> QED
      BY <3>1, <3>2
  <2>6. UNCHANGED <<slot, session, opening, review>>
    BY <1>6 DEF AdminClear
  <2> QED
    BY <1>g, <2>5, <2>6 DEF Typed
<1>7. CASE ClearSlots
  <2>1. slot' \in [Slots -> SlotRow]
    <3>1. \A s \in Slots : [slot[s] EXCEPT !.status = "CANCELLED"] \in SlotRow
      BY DEF Typed, SlotRow
    <3> QED
      BY <1>7, <3>1 DEF ClearSlots, Typed
  <2> QED
    BY <1>7, <1>g, <1>o, <2>1 DEF ClearSlots, Typed
<1>8. ASSUME NEW o \in Orders, AdminReorder(o) PROVE Typed'
  <2> DEFINE sl == [s \in Slots |-> IF \E i \in DOMAIN o : o[i] = s
                              THEN [slot[s] EXCEPT !.order = CHOOSE i \in DOMAIN o : o[i] = s]
                              ELSE slot[s]]
  <2>1. DOMAIN o \subseteq Nat
    <3>1. o \in Seq(Slots \ Big)
      BY QueueAssumption
    <3> QED
      BY <3>1
  <2>2. ASSUME NEW s \in Slots, \E i \in DOMAIN o : o[i] = s
        PROVE  (CHOOSE i \in DOMAIN o : o[i] = s) \in Nat
    BY <2>1, <2>2
  <2>3. \A s \in Slots, n \in Nat : [slot[s] EXCEPT !.order = n] \in AnySlotRow
    BY Rows DEF AnySlotRow
  <2>4. sl \in [Slots -> AnySlotRow]
    BY <2>2, <2>3, Rows
  <2>5. Store(sl, tx)
    BY <1>8 DEF AdminReorder
  <2> HIDE DEF sl
  <2>6. slot' \in [Slots -> SlotRow] /\ tx' \in [Actors -> Tx]
    BY <2>4, <2>5, Rows, Stored
  <2> QED
    BY <1>8, <2>6 DEF AdminReorder, Typed
<1>9. ASSUME NEW s \in Slots, AdminCreate(s) PROVE Typed'
  <2> DEFINE queued == {r \in Slots \ Big : slot[r].status = "NEXT"}
             anchor(front) == LastOrder([r \in front |-> slot[r]])
             squeeze(front) == \E r \in front : Rule[r] = Rule[s]
             moved(front) == {r \in Slots : /\ squeeze(front) /\ slot[r].status = "NEXT"
                                            /\ slot[r].order > anchor(front)}
             sl(front) == [r \in Slots |->
                IF r = s THEN [status |-> "NEXT",
                               order |-> 1 + IF squeeze(front) THEN anchor(front)
                                             ELSE LastOrder(slot)]
                ELSE IF r \in moved(front) THEN [slot[r] EXCEPT !.order = slot[r].order + 1]
                ELSE slot[r]]
             t == [tx EXCEPT !["admin"] = IF s \in Automatic THEN Opener("now") ELSE Idle]
  <2>1. PICK front \in SUBSET queued : Store(sl(front), t)
    BY <1>9 DEF AdminCreate
  <2>2. sl(front) \in [Slots -> AnySlotRow]
    BY <2>1, CreateTyped
  <2>3. t \in [Actors -> AnyTx]
    <3>1. Opener("now") \in AnyTx /\ Idle \in AnyTx
      BY <1>o, Records, Bounds DEF Tx, AnyTx, Steps
    <3> QED
      BY <3>1, Rows
  <2> HIDE DEF sl, t
  <2>4. slot' \in [Slots -> SlotRow] /\ tx' \in [Actors -> Tx]
    BY <2>1, <2>2, <2>3, Stored
  <2> QED
    BY <1>9, <2>4 DEF AdminCreate, Typed
<1>10. CASE AdminRepair
  <2>1. \A T \in SUBSET Sessions : [Idle EXCEPT !.step = "repair", !.todo = T] \in Tx
    BY Records DEF Tx
  <2> QED
    BY <1>10, <1>g, <2>1 DEF AdminRepair, Typed
<1>11. ASSUME NEW x \in Sessions, RepairSession(x) PROVE Typed'
  <2>1. /\ [tx[a] EXCEPT !.todo = tx[a].todo \ {x}] \in Tx
        /\ [tx[a] EXCEPT !.step = "retire", !.session = x] \in Tx
        /\ \A s \in Slots \cup {None} :
             [tx[a] EXCEPT !.step = "cancel", !.session = x, !.slot = s,
                           !.requeue = TRUE, !.then = "repair"] \in Tx
    BY <1>0 DEF Tx
  <2> QED
    BY <1>11, <1>g, <1>s, <2>1 DEF RepairSession, Typed
<1>12. CASE RepairRetire
  <2>1. [tx[a] EXCEPT !.step = "repair", !.session = None,
                      !.todo = tx[a].todo \ {tx[a].session}] \in Tx
    BY <1>0 DEF Tx
  <2>2. session' \in [Sessions -> SessionRow]
    BY <1>12 DEF RepairRetire, Typed, SessionRow
  <2> QED
    BY <1>12, <1>g, <2>1, <2>2 DEF RepairRetire, Typed
<1>13. CASE RepairDone
  BY <1>13, <1>g, <1>o DEF RepairDone, Typed
<1> QED
  BY <1>1, <1>2, <1>3, <1>4, <1>5, <1>6, <1>7, <1>8, <1>9, <1>10, <1>11, <1>12, <1>13
     DEF AdminOperation, AdminStep

LEMMA OutsideTyped ==
    ASSUME Typed, PlayerStep \/ TimeStep
    PROVE  Typed'
<1>1. \A x \in Sessions :
        /\ [session[x] EXCEPT !.players = TRUE] \in SessionRow
        /\ [session[x] EXCEPT !.due = "due"] \in SessionRow
  BY DEF Typed, SessionRow
<1>2. ASSUME NEW s \in Slots, FirstRequest(s) PROVE Typed'
  <2>1. NewSession(s, "READY", "unset") \in SessionRow
    BY DEF NewSession, SessionRow
  <2> QED
    BY <1>2, <2>1 DEF FirstRequest, Typed
<1>3. ASSUME NEW x \in Sessions, Register(x) \/ DeadlinePasses(x) PROVE Typed'
  BY <1>1, <1>3 DEF Register, DeadlinePasses, Typed
<1>4. CASE ReviewOver
  BY <1>4 DEF ReviewOver, Typed
<1> QED
  BY <1>2, <1>3, <1>4 DEF PlayerStep, TimeStep

LEMMA NextTyped ==
    ASSUME TypeOK, Placed, [Next]_vars
    PROVE  TypeOK'
<1>1. Typed
  BY DEF TypeOK, Typed
<1>2. Typed'
  <2>1. {"scheduler", "admin"} \subseteq Actors
    BY DEF Actors
  <2>2. CASE UNCHANGED vars
    BY <1>1, <2>2 DEF vars, Typed
  <2>3. CASE AdminOperation \/ AdminStep
    BY <1>1, <2>3, AdminTyped
  <2>4. ASSUME NEW a \in {"scheduler", "admin"}, TransactionStep(a) PROVE Typed'
    BY <1>1, <2>1, <2>4, OpenTyped, StartTyped, CancelTyped DEF TransactionStep
  <2>5. CASE (\E x \in Sessions : EndBegin(x)) \/ EndCommit \/ EndDeadlock
    BY <1>1, <2>5, EndTyped
  <2>6. CASE TickStep \/ PlayerStep \/ TimeStep
    BY <1>1, <2>6, TickTyped, OutsideTyped
  <2> QED
    BY <2>2, <2>3, <2>4, <2>5, <2>6 DEF Next, System, SystemStep
<1>3. asked' \in 0 .. MaxOperations
  <2>1. CASE AdminOperation
    <3>1. PICK operation : Admin(operation)
      <4>1. ASSUME NEW s \in Slots, AdminStart(s) \/ AdminRemove(s) \/ AdminCreate(s)
            PROVE  \E operation : Admin(operation)
        BY <4>1 DEF AdminStart, AdminRemove, AdminCreate
      <4>2. ASSUME NEW x \in Sessions, AdminCancel(x) PROVE \E operation : Admin(operation)
        BY <4>2 DEF AdminCancel
      <4>3. ASSUME NEW o \in Orders, AdminReorder(o) PROVE \E operation : Admin(operation)
        BY <4>3 DEF AdminReorder
      <4>4. ASSUME AdminClear \/ AdminRepair PROVE \E operation : Admin(operation)
        BY <4>4 DEF AdminClear, AdminRepair
      <4> QED
        BY <2>1, <4>1, <4>2, <4>3, <4>4 DEF AdminOperation
    <3> QED
      BY <3>1, QueueAssumption DEF TypeOK, Admin
  <2>2. CASE UNCHANGED asked
    BY <2>2 DEF TypeOK
  <2> QED
    BY <2>1, <2>2 DEF Next, System, vars
<1>4. opened' \subseteq Sessions
  <2>1. StillOpened \/ opened' = opened
    BY DEF Next, System, vars
  <2> QED
    BY <2>1 DEF StillOpened, TypeOK
<1> QED
  BY <1>2, <1>3, <1>4 DEF TypeOK, Typed

-----------------------------------------------------------------------------
(* Sessions have slots.                                                    *)

LEMMA InitPlaced == Init => Placed
<1> SUFFICES ASSUME Init PROVE Placed
  OBVIOUS
<1>1. PICK f \in [Big -> Sessions] :
        session = [x \in Sessions |->
          IF x \in {f[b] : b \in Big}
          THEN [slot |-> CHOOSE b \in Big : f[b] = x, status |-> "READY",
                due |-> "running", players |-> FALSE]
          ELSE NoSession]
  BY DEF Init
<1>2. ASSUME NEW x \in {f[b] : b \in Big}
      PROVE  (CHOOSE b \in Big : f[b] = x) \in Slots
  <2>1. \E b \in Big : f[b] = x
    OBVIOUS
  <2>2. (CHOOSE b \in Big : f[b] = x) \in Big
    BY <2>1
  <2> QED
    BY <2>2, QueueAssumption
<1>3. \A a \in Actors : tx[a].step = "idle"
  BY DEF Init, Idle
<1> QED
  BY <1>1, <1>2, <1>3 DEF Placed, NoSession

\* The rows that a plan changes, and the one it adds.
LEMMA PlannedRows ==
    ASSUME NEW ss \in [Sessions -> SessionRow], NEW p \in Plan, NEW new \in NewOf(p),
           NEW x \in Sessions
    PROVE  LET y == Planned(ss, p, new)[x]
           IN  \/ y.status = ss[x].status /\ y.slot = ss[x].slot
               \/ y.status = "CANCELLED"
               \/ /\ x = new /\ new \in Free /\ p.create \in Slots
                  /\ y.status = "READY" /\ y.slot = p.create
<1>1. ss[x] \in SessionRow
  OBVIOUS
<1>2. CASE x \in p.retire
  BY <1>1, <1>2 DEF Planned, SessionRow
<1>3. CASE x \notin p.retire /\ (x = p.activate \/ x # new)
  BY <1>1, <1>3 DEF Planned, SessionRow
<1>4. CASE x \notin p.retire /\ x # p.activate /\ x = new
  BY <1>1, <1>4, QueueAssumption DEF Planned, SessionRow, NewSession, NewOf, Plan
<1> QED
  BY <1>2, <1>3, <1>4

LEMMA OverRows ==
    ASSUME Typed, NEW x, NEW a, NEW st \in {"FINISHED", "CANCELLED"}, NEW y \in Sessions
    PROVE  IF y = x THEN Over(x, a, st)[y].status \in {"FINISHED", "CANCELLED", "NONE"}
           ELSE Over(x, a, st)[y] = session[y]
  BY DEF Over, Typed, NoSession

-----------------------------------------------------------------------------
(* What one step of an actor may do.                                       *)

\* Two transactions never hold the same slot; a slot that is being started is
\* in the queue; who has the advisory lock is about to use it.
SlotLocks ==
    \A a, b \in Actors, s \in Slots : HoldsSlot(a, s) /\ HoldsSlot(b, s) => a = b
StartsQueued ==
    \A a \in Actors : tx[a].step = "starting" => slot[tx[a].slot].status \in {"NEXT", "READY"}
Opens(a) ==
    \/ tx[a].step \in {"opening", "ending"}
    \/ tx[a].step = "closing" /\ tx[a].requeue
PlanOwned == opening.by # None => Opens(opening.by)

\* A start has chosen a session of its slot, whose row nobody uses for another
\* while it is remembered.
StartsOwn ==
    \A a \in Actors :
      /\ tx[a].step = "starting" /\ tx[a].session # None
      /\ session[tx[a].session].status = "READY"
      => session[tx[a].session].slot = tx[a].slot

IInv == TypeOK /\ Placed /\ SlotLocks /\ StartsQueued /\ StartsOwn /\ PlanOwned

OthersStay(a) ==
    \A b \in Actors \ {a} :
      /\ tx'[b].step = tx[b].step /\ tx'[b].session = tx[b].session
      /\ tx'[b].slot = tx[b].slot /\ tx'[b].requeue = tx[b].requeue
TakesFree(a) == \A s \in Slots : HoldsSlot(a, s)' => HoldsSlot(a, s) \/ ~SlotHeld(s, a)
WritesOwn(a) ==
    \A s \in Slots : slot'[s].status # slot[s].status =>
      /\ slot[s].status # "ABSENT" => ~SlotHeld(s, a)
      /\ s \in Once => slot[s].status # "CANCELLED"
StartsFirst(a) ==
    tx'[a].step = "starting" =>
      /\ tx'[a].slot \in Slots
      /\ slot'[tx'[a].slot].status \in {"NEXT", "READY"}
      /\ Live(session') = {}
      /\ tx'[a].session # None => session'[tx'[a].session].slot = tx'[a].slot

\* Sessions that will not be open, or not be counted, when a has committed.
WillClose(a, x) ==
    /\ tx[a].step \in {"closing", "ending"}
    /\ \/ x = tx[a].session
       \/ tx[a].slot \in Once /\ session[x].slot = tx[a].slot

StaysReady(x) ==
    session'[x].status = "READY" =>
      session[x].status = "READY" /\ session'[x].slot = session[x].slot
Creates(a) ==
    /\ opening.by = a /\ opening.create # None
    /\ \E new \in Free : \A x \in Sessions :
         x # new => /\ StaysReady(x)
                    /\ session'[x].status = "READY" /\ WillClose(a, x) =>
                         slot'[session'[x].slot].status = "CANCELLED"
OpensOwn(a) == (\A x \in Sessions : StaysReady(x)) \/ Creates(a)

\* The plan of a: kept by others, used or given up by himself, made.
Decides(a) ==
    \/ opening' = opening /\ opening.by # a
    \/ opening' = NoPlan /\ opening.by = a
    \/ /\ opening.by = None /\ opening'.by = a /\ Opens(a)'
       /\ opening'.create # None =>
            \A x \in StandardReady(slot, session)' : WillClose(a, x)'

\* Rounds go on in their slots; the one that a has started is of the slot it held.
StaysLive(x) ==
    session'[x].status = "PLAYING" =>
      session[x].status = "PLAYING" /\ session'[x].slot = session[x].slot
Plays(a) ==
    \/ \A x \in Sessions : StaysLive(x)
    \/ /\ tx[a].step = "starting" /\ tx'[a].step # "starting"
       /\ \E new \in Sessions : /\ session'[new].slot = tx[a].slot
                               /\ \A x \in Sessions \ {new} : StaysLive(x)

Footprint(a) ==
    /\ OthersStay(a) /\ TakesFree(a) /\ WritesOwn(a) /\ StartsFirst(a)
    /\ OpensOwn(a) /\ Decides(a) /\ Plays(a)
    /\ \A x \in Sessions : session'[x].status \in {"READY", "PLAYING"} => session'[x].slot \in Slots

\* A step that goes on without writing.
LEMMA Moves ==
    ASSUME IInv, NEW a \in Actors, NEW t \in Tx, tx' = [tx EXCEPT ![a] = t],
           UNCHANGED <<slot, session>>,
           \/ opening' = opening /\ ~Opens(a)
           \/ opening' = IF opening.by = a THEN NoPlan ELSE opening,
           t.step \notin {"starting", "ending"}, t.step = "closing" => ~t.requeue
    PROVE  Footprint(a)
<1>1. tx'[a] = t /\ \A b \in Actors \ {a} : tx'[b] = tx[b]
  BY DEF IInv, TypeOK
<1>2. OthersStay(a) /\ StartsFirst(a)
  BY <1>1 DEF OthersStay, StartsFirst
<1>3. TakesFree(a)
  BY <1>1 DEF TakesFree, HoldsSlot
<1>4. WritesOwn(a) /\ OpensOwn(a) /\ Plays(a)
  BY DEF WritesOwn, OpensOwn, StaysReady, Plays, StaysLive
<1>5. Decides(a)
  BY QueueAssumption DEF IInv, PlanOwned, Decides
<1> QED
  BY <1>2, <1>3, <1>4, <1>5 DEF Footprint, IInv, Placed

\* What a plan was made from, when it is made.
LEMMA Planning ==
    ASSUME NEW a \in Actors, NEW sl, NEW ss, NEW mode, TryOpen(a, sl, ss, mode)
    PROVE  \/ opening.by # None /\ opening' = opening
           \/ /\ opening.by = None /\ opening'.by = a
              /\ opening'.create # None => StandardReady(sl, ss) = {}
<1> DEFINE nothing == [NoPlan EXCEPT !.by = a]
<1>1. CASE opening.by # None
  BY <1>1 DEF TryOpen
<1>2. CASE opening.by = None
  <2>1. opening' \in Plans(a, sl, ss, mode)
    BY <1>2 DEF TryOpen
  <2>2. /\ nothing.by = a /\ nothing.create = None
        /\ \A R, x, c : LET p == [nothing EXCEPT !.retire = R, !.activate = x, !.countdown = c]
                       IN  p.by = a /\ p.create = None
        /\ \A s, c : [nothing EXCEPT !.create = s, !.countdown = c].by = a
    BY DEF NoPlan
  <2> HIDE DEF nothing
  <2>3. CASE StandardReady(sl, ss) # {} \/ OpenerBlocked(sl, ss, mode)
    <3>1. opening'.by = a /\ opening'.create = None
      <4>1. CASE OpenerBlocked(sl, ss, mode)
        BY <2>1, <2>2, <4>1 DEF Plans, nothing
      <4>2. CASE ~OpenerBlocked(sl, ss, mode) /\ StandardReady(sl, ss) # {}
        <5>1. \E R, x, c : opening' = [nothing EXCEPT !.retire = R, !.activate = x, !.countdown = c]
          BY <2>1, <4>2 DEF Plans, nothing
        <5> QED
          BY <2>2, <5>1
      <4> QED
        BY <2>3, <4>1, <4>2
    <3> QED
      BY <1>2, <3>1
  <2>4. CASE StandardReady(sl, ss) = {} /\ ~OpenerBlocked(sl, ss, mode)
    <3>1. \/ opening' = nothing
          \/ \E s, c : opening' = [nothing EXCEPT !.create = s, !.countdown = c]
      BY <2>1, <2>4 DEF Plans, nothing
    <3>2. opening'.by = a
      <4>1. CASE opening' = nothing
        BY <2>2, <4>1
      <4>2. ASSUME NEW s, NEW c, opening' = [nothing EXCEPT !.create = s, !.countdown = c]
            PROVE  opening'.by = a
        <5>1. [nothing EXCEPT !.create = s, !.countdown = c].by = a
          BY DEF nothing, NoPlan
        <5> QED
          BY <4>2, <5>1
      <4> QED
        BY <3>1, <4>1, <4>2
    <3> QED
      BY <1>2, <2>4, <3>2
  <2> QED
    BY <2>3, <2>4
<1> QED
  BY <1>1, <1>2

\* What a commit writes to the sessions.
LEMMA Committing ==
    ASSUME IInv, NEW a \in Actors, NEW ss \in [Sessions -> SessionRow],
           NEW new \in NewOf(OwnPlan(a)),
           session' = Planned(ss, OwnPlan(a), new),
           opening' = IF opening.by = a THEN NoPlan ELSE opening,
           \A x \in Sessions : ss[x].status \in {"READY", "PLAYING"} => ss[x] = session[x],
           \A x \in Sessions :
             opening.by = a /\ WillClose(a, x) /\ ss[x].status = "READY" =>
               slot'[session[x].slot].status = "CANCELLED"
    PROVE  /\ OpensOwn(a) /\ Decides(a) /\ Plays(a)
           /\ \A x \in Sessions : session'[x].status \in {"READY", "PLAYING"} =>
                                   session'[x].slot \in Slots
<1> DEFINE p == OwnPlan(a)
<1>1. p \in Plan
  BY OpenerTyped DEF IInv, TypeOK, Typed
<1>2. \A x \in Sessions :
        \/ session'[x].status = ss[x].status /\ session'[x].slot = ss[x].slot
        \/ session'[x].status = "CANCELLED"
        \/ /\ x = new /\ p.create \in Slots
           /\ session'[x].status = "READY" /\ session'[x].slot = p.create
  BY <1>1, PlannedRows
<1>3. p.create \in Slots => opening.by = a /\ opening.create # None
  BY QueueAssumption DEF OwnPlan, NoPlan
<1> HIDE DEF p
<1>4. ASSUME NEW x \in Sessions, x # new \/ p.create \notin Slots
      PROVE  /\ StaysReady(x)
             /\ opening.by = a /\ session'[x].status = "READY" /\ WillClose(a, x) =>
                  slot'[session'[x].slot].status = "CANCELLED"
  BY <1>2, <1>4 DEF StaysReady, StaysLive
<1>5. OpensOwn(a)
  <2>1. CASE p.create \notin Slots
    BY <1>4, <2>1 DEF OpensOwn
  <2>2. CASE p.create \in Slots
    <3>1. new \in Free
      BY <2>2, QueueAssumption DEF NewOf, p
    <3> QED
      BY <1>3, <1>4, <2>2, <3>1 DEF OpensOwn, Creates
  <2> QED
    BY <2>1, <2>2
<1>6. Decides(a)
  BY DEF Decides
<1>7. Plays(a)
  BY <1>2 DEF Plays, StaysLive
<1> QED
  BY <1>2, <1>5, <1>6, <1>7 DEF IInv, Placed

LEMMA OpenFootprint ==
    ASSUME IInv, NEW a \in Actors, OpenerStep(a)
    PROVE  Footprint(a)
<1>0. Typed /\ tx \in [Actors -> Tx] /\ tx[a] \in Tx
  BY Rows DEF IInv, TypeOK, Typed
<1>1. CASE OpenBegin(a)
  <2>1. /\ tx[a].step = "open" /\ TryOpen(a, slot, session, tx[a].mode)
        /\ tx' = [tx EXCEPT ![a] = [tx[a] EXCEPT !.step = "opening"]]
        /\ UNCHANGED <<slot, session>>
    BY <1>1 DEF OpenBegin
  <2>2. /\ tx'[a].step = "opening"
        /\ \A b \in Actors \ {a} : tx'[b] = tx[b]
    BY <1>0, <2>1 DEF Tx
  <2>3. OthersStay(a) /\ StartsFirst(a) /\ TakesFree(a)
    BY <2>1, <2>2 DEF OthersStay, StartsFirst, TakesFree, HoldsSlot
  <2>4. WritesOwn(a) /\ OpensOwn(a) /\ Plays(a)
    BY <2>1 DEF WritesOwn, OpensOwn, StaysReady, Plays, StaysLive
  <2>5. Decides(a)
    <3>1. opening.by # a
      BY <2>1, QueueAssumption DEF IInv, PlanOwned, Opens
    <3>2. Opens(a)'
      BY <2>2 DEF Opens
    <3>3. StandardReady(slot, session)' = StandardReady(slot, session)
      BY <2>1
    <3> QED
      BY <2>1, <3>1, <3>2, <3>3, Planning DEF Decides
  <2> QED
    BY <2>1, <2>3, <2>4, <2>5 DEF Footprint, IInv, Placed
<1>2. CASE OpenCommit(a)
  <2>1. PICK new \in NewOf(OwnPlan(a)) : session' = Planned(session, OwnPlan(a), new)
    BY <1>2 DEF OpenCommit
  <2>2. /\ tx[a].step = "opening" /\ slot' = slot
        /\ opening' = IF opening.by = a THEN NoPlan ELSE opening
        /\ tx' = [tx EXCEPT ![a] = IF a = "scheduler" /\ tx[a].mode = "behind"
                                   THEN Opener("tick") ELSE Idle]
    BY <1>2 DEF OpenCommit
  <2>3. /\ tx'[a] \in {Opener("tick"), Idle}
        /\ \A b \in Actors \ {a} : tx'[b] = tx[b]
    BY <1>0, <2>2
  <2>4. \A t \in {Opener("tick"), Idle} :
          t.step \in {"idle", "open"}
    <3>1. Opener("tick").step = "open"
      BY DEF Opener, Idle
    <3>2. Idle.step = "idle"
      BY DEF Idle
    <3> QED
      BY <3>1, <3>2
  <2>5. OthersStay(a) /\ StartsFirst(a) /\ TakesFree(a)
    BY <2>2, <2>3, <2>4 DEF OthersStay, StartsFirst, TakesFree, HoldsSlot
  <2>6. \A x \in Sessions : ~WillClose(a, x)
    BY <2>2 DEF WillClose
  <2>7. session \in [Sessions -> SessionRow]
    BY <1>0 DEF Typed
  <2>8. /\ OpensOwn(a) /\ Decides(a) /\ Plays(a)
        /\ \A x \in Sessions : session'[x].status \in {"READY", "PLAYING"} =>
                                session'[x].slot \in Slots
    BY <2>1, <2>2, <2>6, <2>7, Committing
  <2> QED
    BY <2>2, <2>5, <2>8 DEF Footprint, WritesOwn
<1> QED
  BY <1>1, <1>2 DEF OpenerStep

LEMMA StartFootprint ==
    ASSUME IInv, NEW a \in Actors, StartStep(a)
    PROVE  Footprint(a)
<1>0. Typed /\ tx \in [Actors -> Tx] /\ tx[a] \in Tx
  BY Rows DEF IInv, TypeOK, Typed
<1>1. tx[a].step \in {"start", "starting"} /\ ~Opens(a)
  BY DEF StartStep, StartBegin, StartRefused, StartCommit, StartTooLate, Opens
<1>2. ASSUME NEW t \in Tx, tx' = [tx EXCEPT ![a] = t], UNCHANGED <<slot, session, opening>>,
             t.step \in {"failed", "idle", "open"}
      PROVE  Footprint(a)
  <2>1. tx'[a] = t
    BY <1>0, <1>2
  <2> QED
    BY <1>1, <1>2, Moves
<1>3. AfterStart(a) \in Tx /\ AfterStart(a).step \in {"open", "idle"}
  BY AfterStartTyped DEF AfterStart, Opener, Idle
<1>4. ASSUME StartFails(a) PROVE Footprint(a)
  <2>1. /\ [tx[a] EXCEPT !.step = "failed"] \in Tx
        /\ [tx[a] EXCEPT !.step = "failed"].step = "failed"
    BY <1>0 DEF Tx
  <2>2. Idle \in Tx /\ Idle.step = "idle"
    BY Records DEF Idle
  <2>3. CASE a = "scheduler"
    BY <1>2, <1>4, <2>1, <2>3 DEF StartFails
  <2>4. CASE a # "scheduler"
    BY <1>2, <1>4, <2>2, <2>4 DEF StartFails
  <2> QED
    BY <2>3, <2>4
<1>5. CASE StartBegin(a)
  <2> DEFINE s == tx[a].slot
  <2>1. PICK x \in IF ReadyOf(s, session) = {} THEN {None} ELSE ReadyOf(s, session) :
          tx' = [tx EXCEPT ![a].step = "starting", ![a].session = x]
    BY <1>5 DEF StartBegin
  <2>2. /\ tx'[a].step = "starting" /\ tx'[a].slot = s /\ tx'[a].session = x
        /\ \A b \in Actors \ {a} : tx'[b] = tx[b]
    BY <1>0, <2>1 DEF Tx
  <2>3. ~SlotHeld(s, a) /\ MayStart(s) /\ UNCHANGED <<slot, session, opening>>
    BY <1>5 DEF StartBegin
  <2>4. s \in Slots /\ slot[s].status \in {"NEXT", "READY"} /\ Live(session) = {}
    BY <2>3, QueueAssumption DEF MayStart, SlotReady, DueBigSlots, Heads
  <2>5. OthersStay(a) /\ StartsFirst(a)
    <3>1. x # None => session[x].slot = s
      BY DEF ReadyOf
    <3> QED
      BY <2>2, <2>3, <2>4, <3>1 DEF OthersStay, StartsFirst
  <2>6. TakesFree(a)
    BY <2>2, <2>3 DEF TakesFree, HoldsSlot
  <2>8. WritesOwn(a) /\ OpensOwn(a) /\ Plays(a)
    BY <2>3 DEF WritesOwn, OpensOwn, StaysReady, Plays, StaysLive
  <2>9. Decides(a)
    BY <1>1, <2>3, QueueAssumption DEF IInv, PlanOwned, Decides
  <2> QED
    BY <2>3, <2>5, <2>6, <2>8, <2>9 DEF Footprint, IInv, Placed
<1>6. CASE StartRefused(a)
  BY <1>2, <1>3, <1>4, <1>6 DEF StartRefused
<1>7. CASE StartCommit(a)
  <2> DEFINE s == tx[a].slot
             x == tx[a].session
  <2>1. /\ tx[a].step = "starting"
        /\ x # None => session[x].status = "READY"
        /\ slot' = [slot EXCEPT ![s].status = "PLAYING"]
        /\ opening' = opening
    BY <1>7 DEF StartCommit
  <2>2. PICK new \in Sessions :
          /\ \A y \in Sessions \ {new} : session'[y] = session[y]
          /\ session'[new].status = "PLAYING" /\ session'[new].slot = s
    <3>2. CASE x = None
      <4>1. PICK new \in Free :
              session' = [session EXCEPT ![new] = NewSession(s, "PLAYING", "unset")]
        BY <1>7, <3>2 DEF StartCommit
      <4> QED
        BY <1>0, <4>1 DEF Free, NewSession, Typed
    <3>3. CASE x # None
      <4>1. session' = [session EXCEPT ![x].status = "PLAYING"]
        BY <1>7, <3>3 DEF StartCommit
      <4>2. x \in Sessions /\ session[x].slot = s
        BY <1>0, <2>1, <3>3 DEF Tx, IInv, StartsOwn
      <4> QED
        BY <1>0, <4>1, <4>2 DEF Typed, SessionRow
    <3> QED
      BY <3>2, <3>3
  <2>3. /\ tx'[a].step \in {"open", "idle"}
        /\ \A b \in Actors \ {a} : tx'[b] = tx[b]
    <3>1. Opener("behind").step = "open"
      BY DEF Opener, Idle
    <3> QED
      BY <1>0, <1>3, <1>7, <3>1 DEF StartCommit
  <2>4. OthersStay(a) /\ StartsFirst(a) /\ TakesFree(a)
    BY <2>3 DEF OthersStay, StartsFirst, TakesFree, HoldsSlot
  <2>5. WritesOwn(a)
    <3> SUFFICES ASSUME NEW r \in Slots, slot'[r].status # slot[r].status
                 PROVE  /\ ~SlotHeld(r, a) /\ slot[r].status # "CANCELLED"
                        /\ slot'[r].status # "CANCELLED"
      BY DEF WritesOwn
    <3>1. r = s /\ slot'[r].status = "PLAYING"
      BY <1>0, <2>1 DEF Typed, SlotRow
    <3>2. slot[s].status \in {"NEXT", "READY"}
      BY <2>1 DEF IInv, StartsQueued
    <3>3. ~SlotHeld(s, a)
      BY <2>1, <3>1 DEF IInv, SlotLocks, SlotHeld, HoldsSlot
    <3> QED
      BY <3>1, <3>2, <3>3
  <2>6. OpensOwn(a)
    BY <2>2 DEF OpensOwn, StaysReady
  <2>7. Decides(a)
    BY <1>1, <2>1, QueueAssumption DEF IInv, PlanOwned, Decides
  <2>8. Plays(a)
    <3>1. \A y \in Sessions \ {new} : StaysLive(y)
      BY <2>2 DEF StaysLive
    <3> QED
      BY <2>1, <2>2, <2>3, <3>1 DEF Plays
  <2>9. s \in Slots
    BY <2>1 DEF IInv, Placed
  <2> QED
    BY <2>2, <2>4, <2>5, <2>6, <2>7, <2>8, <2>9 DEF Footprint, IInv, Placed
<1>8. CASE StartTooLate(a)
  BY <1>4, <1>8 DEF StartTooLate
<1> QED
  BY <1>5, <1>6, <1>7, <1>8 DEF StartStep

\* What makes a registration standard-ready no more, once s is put back.
LEMMA LeftOpen ==
    ASSUME IInv, NEW a, NEW x, NEW s, NEW order \in Nat,
           NEW st \in {"FINISHED", "CANCELLED"},
           StandardReady(Restored(slot, s, order), Over(x, a, st)) = {},
           NEW y \in StandardReady(slot, session)
    PROVE  y = x \/ (s \in Once /\ session[y].slot = s)
<1> SUFFICES ASSUME y # x PROVE s \in Once /\ session[y].slot = s
  OBVIOUS
<1>0. Typed
  BY DEF IInv, TypeOK, Typed
<1>1. Over(x, a, st)[y] = session[y]
  BY <1>0, OverRows DEF StandardReady
<1>2. session[y].slot \in Slots
  BY DEF IInv, Placed, StandardReady
<1>3. Restored(slot, s, order)[session[y].slot].status = "CANCELLED"
  BY <1>1 DEF StandardReady
<1>4. slot[session[y].slot].status # "CANCELLED"
  BY DEF StandardReady
<1>5. slot[session[y].slot] \in SlotRow
  BY <1>0, <1>2 DEF Typed
<1> QED
  BY <1>0, <1>2, <1>3, <1>4, <1>5 DEF Restored, Typed, SlotRow

\* A transaction that puts a slot back, and plans what to open then.
LEMMA PutsBack ==
    ASSUME IInv, NEW a \in Actors, NEW x, NEW s, NEW order \in Nat,
           NEW st \in {"FINISHED", "CANCELLED"}, NEW mode, NEW t \in AnyTx,
           opening.by # a, ~SlotHeld(s, a),
           TryOpen(a, Restored(slot, s, order), Over(x, a, st), mode),
           t.step = "ending" \/ (t.step = "closing" /\ t.requeue),
           t.session = x, t.slot = s,
           Store(slot, [tx EXCEPT ![a] = t]), session' = session
    PROVE  Footprint(a)
<1>0. Typed
  BY DEF IInv, TypeOK, Typed
<1>1. /\ \A r \in Slots : slot'[r].status = slot[r].status
      /\ tx'[a].step = t.step /\ tx'[a].session = x /\ tx'[a].slot = s
      /\ tx'[a].requeue = t.requeue
      /\ OthersStay(a)
  <2> DEFINE u == [tx EXCEPT ![a] = t]
  <2>1. slot \in [Slots -> AnySlotRow] /\ tx \in [Actors -> AnyTx]
    BY <1>0, Rows
  <2>2. u \in [Actors -> AnyTx] /\ u[a] = t /\ \A b \in Actors \ {a} : u[b] = tx[b]
    BY <2>1
  <2> HIDE DEF u
  <2>3. /\ \A r \in Slots : slot'[r].status = slot[r].status
        /\ \A b \in Actors :
             /\ tx'[b].step = u[b].step /\ tx'[b].session = u[b].session
             /\ tx'[b].slot = u[b].slot /\ tx'[b].mode = u[b].mode
             /\ tx'[b].requeue = u[b].requeue
    <3>1. Store(slot, u)
      BY DEF u
    <3> QED
      BY <2>1, <2>2, <3>1, Stored
  <2> QED
    BY <2>2, <2>3 DEF OthersStay
<1>2. TakesFree(a)
  BY <1>1 DEF TakesFree, HoldsSlot
<1>3. WritesOwn(a) /\ StartsFirst(a) /\ OpensOwn(a) /\ Plays(a)
  BY <1>1 DEF WritesOwn, StartsFirst, OpensOwn, StaysReady, Plays, StaysLive
<1>5. Decides(a)
  <2>1. CASE opening.by # None /\ opening' = opening
    BY <2>1 DEF Decides
  <2>2. CASE /\ opening.by = None /\ opening'.by = a
             /\ opening'.create # None =>
                  StandardReady(Restored(slot, s, order), Over(x, a, st)) = {}
    <3>1. Opens(a)'
      BY <1>1 DEF Opens
    <3>2. ASSUME opening'.create # None, NEW y \in StandardReady(slot, session)'
          PROVE  WillClose(a, y)'
      <4>1. y \in StandardReady(slot, session)
        BY <1>1, <3>2 DEF StandardReady, IInv, Placed
      <4>2. y = x \/ (s \in Once /\ session[y].slot = s)
        BY <2>2, <3>2, <4>1, LeftOpen
      <4> QED
        BY <1>1, <4>2 DEF WillClose
    <3> QED
      BY <2>2, <3>1, <3>2 DEF Decides
  <2> QED
    BY <2>1, <2>2, Planning
<1> QED
  BY <1>1, <1>2, <1>3, <1>5 DEF Footprint, IInv, Placed

\* A transaction that ends a session.
LEMMA PutBack ==
    ASSUME IInv, NEW a \in Actors, tx[a].step \in {"closing", "ending"},
           NEW st \in {"FINISHED", "CANCELLED"}, NEW new \in NewOf(OwnPlan(a)),
           session' = Planned(Over(tx[a].session, a, st), OwnPlan(a), new),
           opening' = IF opening.by = a THEN NoPlan ELSE opening,
           NEW t \in AnyTx, t.step \notin {"starting", "opening", "closing", "ending"},
           Store(IF tx[a].step = "ending" \/ tx[a].requeue
                 THEN Restored(slot, tx[a].slot, tx[a].order) ELSE slot, [tx EXCEPT ![a] = t])
    PROVE  Footprint(a)
<1> DEFINE s == tx[a].slot
           x == tx[a].session
           again == tx[a].step = "ending" \/ tx[a].requeue
           sl == IF again THEN Restored(slot, s, tx[a].order) ELSE slot
<1>0. Typed
  BY DEF IInv, TypeOK, Typed
<1>1. sl \in [Slots -> AnySlotRow]
  <2>1. tx[a].order \in Nat
    BY <1>0, Rows DEF AnyTx
  <2> QED
    BY <1>0, <2>1, Rows, RestoredTyped
<1>2. /\ \A r \in Slots : slot'[r].status = sl[r].status
      /\ tx'[a].step = t.step
      /\ OthersStay(a)
  <2> DEFINE u == [tx EXCEPT ![a] = t]
  <2>1. tx \in [Actors -> AnyTx]
    BY <1>0, Rows
  <2>2. u \in [Actors -> AnyTx] /\ u[a] = t /\ \A b \in Actors \ {a} : u[b] = tx[b]
    BY <2>1
  <2>3. Store(sl, u)
    OBVIOUS
  <2> HIDE DEF u, sl
  <2>4. /\ \A r \in Slots : slot'[r].status = sl[r].status
        /\ \A b \in Actors :
             /\ tx'[b].step = u[b].step /\ tx'[b].session = u[b].session
             /\ tx'[b].slot = u[b].slot /\ tx'[b].mode = u[b].mode
             /\ tx'[b].requeue = u[b].requeue
    BY <1>1, <2>2, <2>3, Stored
  <2> QED
    BY <2>2, <2>4 DEF OthersStay
<1>3. \A r \in Slots :
        sl[r].status # slot[r].status =>
          again /\ r = s /\ sl[r].status = (IF r \in Once THEN "CANCELLED" ELSE "NEXT")
  BY <1>0 DEF Restored, Typed, SlotRow
<1>4. again /\ s \in Slots \cap Once => sl[s].status = "CANCELLED"
  BY <1>0 DEF Restored, Typed, SlotRow
<1> HIDE DEF sl
<1>5. WritesOwn(a)
  <2> SUFFICES ASSUME NEW r \in Slots, slot'[r].status # slot[r].status
               PROVE  /\ ~SlotHeld(r, a)
                      /\ r \in Once => slot[r].status # "CANCELLED"
    BY DEF WritesOwn
  <2>1. again /\ r = s /\ slot'[r].status = (IF r \in Once THEN "CANCELLED" ELSE "NEXT")
    BY <1>2, <1>3
  <2>2. ~SlotHeld(s, a)
    BY <2>1 DEF IInv, SlotLocks, SlotHeld, HoldsSlot
  <2> QED
    BY <2>1, <2>2
<1>6. TakesFree(a) /\ StartsFirst(a)
  BY <1>2 DEF TakesFree, StartsFirst, HoldsSlot
<1>7. /\ OpensOwn(a) /\ Decides(a) /\ Plays(a)
      /\ \A y \in Sessions : session'[y].status \in {"READY", "PLAYING"} =>
                              session'[y].slot \in Slots
  <2> DEFINE ss == Over(x, a, st)
  <2>1. ss \in [Sessions -> SessionRow]
    BY <1>0, OverTyped
  <2>2. \A y \in Sessions : ss[y].status \in {"READY", "PLAYING"} => y # x /\ ss[y] = session[y]
    BY <1>0, OverRows
  <2>3. session' = Planned(ss, OwnPlan(a), new)
    OBVIOUS
  <2> HIDE DEF ss
  <2>4. ASSUME NEW y \in Sessions, opening.by = a, WillClose(a, y), ss[y].status = "READY"
        PROVE  slot'[session[y].slot].status = "CANCELLED"
    <3>1. again
      BY <2>4, QueueAssumption DEF IInv, PlanOwned, Opens
    <3>2. s \in Once /\ session[y].slot = s
      BY <2>2, <2>4 DEF WillClose
    <3> QED
      BY <1>2, <1>4, <3>1, <3>2, QueueAssumption
  <2> QED
    BY <2>1, <2>2, <2>3, <2>4, Committing
<1> QED
  BY <1>2, <1>5, <1>6, <1>7 DEF Footprint

LEMMA EndFootprint ==
    ASSUME IInv, (\E x \in Sessions : EndBegin(x)) \/ EndCommit \/ EndDeadlock
    PROVE  Footprint("finalizer")
<1> DEFINE a == "finalizer"
<1>0. Typed /\ a \in Actors
  BY DEF IInv, TypeOK, Typed, Actors
<1>i. /\ Idle \in Tx /\ Idle \in AnyTx
      /\ Idle.step = "idle"
  BY Records, Bounds DEF Tx, AnyTx, Steps, Idle
<1>1. ASSUME NEW x \in Sessions, EndBegin(x) PROVE Footprint(a)
  <2> DEFINE s == session[x].slot
             order == LastOrder(slot) + 1
             t == [Idle EXCEPT !.step = "ending", !.session = x, !.slot = s, !.order = order]
  <2>1. order \in Nat
    BY <1>0, LastInQueue
  <2>2. /\ t \in AnyTx
        /\ t.step = "ending" /\ t.session = x /\ t.slot = s
    <3>1. \A r \in Slots \cup {None}, n \in Nat :
            LET u == [Idle EXCEPT !.step = "ending", !.session = x, !.slot = r, !.order = n]
            IN  /\ u \in AnyTx
                /\ u.step = "ending" /\ u.session = x /\ u.slot = r
      BY <1>i DEF AnyTx, Steps
    <3>2. s \in Slots \cup {None}
      BY <1>0 DEF Typed, SessionRow
    <3> QED
      BY <2>1, <3>1, <3>2
  <2>3. /\ tx[a] = Idle /\ ~SlotHeld(s, a) /\ session' = session
        /\ TryOpen(a, Restored(slot, s, order), Over(x, a, "FINISHED"), "now")
        /\ Store(slot, [tx EXCEPT ![a] = t])
    BY <1>1 DEF EndBegin
  <2>4. opening.by # a
    BY <1>0, <1>i, <2>3, QueueAssumption DEF IInv, PlanOwned, Opens
  <2> HIDE DEF t, order
  <2> QED
    BY <1>0, <1>i, <2>1, <2>2, <2>3, <2>4, PutsBack
<1>2. CASE EndCommit
  <2>1. PICK new \in NewOf(OwnPlan(a)) :
          session' = Planned(Over(tx[a].session, a, "FINISHED"), OwnPlan(a), new)
    BY <1>2 DEF EndCommit
  <2>2. /\ tx[a].step = "ending"
        /\ Store(Restored(slot, tx[a].slot, tx[a].order), [tx EXCEPT ![a] = Idle])
        /\ opening' = IF opening.by = a THEN NoPlan ELSE opening
    BY <1>2 DEF EndCommit
  <2> QED
    BY <1>0, <1>i, <2>1, <2>2, PutBack
<1>3. CASE EndDeadlock
  <2>1. /\ tx' = [tx EXCEPT ![a] = Idle] /\ UNCHANGED <<slot, session>>
        /\ opening' = IF opening.by = a THEN NoPlan ELSE opening
    BY <1>3 DEF EndDeadlock
  <2>2. tx'[a] = Idle
    BY <1>0, <2>1 DEF Typed
  <2> QED
    BY <1>0, <1>i, <2>1, Moves
<1> QED
  BY <1>1, <1>2, <1>3

\* Where a cancellation goes on.
LEMMA AfterCancelGoes ==
    ASSUME IInv, NEW a \in Actors, NEW t \in {AfterCancel(a), CancelFailed(a), Idle}
    PROVE  /\ t \in Tx /\ t \in AnyTx
           /\ t.step \notin {"starting", "opening", "closing", "ending"}
<1>0. Typed /\ tx[a] \in Tx
  BY Rows DEF IInv, TypeOK, Typed
<1>1. t \in Tx
  BY <1>0, AfterCancelTyped, Records
<1>2. Idle.step = "idle"
  BY DEF Idle
<1>3. Opener("tick").step = "open"
  BY DEF Opener, Idle
<1> DEFINE u == [tx[a] EXCEPT !.step = tx[a].then, !.session = None,
                              !.todo = tx[a].todo \ {tx[a].session}]
<1>4. u.step = tx[a].then
  BY <1>0 DEF Tx
<1>5. tx[a].then \in {"idle", "start", "remove", "clear", "repair"}
  BY <1>0 DEF Tx
<1>6. t = Opener("tick") \/ t = Idle \/ t = u
  BY DEF AfterCancel, CancelFailed
<1> HIDE DEF u
<1>7. /\ t.step \notin {"starting", "opening", "closing", "ending"}
  BY <1>2, <1>3, <1>4, <1>5, <1>6
<1>8. t \in AnyTx
  BY <1>1, Bounds DEF Tx, AnyTx, Steps
<1> QED
  BY <1>1, <1>7, <1>8

LEMMA CancelFootprint ==
    ASSUME IInv, NEW a \in Actors, CancelStep(a)
    PROVE  Footprint(a)
<1>0. Typed /\ tx \in [Actors -> Tx] /\ tx[a] \in Tx /\ tx[a] \in AnyTx
  BY Rows DEF IInv, TypeOK, Typed
<1>1. CASE CancelClaim(a)
  <2>1. PICK st \in {"start", "cancelling"} :
          /\ tx' = [tx EXCEPT ![a] = [tx[a] EXCEPT !.step = st]]
          /\ st = "start" => tx[a].then = "start"
    BY <1>1 DEF CancelClaim
  <2> DEFINE t == [tx[a] EXCEPT !.step = st]
  <2>2. t \in Tx /\ t.step = st
    BY <1>0 DEF Tx
  <2>3. tx[a].step = "cancel" /\ UNCHANGED <<slot, session, opening>>
    BY <1>1 DEF CancelClaim
  <2> HIDE DEF t
  <2>4. tx' = [tx EXCEPT ![a] = t] /\ tx'[a] = t
    BY <1>0, <2>1 DEF t
  <2>6. ~Opens(a)
    BY <2>3 DEF Opens
  <2> QED
    BY <2>2, <2>3, <2>4, <2>6, Moves
<1>2. CASE CancelRefused(a)
  <2>1. PICK t \in {AfterCancel(a), CancelFailed(a), Idle} : tx' = [tx EXCEPT ![a] = t]
    BY <1>2 DEF CancelRefused
  <2>2. tx[a].step = "cancel" /\ UNCHANGED <<slot, session, opening>>
    BY <1>2 DEF CancelRefused
  <2>3. tx'[a] = t
    BY <1>0, <2>1
  <2>5. ~Opens(a)
    BY <2>2 DEF Opens
  <2> QED
    BY <2>1, <2>2, <2>5, AfterCancelGoes, Moves
<1>3. CASE CancelRestore(a)
  <2> DEFINE x == tx[a].session
             s == tx[a].slot
             order == LastOrder(slot) + 1
  <2>1. tx[a].step = "cancelling" /\ session' = session
    BY <1>3 DEF CancelRestore
  <2>2. opening.by # a
    BY <2>1, QueueAssumption DEF IInv, PlanOwned, Opens
  <2>3. CASE tx[a].requeue
    <3> DEFINE t == [tx[a] EXCEPT !.step = "closing", !.order = order]
    <3>1. order \in Nat
      BY <1>0, LastInQueue
    <3>2. /\ ~SlotHeld(s, a)
          /\ TryOpen(a, Restored(slot, s, order), Over(x, a, "CANCELLED"), "behind")
          /\ Store(slot, [tx EXCEPT ![a].step = "closing", ![a].order = order])
      BY <1>3, <2>3 DEF CancelRestore
    <3>3. [tx EXCEPT ![a].step = "closing", ![a].order = order] = [tx EXCEPT ![a] = t]
      BY <1>0
    <3>4. Store(slot, [tx EXCEPT ![a] = t])
      BY <3>2, <3>3
    <3> HIDE DEF order
    <3>5. /\ t \in AnyTx /\ t.step = "closing" /\ t.requeue = tx[a].requeue
          /\ t.session = x /\ t.slot = s
      BY <1>0, <3>1 DEF AnyTx, Steps
    <3> HIDE DEF t
    <3> QED
      BY <2>1, <2>2, <2>3, <3>1, <3>2, <3>4, <3>5, PutsBack
  <2>4. CASE ~tx[a].requeue
    <3> DEFINE t == [tx[a] EXCEPT !.step = "closing"]
    <3>1. /\ t \in Tx /\ t.step = "closing" /\ t.requeue = tx[a].requeue
      BY <1>0 DEF Tx
    <3>2. tx' = [tx EXCEPT ![a] = t] /\ UNCHANGED <<slot, opening>>
      BY <1>3, <2>4 DEF CancelRestore
    <3> HIDE DEF t
    <3>3. tx'[a] = t
      BY <1>0, <3>2
    <3>5. ~Opens(a)
      BY <2>1 DEF Opens
    <3> QED
      BY <2>1, <2>4, <3>1, <3>2, <3>5, Moves
  <2> QED
    BY <2>3, <2>4
<1>4. CASE CancelCommit(a)
  <2>1. PICK new \in NewOf(OwnPlan(a)) :
          session' = Planned(Over(tx[a].session, a, "CANCELLED"), OwnPlan(a), new)
    BY <1>4 DEF CancelCommit
  <2>2. /\ tx[a].step = "closing"
        /\ Store(IF tx[a].requeue THEN Restored(slot, tx[a].slot, tx[a].order) ELSE slot,
                 [tx EXCEPT ![a] = AfterCancel(a)])
        /\ opening' = IF opening.by = a THEN NoPlan ELSE opening
    BY <1>4 DEF CancelCommit
  <2>3. Store(IF tx[a].step = "ending" \/ tx[a].requeue
              THEN Restored(slot, tx[a].slot, tx[a].order) ELSE slot,
              [tx EXCEPT ![a] = AfterCancel(a)])
    <3>1. (tx[a].step = "ending" \/ tx[a].requeue) <=> tx[a].requeue
      BY <2>2
    <3> QED
      BY <2>2, <3>1
  <2> DEFINE t == AfterCancel(a)
  <2>4. /\ t \in AnyTx /\ t.step \notin {"starting", "opening", "closing", "ending"}
    BY AfterCancelGoes
  <2> HIDE DEF t
  <2>5. Store(IF tx[a].step = "ending" \/ tx[a].requeue
              THEN Restored(slot, tx[a].slot, tx[a].order) ELSE slot, [tx EXCEPT ![a] = t])
    BY <2>3 DEF t
  <2> QED
    BY <2>1, <2>2, <2>4, <2>5, PutBack
<1>5. CASE CancelDeadlock(a)
  <2>1. /\ tx' = [tx EXCEPT ![a] = CancelFailed(a)] /\ UNCHANGED <<slot, session>>
        /\ opening' = IF opening.by = a THEN NoPlan ELSE opening
    BY <1>5 DEF CancelDeadlock
  <2>2. PICK t \in {AfterCancel(a), CancelFailed(a), Idle} : t = CancelFailed(a)
    OBVIOUS
  <2>3. tx'[a] = t /\ tx' = [tx EXCEPT ![a] = t]
    BY <1>0, <2>1, <2>2
  <2> QED
    BY <2>1, <2>3, AfterCancelGoes, Moves
<1> QED
  BY <1>1, <1>2, <1>3, <1>4, <1>5 DEF CancelStep

\* A step that neither takes a slot nor opens or starts anything.
LEMMA Turns ==
    ASSUME IInv, NEW a \in Actors, OthersStay(a), ~Opens(a), opening' = opening,
           tx'[a].step \notin {"starting", "opening", "closing", "ending"},
           WritesOwn(a), \A x \in Sessions : StaysReady(x) /\ StaysLive(x)
    PROVE  Footprint(a)
<1>1. TakesFree(a) /\ StartsFirst(a)
  BY DEF TakesFree, HoldsSlot, StartsFirst
<1>2. OpensOwn(a) /\ Plays(a)
  BY DEF OpensOwn, Plays
<1>3. Decides(a)
  BY QueueAssumption DEF IInv, PlanOwned, Decides
<1>4. \A x \in Sessions : session'[x].status \in {"READY", "PLAYING"} => session'[x].slot \in Slots
  BY DEF StaysReady, StaysLive, IInv, Placed
<1> QED
  BY <1>1, <1>2, <1>3, <1>4 DEF Footprint

LEMMA TickFootprint ==
    ASSUME IInv, TickStep
    PROVE  Footprint("scheduler")
<1> DEFINE a == "scheduler"
<1>0. /\ a \in Actors /\ Typed /\ tx \in [Actors -> Tx]
      /\ tx[a] \in Tx /\ session \in [Sessions -> SessionRow]
  BY Rows DEF IInv, TypeOK, Typed, Actors
<1>i. Idle.step = "idle"
  BY DEF Idle
<1>o. \A mode \in OpenerMode : Opener(mode).step = "open"
  BY DEF Opener, Idle
<1>1. ASSUME NEW t, tx' = [tx EXCEPT ![a] = t],
             t.step \notin {"starting", "opening", "closing", "ending"},
             ~Opens(a), UNCHANGED <<slot, opening>>,
             \A x \in Sessions :
               session'[x].status = session[x].status /\ session'[x].slot = session[x].slot
      PROVE  Footprint(a)
  <2>1. tx'[a] = t /\ OthersStay(a)
    BY <1>0, <1>1 DEF OthersStay
  <2>3. WritesOwn(a)
    BY <1>1 DEF WritesOwn
  <2> QED
    BY <1>0, <1>1, <2>1, <2>3, Turns DEF StaysReady, StaysLive
<1>2. \A due : \A x \in Sessions :
        /\ [session[x] EXCEPT !.due = due].status = session[x].status
        /\ [session[x] EXCEPT !.due = due].slot = session[x].slot
  BY <1>0 DEF SessionRow
<1>3. CASE TickRepair
  <2>1. ASSUME NEW x \in Sessions
        PROVE  session'[x].status = session[x].status /\ session'[x].slot = session[x].slot
    <3>1. \/ session'[x] = session[x]
          \/ \E due : session'[x] = [session[x] EXCEPT !.due = due]
      <4>1. session' \in Repaired
        BY <1>3 DEF TickRepair
      <4>2. CASE Live(session) # {}
        BY <4>1, <4>2 DEF Repaired
      <4>3. CASE Live(session) = {}
        <5>1. session' = session \/ \E z : session' = [session EXCEPT ![z].due = "running"]
          BY <4>1, <4>3 DEF Repaired
        <5>2. ASSUME NEW z, session' = [session EXCEPT ![z].due = "running"]
              PROVE  session'[x] = session[x] \/ session'[x] = [session[x] EXCEPT !.due = "running"]
          BY <1>0, <5>2
        <5> QED
          BY <5>1, <5>2
      <4> QED
        BY <4>2, <4>3
    <3>2. ASSUME NEW due, session'[x] = [session[x] EXCEPT !.due = due]
          PROVE  session'[x].status = session[x].status /\ session'[x].slot = session[x].slot
      BY <1>2, <3>2
    <3> QED
      BY <3>1, <3>2
  <2> DEFINE t == [tx[a] EXCEPT !.step = "choose"]
  <2>2. t.step = "choose"
    BY <1>0 DEF Tx
  <2>3. tx' = [tx EXCEPT ![a] = t] /\ tx[a] = Idle /\ UNCHANGED <<slot, opening>>
    BY <1>3 DEF TickRepair
  <2>4. ~Opens(a)
    BY <1>i, <2>3 DEF Opens
  <2> HIDE DEF t
  <2> QED
    BY <1>1, <2>1, <2>2, <2>3, <2>4
<1>4. CASE TickNothing
  <2>1. /\ tx' = [tx EXCEPT ![a] = Opener("tick")] /\ tx[a].step = "choose"
        /\ UNCHANGED <<slot, session, opening>>
    BY <1>4 DEF TickNothing
  <2>2. ~Opens(a)
    BY <2>1 DEF Opens
  <2>3. Opener("tick").step = "open"
    BY <1>o DEF OpenerMode
  <2> QED
    BY <1>1, <2>1, <2>2, <2>3
<1>5. CASE StartFailed
  <2>1. ASSUME NEW x \in Sessions
        PROVE  session'[x].status = session[x].status /\ session'[x].slot = session[x].slot
    BY <1>0, <1>2, <1>5, <2>1 DEF StartFailed
  <2>2. tx' = [tx EXCEPT ![a] = Opener("tick")] /\ tx[a].step = "failed" /\ UNCHANGED <<slot, opening>>
    BY <1>5 DEF StartFailed, AfterStart
  <2>3. ~Opens(a)
    BY <2>2 DEF Opens
  <2>4. Opener("tick").step = "open"
    BY <1>o DEF OpenerMode
  <2> QED
    BY <1>1, <2>1, <2>2, <2>3, <2>4
<1>6. ASSUME NEW x \in Sessions, TickDue(x) PROVE Footprint(a)
  <2> DEFINE s == session[x].slot
             st == IF session[x].players THEN "start" ELSE "cancel"
             u == [Idle EXCEPT !.step = st, !.session = x, !.slot = s, !.then = "start", !.todo = {x}]
  <2>1. ASSUME NEW y \in Sessions
        PROVE  session'[y].status = session[y].status /\ session'[y].slot = session[y].slot
    BY <1>0, <1>2, <1>6, <2>1 DEF TickDue
  <2>2. /\ tx' = [tx EXCEPT ![a] = IF s \notin Big \cup Automatic THEN Opener("tick") ELSE u]
        /\ tx[a].step = "choose" /\ UNCHANGED <<slot, opening>>
    BY <1>6 DEF TickDue
  <2>3. ~Opens(a)
    BY <2>2 DEF Opens
  <2>4. CASE s \notin Big \cup Automatic
    <3>1. Opener("tick").step = "open"
      BY <1>o DEF OpenerMode
    <3> QED
      BY <1>1, <2>1, <2>2, <2>3, <2>4, <3>1
  <2>5. CASE s \in Big \cup Automatic
    <3>1. u.step \in {"start", "cancel"}
      BY DEF Idle
    <3>2. tx' = [tx EXCEPT ![a] = u]
      BY <2>2, <2>5
    <3> HIDE DEF u
    <3> QED
      BY <1>1, <2>1, <2>2, <2>3, <2>5, <3>1, <3>2
  <2> QED
    BY <2>4, <2>5
<1> QED
  BY <1>3, <1>4, <1>5, <1>6 DEF TickStep

LEMMA AdminFootprint ==
    ASSUME IInv, AdminOperation \/ AdminStep
    PROVE  Footprint("admin")
<1> DEFINE a == "admin"
           SameStatus == \A s \in Slots : slot'[s].status = slot[s].status
<1>0. /\ a \in Actors /\ Typed /\ tx \in [Actors -> Tx] /\ tx[a] \in Tx
      /\ session \in [Sessions -> SessionRow] /\ slot \in [Slots -> SlotRow]
  BY Rows DEF IInv, TypeOK, Typed, Actors
<1>i. Idle.step = "idle"
  BY DEF Idle
<1>o. Opener("now").step = "open"
  BY DEF Opener, Idle
\* His next step t; the slots are kept, or those he may write to.
<1>1. ASSUME NEW t, AdminGoes(t), opening' = opening, tx[a].step \notin {"opening", "closing", "ending"},
             t.step \notin {"starting", "opening", "closing", "ending"},
             SameStatus \/ WritesOwn(a),
             \A x \in Sessions : session'[x] = session[x] \/ session'[x].status = "CANCELLED"
      PROVE  Footprint(a)
  <2>1. tx'[a] = t /\ OthersStay(a)
    BY <1>0, <1>1 DEF OthersStay, AdminGoes
  <2>3. WritesOwn(a)
    BY <1>1 DEF WritesOwn
  <2>4. ~Opens(a)
    BY <1>1 DEF Opens
  <2> QED
    BY <1>0, <1>1, <2>1, <2>3, <2>4, Turns DEF StaysReady, StaysLive
<1>2. ASSUME NEW s \in Slots, AdminStart(s) PROVE Footprint(a)
  <2>1. /\ [Idle EXCEPT !.step = "start", !.slot = s].step = "start"
    BY DEF Idle
  <2> QED
    BY <1>1, <1>2, <1>i, <2>1 DEF AdminStart, Admin
<1>3. ASSUME NEW x \in Sessions, AdminCancel(x) PROVE Footprint(a)
  <2> DEFINE t == [Idle EXCEPT !.step = "cancel", !.session = x, !.slot = session[x].slot]
  <2>1. t.step = "cancel"
    BY DEF Idle
  <2>2. AdminGoes(t) /\ tx[a] = Idle /\ UNCHANGED <<slot, session, opening>>
    BY <1>3 DEF AdminCancel, Admin
  <2> HIDE DEF t
  <2> QED
    BY <1>1, <1>i, <2>1, <2>2
<1>4. ASSUME NEW s \in Slots, AdminRemove(s) PROVE Footprint(a)
  <2> DEFINE t == [Idle EXCEPT !.step = "remove", !.slot = s, !.todo = ActiveOf(s),
                               !.keep = IF slot[s].status = "PLAYING" THEN {} ELSE {s}]
  <2>1. t.step = "remove"
    BY DEF Idle
  <2>2. /\ AdminGoes(t) /\ tx[a] = Idle /\ UNCHANGED <<slot, session, opening>>
        /\ "remove" \in AdminMay
    BY <1>4 DEF AdminRemove, Admin
  <2> HIDE DEF t
  <2> QED
    BY <1>1, <1>i, <2>1, <2>2
<1>5. ASSUME NEW x \in Sessions, RemoveSession(x) PROVE Footprint(a)
  <2> DEFINE t == [tx[a] EXCEPT !.step = "cancel", !.session = x, !.requeue = FALSE, !.then = "remove"]
  <2>1. t.step = "cancel"
    BY <1>0 DEF Tx
  <2>2. AdminGoes(t) /\ tx[a].step = "remove" /\ UNCHANGED <<slot, session, opening>>
    BY <1>5 DEF RemoveSession
  <2> HIDE DEF t
  <2> QED
    BY <1>1, <2>1, <2>2
<1>6. CASE RemoveSlot
  <2> DEFINE s == tx[a].slot
  <2>1. PICK t \in {Opener("now"), Idle} : AdminGoes(t)
    BY <1>6 DEF RemoveSlot
  <2>2. /\ tx[a].step = "remove" /\ UNCHANGED <<session, opening>>
        /\ ~SlotHeld(s, a) /\ slot' = [slot EXCEPT ![s].status = "CANCELLED"]
    BY <1>6 DEF RemoveSlot
  <2>3. \A r \in Slots : slot'[r].status # slot[r].status => r = s /\ slot[r].status # "CANCELLED"
    BY <1>0, <2>2 DEF SlotRow
  <2>4. WritesOwn(a)
    BY <2>2, <2>3 DEF WritesOwn
  <2>5. t.step \in {"open", "idle"}
    BY <1>i, <1>o, <2>1
  <2> QED
    BY <1>1, <2>1, <2>2, <2>4, <2>5
<1>7. CASE AdminClear
  <2>1. PICK t : AdminGoes(t) /\ t.step \in {"clear", "cancel"}
    <3> DEFINE live == {session[x].slot : x \in Live(session)}
               regs == {x \in StandardReady(slot, session) : session[x].slot \notin live}
    <3>1. \A K : /\ [Idle EXCEPT !.step = "clear", !.keep = K].step = "clear"
      BY DEF Idle
    <3>2. CASE regs = {}
      <4>1. AdminGoes([Idle EXCEPT !.step = "clear", !.keep = live])
        BY <1>7, <3>2 DEF AdminClear
      <4> QED
        BY <3>1, <4>1
    <3>3. CASE regs # {}
      <4>1. PICK x \in HeadReady(regs, slot, session) :
              \/ AdminGoes([Idle EXCEPT !.step = "clear", !.keep = live \cup {session[x].slot}])
              \/ AdminGoes([Idle EXCEPT !.step = "cancel", !.session = x, !.slot = session[x].slot,
                              !.requeue = FALSE, !.then = "clear", !.keep = live])
        BY <1>7, <3>3 DEF AdminClear
      <4>2. ASSUME AdminGoes([Idle EXCEPT !.step = "clear", !.keep = live \cup {session[x].slot}])
            PROVE  \E t : AdminGoes(t) /\ t.step \in {"clear", "cancel"}
        BY <3>1, <4>2
      <4>3. ASSUME AdminGoes([Idle EXCEPT !.step = "cancel", !.session = x, !.slot = session[x].slot,
                                !.requeue = FALSE, !.then = "clear", !.keep = live])
            PROVE  \E t : AdminGoes(t) /\ t.step \in {"clear", "cancel"}
        <5> DEFINE u == [Idle EXCEPT !.step = "cancel", !.session = x, !.slot = session[x].slot,
                                     !.requeue = FALSE, !.then = "clear", !.keep = live]
        <5>1. u.step = "cancel"
          BY DEF Idle
        <5>2. AdminGoes(u)
          BY <4>3
        <5> HIDE DEF u
        <5> QED
          BY <5>1, <5>2
      <4> QED
        BY <4>1, <4>2, <4>3
    <3> QED
      BY <3>2, <3>3
  <2>2. /\ "clear" \in AdminMay /\ tx[a] = Idle
        /\ UNCHANGED <<slot, session, opening>>
    BY <1>7 DEF AdminClear, Admin
  <2> QED
    BY <1>1, <1>i, <2>1, <2>2
<1>8. CASE ClearSlots
  <2>1. /\ AdminGoes(Opener("now")) /\ tx[a].step = "clear" /\ UNCHANGED <<session, opening>>
    BY <1>8 DEF ClearSlots
  <2>2. \A r \in Slots : slot'[r].status # slot[r].status =>
          ~SlotHeld(r, a) /\ slot[r].status # "CANCELLED"
    BY <1>0, <1>8 DEF ClearSlots, SlotRow
  <2>3. WritesOwn(a)
    BY <2>1, <2>2 DEF WritesOwn
  <2> QED
    BY <1>1, <1>o, <2>1, <2>3
<1>9. ASSUME NEW sl \in [Slots -> AnySlotRow], NEW t \in AnyTx,
             Store(sl, [tx EXCEPT ![a] = t]), tx[a] = Idle, UNCHANGED <<session, opening>>,
             t.step \in {"idle", "open"},
             \A r \in Slots : sl[r].status # slot[r].status =>
               slot[r].status = "ABSENT" /\ sl[r].status = "NEXT"
      PROVE  Footprint(a)
  <2> DEFINE u == [tx EXCEPT ![a] = t]
  <2>1. tx \in [Actors -> AnyTx]
    BY <1>0, Rows
  <2>2. u \in [Actors -> AnyTx] /\ u[a] = t /\ \A b \in Actors \ {a} : u[b] = tx[b]
    BY <1>0, <1>9, <2>1
  <2>3. Store(sl, u)
    BY <1>9
  <2> HIDE DEF u
  <2>4. /\ \A r \in Slots : slot'[r].status = sl[r].status
        /\ \A b \in Actors :
             /\ tx'[b].step = u[b].step /\ tx'[b].session = u[b].session
             /\ tx'[b].slot = u[b].slot /\ tx'[b].mode = u[b].mode
             /\ tx'[b].requeue = u[b].requeue
    BY <2>2, <2>3, <1>9, Stored
  <2>5. OthersStay(a) /\ tx'[a].step \in {"idle", "open"}
    BY <1>0, <1>9, <2>2, <2>4 DEF OthersStay
  <2>6. WritesOwn(a)
    BY <1>9, <2>4 DEF WritesOwn
  <2>8. ~Opens(a)
    BY <1>9, <1>i DEF Opens
  <2> QED
    BY <1>0, <1>9, <2>5, <2>6, <2>8, Turns DEF StaysReady, StaysLive
<1>10. ASSUME NEW o \in Orders, AdminReorder(o) PROVE Footprint(a)
  <2> DEFINE sl == [s \in Slots |-> IF \E i \in DOMAIN o : o[i] = s
                              THEN [slot[s] EXCEPT !.order = CHOOSE i \in DOMAIN o : o[i] = s]
                              ELSE slot[s]]
  <2>1. sl \in [Slots -> AnySlotRow]
    <3>1. DOMAIN o \subseteq Nat
      <4>1. o \in Seq(Slots \ Big)
        BY QueueAssumption
      <4> QED
        BY <4>1
    <3>2. ASSUME NEW s \in Slots, \E i \in DOMAIN o : o[i] = s
          PROVE  (CHOOSE i \in DOMAIN o : o[i] = s) \in Nat
      BY <3>1, <3>2
    <3>3. \A s \in Slots, n \in Nat : [slot[s] EXCEPT !.order = n] \in AnySlotRow
      BY <1>0, Rows DEF AnySlotRow
    <3> QED
      BY <3>2, <3>3, <1>0, Rows
  <2>2. \A r \in Slots : sl[r].status = slot[r].status
    BY <1>0 DEF SlotRow
  <2>3. Store(sl, tx)
    BY <1>10 DEF AdminReorder
  <2> HIDE DEF sl
  <2>4. tx[a] = Idle /\ UNCHANGED <<session, opening>>
    BY <1>10 DEF AdminReorder, Admin
  <2>5. tx = [tx EXCEPT ![a] = Idle] /\ Idle \in AnyTx
    BY <1>0, <2>4, Rows
  <2> QED
    BY <1>9, <1>i, <2>1, <2>2, <2>3, <2>4, <2>5
<1>11. ASSUME NEW s \in Slots, AdminCreate(s) PROVE Footprint(a)
  <2> DEFINE queued == {r \in Slots \ Big : slot[r].status = "NEXT"}
             anchor(front) == LastOrder([r \in front |-> slot[r]])
             squeeze(front) == \E r \in front : Rule[r] = Rule[s]
             moved(front) == {r \in Slots : /\ squeeze(front) /\ slot[r].status = "NEXT"
                                            /\ slot[r].order > anchor(front)}
             new(front) == [status |-> "NEXT",
                            order |-> 1 + IF squeeze(front) THEN anchor(front)
                                          ELSE LastOrder(slot)]
             sl(front) == [r \in Slots |->
                IF r = s THEN new(front)
                ELSE IF r \in moved(front) THEN [slot[r] EXCEPT !.order = slot[r].order + 1]
                ELSE slot[r]]
             t == IF s \in Automatic THEN Opener("now") ELSE Idle
  <2>1. PICK front \in SUBSET queued : Store(sl(front), [tx EXCEPT ![a] = t])
    BY <1>11 DEF AdminCreate
  <2>2. sl(front) \in [Slots -> AnySlotRow]
    BY <1>0, <2>1, CreateTyped
  <2>3. /\ tx[a] = Idle /\ slot[s].status = "ABSENT" /\ UNCHANGED <<session, opening>>
    BY <1>11 DEF AdminCreate, Admin
  <2>4. \A r \in Slots : sl(front)[r].status # slot[r].status =>
          slot[r].status = "ABSENT" /\ sl(front)[r].status = "NEXT"
    <3>1. \A n : \A r \in Slots : [slot[r] EXCEPT !.order = n].status = slot[r].status
      BY <1>0 DEF SlotRow
    <3>2. new(front).status = "NEXT"
      OBVIOUS
    <3> HIDE DEF new, moved
    <3> QED
      BY <2>3, <3>1, <3>2
  <2>5. t \in AnyTx /\ t.step \in {"idle", "open"}
    <3>1. Opener("now") \in AnyTx /\ Idle \in AnyTx
      BY Records, Bounds DEF Tx, AnyTx, Steps, OpenerMode
    <3> QED
      BY <1>i, <1>o, <3>1
  <2> HIDE DEF sl, t
  <2> QED
    BY <1>9, <2>1, <2>2, <2>3, <2>4, <2>5
<1>12. CASE AdminRepair
  <2> DEFINE t == [Idle EXCEPT !.step = "repair", !.todo = {x \in Sessions : session[x].status = "READY"}]
  <2>1. t.step = "repair"
    BY DEF Idle
  <2>2. AdminGoes(t) /\ tx[a] = Idle /\ UNCHANGED <<slot, session, opening>>
    BY <1>12 DEF AdminRepair, Admin
  <2> HIDE DEF t
  <2> QED
    BY <1>1, <1>i, <2>1, <2>2
<1>13. ASSUME NEW x \in Sessions, RepairSession(x) PROVE Footprint(a)
  <2> DEFINE seen == [tx[a] EXCEPT !.todo = tx[a].todo \ {x}]
             cancel == [tx[a] EXCEPT !.step = "cancel", !.session = x, !.slot = session[x].slot,
                                     !.requeue = TRUE, !.then = "repair"]
             retire == [tx[a] EXCEPT !.step = "retire", !.session = x]
  <2>1. PICK t : /\ AdminGoes(t) /\ t.step \in {"repair", "cancel", "retire"}
    <3>1. tx[a].step = "repair" /\ (AdminGoes(seen) \/ AdminGoes(cancel) \/ AdminGoes(retire))
      BY <1>13 DEF RepairSession
    <3>2. seen.step = tx[a].step
      BY <1>0 DEF Tx
    <3>3. cancel.step = "cancel"
      BY <1>0 DEF Tx
    <3>4. retire.step = "retire"
      BY <1>0 DEF Tx
    <3> HIDE DEF seen, cancel, retire
    <3> QED
      BY <3>1, <3>2, <3>3, <3>4
  <2>2. tx[a].step = "repair" /\ UNCHANGED <<slot, session, opening>>
    BY <1>13 DEF RepairSession
  <2> QED
    BY <1>1, <2>1, <2>2
<1>14. CASE RepairRetire
  <2> DEFINE t == [tx[a] EXCEPT !.step = "repair", !.session = None,
                                !.todo = tx[a].todo \ {tx[a].session}]
  <2>1. t.step = "repair"
    BY <1>0 DEF Tx
  <2>2. /\ AdminGoes(t) /\ tx[a].step = "retire" /\ UNCHANGED <<slot, opening>>
        /\ session' = [session EXCEPT ![tx[a].session].status = "CANCELLED"]
    BY <1>14 DEF RepairRetire
  <2>3. \A x \in Sessions : session'[x] = session[x] \/ session'[x].status = "CANCELLED"
    BY <1>0, <2>2 DEF SessionRow
  <2> HIDE DEF t
  <2> QED
    BY <1>1, <2>1, <2>2, <2>3
<1>15. CASE RepairDone
  <2>1. /\ AdminGoes(Opener("now")) /\ tx[a].step = "repair" /\ UNCHANGED <<slot, session, opening>>
    BY <1>15 DEF RepairDone
  <2> QED
    BY <1>1, <1>o, <2>1
<1> QED
  BY <1>2, <1>3, <1>4, <1>5, <1>6, <1>7, <1>8, <1>10, <1>11, <1>12, <1>13, <1>14, <1>15
     DEF AdminOperation, AdminStep

\* What players and the clock may do.
Outside ==
    /\ UNCHANGED <<slot, tx, opening>>
    /\ \A x \in Sessions :
         \/ session'[x].status = session[x].status /\ session'[x].slot = session[x].slot
         \/ x \in Free /\ session'[x].status = "READY" /\ session'[x].slot \in Slots

LEMMA OutsideSteps ==
    ASSUME IInv, PlayerStep \/ TimeStep
    PROVE  Outside
<1>0. session \in [Sessions -> SessionRow]
  BY DEF IInv, TypeOK
<1>1. ASSUME NEW x \in Sessions, Register(x) PROVE Outside
  BY <1>0, <1>1 DEF Register, Outside, SessionRow
<1>2. ASSUME NEW x \in Sessions, DeadlinePasses(x) PROVE Outside
  BY <1>0, <1>2 DEF DeadlinePasses, Outside, SessionRow
<1>3. ASSUME NEW s \in Slots, FirstRequest(s) PROVE Outside
  <2>1. PICK new \in Free : session' = [session EXCEPT ![new] = NewSession(s, "READY", "unset")]
    BY <1>3 DEF FirstRequest
  <2>2. NewSession(s, "READY", "unset").status = "READY" /\ NewSession(s, "READY", "unset").slot = s
    BY DEF NewSession
  <2>3. UNCHANGED <<slot, tx, opening>>
    BY <1>3 DEF FirstRequest
  <2> QED
    BY <1>0, <2>1, <2>2, <2>3 DEF Outside
<1>4. CASE ReviewOver
  BY <1>4 DEF ReviewOver, Outside
<1> QED
  BY <1>1, <1>2, <1>3, <1>4 DEF PlayerStep, TimeStep

LEMMA Footprints ==
    ASSUME IInv, [Next]_vars
    PROVE  (\E a \in Actors : Footprint(a)) \/ Outside
<1>0. {"scheduler", "finalizer", "admin"} = Actors
  BY DEF Actors
<1>1. CASE UNCHANGED vars
  BY <1>1 DEF vars, Outside
<1>2. CASE AdminOperation \/ AdminStep
  BY <1>0, <1>2, AdminFootprint
<1>3. ASSUME NEW a \in {"scheduler", "admin"}, TransactionStep(a) PROVE Footprint(a)
  BY <1>0, <1>3, OpenFootprint, StartFootprint, CancelFootprint DEF TransactionStep
<1>4. CASE (\E x \in Sessions : EndBegin(x)) \/ EndCommit \/ EndDeadlock
  BY <1>0, <1>4, EndFootprint
<1>5. CASE TickStep
  BY <1>0, <1>5, TickFootprint
<1>6. CASE PlayerStep \/ TimeStep
  BY <1>6, OutsideSteps
<1> QED
  BY <1>0, <1>1, <1>2, <1>3, <1>4, <1>5, <1>6 DEF Next, System, SystemStep

-----------------------------------------------------------------------------
(* The invariant.                                                          *)

LEMMA InitIInv == Init => IInv
<1> SUFFICES ASSUME Init PROVE IInv
  OBVIOUS
<1>1. TypeOK
  <2>1. asked = 0
    BY DEF Init
  <2>2. asked \in 0 .. MaxOperations
    BY <2>1, QueueAssumption
  <2> QED
    BY <2>2, InitTyped DEF Init, Typed, TypeOK
<1>2. \A a \in Actors : tx[a] = Idle
  BY DEF Init
<1>3. Idle.step = "idle"
  BY DEF Idle
<1>4. SlotLocks /\ StartsQueued /\ StartsOwn
  BY <1>2, <1>3 DEF SlotLocks, StartsQueued, StartsOwn, HoldsSlot
<1>5. PlanOwned
  BY DEF Init, NoPlan, PlanOwned
<1> QED
  BY <1>1, <1>4, <1>5, InitPlaced DEF IInv

LEMMA Kept == IInv /\ [Next]_vars => IInv'
<1> SUFFICES ASSUME IInv, [Next]_vars PROVE IInv'
  OBVIOUS
<1>1. TypeOK'
  BY NextTyped DEF IInv
<1>2. ASSUME NEW a \in Actors, Footprint(a) PROVE IInv'
  <2> USE <1>2
  <2>1. /\ OthersStay(a) /\ TakesFree(a) /\ WritesOwn(a)
        /\ StartsFirst(a) /\ OpensOwn(a) /\ Decides(a)
    BY DEF Footprint
  <2>2. Placed'
    <3>1. \A b \in Actors : tx'[b].step = "starting" => tx'[b].slot \in Slots
      BY <2>1 DEF IInv, Placed, StartsFirst, OthersStay
    <3> QED
      BY <3>1 DEF Placed, Footprint
  <2>3. SlotLocks'
    <3> SUFFICES ASSUME NEW b \in Actors, NEW c \in Actors, NEW s \in Slots,
                        HoldsSlot(b, s)', HoldsSlot(c, s)', b # c
                 PROVE  FALSE
      BY DEF SlotLocks
    <3>1. \A d \in Actors \ {a} : HoldsSlot(d, s)' => HoldsSlot(d, s)
      BY <2>1 DEF OthersStay, HoldsSlot
    <3>2. HoldsSlot(a, s)' => HoldsSlot(a, s) \/ \A d \in Actors \ {a} : ~HoldsSlot(d, s)
      BY <2>1 DEF TakesFree, SlotHeld
    <3> QED
      BY <3>1, <3>2 DEF IInv, SlotLocks
  <2>4. StartsQueued'
    <3> SUFFICES ASSUME NEW b \in Actors, tx'[b].step = "starting"
                 PROVE  slot'[tx'[b].slot].status \in {"NEXT", "READY"}
      BY DEF StartsQueued
    <3>1. CASE b = a
      BY <2>1, <3>1 DEF StartsFirst
    <3>2. CASE b # a
      <4>1. tx[b].step = "starting" /\ tx'[b].slot = tx[b].slot
        BY <2>1, <3>2 DEF OthersStay
      <4>2. /\ tx[b].slot \in Slots /\ slot[tx[b].slot].status \in {"NEXT", "READY"}
            /\ SlotHeld(tx[b].slot, a)
        BY <3>2, <4>1 DEF IInv, Placed, StartsQueued, SlotHeld, HoldsSlot
      <4> QED
        BY <2>1, <4>1, <4>2 DEF WritesOwn
    <3> QED
      BY <3>1, <3>2
  <2>5. PlanOwned'
    <3>1. CASE opening' = opening /\ opening.by # a
      BY <2>1, <3>1 DEF IInv, TypeOK, Plan, PlanOwned, Opens, OthersStay
    <3>2. CASE opening' = NoPlan
      BY <3>2 DEF NoPlan, PlanOwned
    <3>3. CASE opening'.by = a /\ Opens(a)'
      BY <3>3 DEF PlanOwned, Opens
    <3> QED
      BY <2>1, <3>1, <3>2, <3>3 DEF Decides
  <2>6. StartsOwn'
    <3> SUFFICES ASSUME NEW b \in Actors, tx'[b].step = "starting", tx'[b].session # None,
                        session'[tx'[b].session].status = "READY"
                 PROVE  session'[tx'[b].session].slot = tx'[b].slot
      BY DEF StartsOwn
    <3> DEFINE x == tx'[b].session
    <3>1. CASE b = a
      BY <2>1, <3>1 DEF StartsFirst
    <3>2. CASE b # a
      <4>1. /\ tx[b].step = "starting" /\ tx[b].session = x /\ tx'[b].slot = tx[b].slot
        BY <2>1, <3>2 DEF OthersStay
      <4>2. x \in Sessions
        BY <4>1 DEF IInv, TypeOK, Tx
      <4>3. x \notin Free
        BY <4>1, QueueAssumption DEF Free, Held
      <4>4. StaysReady(x)
        BY <2>1, <4>2, <4>3 DEF OpensOwn, Creates
      <4> QED
        BY <4>1, <4>4 DEF IInv, StartsOwn, StaysReady
    <3> QED
      BY <3>1, <3>2
  <2> QED
    BY <1>1, <2>2, <2>3, <2>4, <2>5, <2>6 DEF IInv
<1>3. CASE Outside
  <2>1. Placed'
    BY <1>3 DEF Outside, IInv, Placed
  <2>2. SlotLocks' /\ StartsQueued' /\ PlanOwned'
    BY <1>3 DEF Outside, IInv, SlotLocks, HoldsSlot, StartsQueued, PlanOwned, Opens
  <2>3. StartsOwn'
    <3> SUFFICES ASSUME NEW b \in Actors, tx[b].step = "starting", tx[b].session # None,
                        session'[tx[b].session].status = "READY"
                 PROVE  session'[tx[b].session].slot = tx[b].slot
      BY <1>3 DEF StartsOwn, Outside
    <3>1. tx[b].session \in Sessions
      BY DEF IInv, TypeOK, Tx
    <3>2. tx[b].session \notin Free
      BY QueueAssumption DEF Free, Held
    <3> QED
      BY <1>3, <3>1, <3>2 DEF Outside, IInv, StartsOwn
  <2> QED
    BY <1>1, <2>1, <2>2, <2>3 DEF IInv
<1> QED
  BY <1>2, <1>3, Footprints

\* No two transactions hold the same slot, a slot that is being started waits
\* in the queue whatever else is under way, the session chosen for it stays one
\* of that slot while it is open, and only a transaction about to use
\* the advisory lock of the opener has it (startGame, restoreSlotAfterSession,
\* openNextAutoQueueRegistration).
THEOREM Invariant == Spec => []IInv
<1> QED
  BY InitIInv, Kept, PTL DEF Spec

\* Every reachable state is of the type of the tables and transactions.
THEOREM TypeCorrect == Spec => []TypeOK
<1>1. IInv => TypeOK
  BY DEF IInv
<1> QED
  BY <1>1, Invariant, PTL

\* A slot that was removed, or whose only game was played, does not come back,
\* whoever else was about to start it, put it back or remove it too.
THEOREM NeverBack == Spec => RemovedStays
<1>1. ASSUME IInv, [Next]_vars, NEW s \in Once, slot[s].status = "CANCELLED"
      PROVE  slot'[s].status = "CANCELLED"
  <2>1. s \in Slots
    BY QueueAssumption
  <2>2. ASSUME NEW a \in Actors, Footprint(a) PROVE slot'[s].status = slot[s].status
    BY <1>1, <2>1, <2>2 DEF Footprint, WritesOwn
  <2>3. ASSUME Outside PROVE slot'[s].status = slot[s].status
    BY <2>3 DEF Outside
  <2> QED
    BY <1>1, <2>2, <2>3, Footprints
<1>2. IInv /\ [Next]_vars =>
        [\A s \in Once : slot[s].status = "CANCELLED" => slot'[s].status = "CANCELLED"]_vars
  BY <1>1
<1> QED
  BY <1>2, Invariant, PTL DEF Spec, RemovedStays

-----------------------------------------------------------------------------
(* The registrations of openers.                                           *)

\* Of the registrations that openers have open there is one, and the transaction
\* with the advisory lock closes it before it opens another.
OpenedInv ==
    /\ opened \subseteq StandardReady(slot, session)
    /\ \A x, y \in opened : x = y
    /\ opening.by # None /\ opening.create # None =>
         \A x \in opened : WillClose(opening.by, x)

LEMMA InitOpenedInv == Init => OpenedInv
  BY DEF Init, OpenedInv

\* Only the use of a plan adds to them.
LEMMA OpenedOnly ==
    ASSUME OpenedInv, StillOpened
    PROVE  /\ opened' \subseteq StandardReady(slot, session)'
           /\ \A x \in opened' :
                \/ x \in opened /\ x \in Sessions /\ session[x].status = "READY"
                \/ session[x].status # "READY" /\ opening.create # None /\ opening' = NoPlan
<1>1. opened' \subseteq StandardReady(slot, session)'
  BY DEF StillOpened, StandardReady
<1> QED
  BY <1>1 DEF StillOpened, OpenedInv, StandardReady

LEMMA OpenedKept ==
    ASSUME IInv, OpenedInv, [Next]_vars
    PROVE  OpenedInv'
<1>1. CASE UNCHANGED vars
  <2>1. UNCHANGED <<slot, session, tx, opening, opened>>
    BY <1>1 DEF vars
  <2> QED
    BY <2>1 DEF OpenedInv, StandardReady, WillClose
<1>2. ASSUME NEW a \in Actors, Footprint(a), StillOpened PROVE OpenedInv'
  <2>1. OthersStay(a) /\ OpensOwn(a) /\ Decides(a)
    BY <1>2 DEF Footprint
  <2>2. opened' \subseteq StandardReady(slot, session)'
    BY <1>2, OpenedOnly
  <2>3. ASSUME NEW x \in opened', StaysReady(x)
        PROVE  x \in opened /\ session'[x].slot = session[x].slot
    <3>1. session'[x].status = "READY"
      BY <2>2 DEF StandardReady
    <3> QED
      BY <1>2, <2>3, <3>1, OpenedOnly DEF StaysReady
  <2>4. CASE \A x \in Sessions : StaysReady(x)
    <3>1. \A x \in opened' : x \in opened /\ session'[x].slot = session[x].slot
      BY <2>2, <2>3, <2>4 DEF StandardReady
    <3>2. \A x, y \in opened' : x = y
      BY <3>1 DEF OpenedInv
    <3>3. ASSUME opening'.by # None, opening'.create # None, NEW x \in opened'
          PROVE  WillClose(opening.by, x)'
      <4>1. CASE opening' = opening /\ opening.by # a
        <5>1. opening.by \in Actors \ {a}
          BY <3>3, <4>1 DEF IInv, TypeOK, Plan
        <5>2. WillClose(opening.by, x)
          BY <3>1, <3>3, <4>1 DEF OpenedInv
        <5> QED
          BY <2>1, <3>1, <3>3, <4>1, <5>1, <5>2 DEF WillClose, OthersStay
      <4>2. CASE opening' = NoPlan
        BY <3>3, <4>2 DEF NoPlan
      <4>3. CASE /\ opening'.by = a
                 /\ opening'.create # None =>
                      \A y \in StandardReady(slot, session)' : WillClose(a, y)'
        BY <2>2, <3>3, <4>3 DEF WillClose
      <4> QED
        BY <2>1, <4>1, <4>2, <4>3 DEF Decides
    <3> QED
      BY <2>2, <3>2, <3>3 DEF OpenedInv
  <2>5. CASE Creates(a)
    <3>1. PICK new \in Free : \A x \in Sessions :
            x # new => /\ StaysReady(x)
                       /\ session'[x].status = "READY" /\ WillClose(a, x) =>
                            slot'[session'[x].slot].status = "CANCELLED"
      BY <2>5 DEF Creates
    <3>2. opening.by = a /\ a # None /\ opening.create # None
      BY <2>5, QueueAssumption DEF Creates
    <3>3. ASSUME NEW x \in opened' PROVE x = new
      <4> SUFFICES ASSUME x # new PROVE FALSE
        OBVIOUS
      <4>1. x \in Sessions /\ session'[x].status = "READY"
             /\ slot'[session'[x].slot].status # "CANCELLED"
        BY <2>2, <3>3 DEF StandardReady
      <4>2. x \in opened
        BY <2>3, <3>1, <3>3, <4>1
      <4>3. WillClose(a, x)
        BY <3>2, <4>2 DEF OpenedInv
      <4> QED
        BY <3>1, <4>1, <4>3
    <3>4. opening' = NoPlan
      BY <2>1, <3>2 DEF Decides
    <3> QED
      BY <2>2, <3>3, <3>4 DEF OpenedInv, NoPlan
  <2> QED
    BY <2>1, <2>4, <2>5 DEF OpensOwn
<1>3. CASE Outside /\ StillOpened
  <2>1. UNCHANGED <<slot, tx, opening>>
    BY <1>3 DEF Outside
  <2>2. opened' \subseteq StandardReady(slot, session)'
    BY <1>3, OpenedOnly
  <2>3. ASSUME NEW x \in opened'
        PROVE  x \in opened /\ session'[x].slot = session[x].slot
    <3>1. x \in opened /\ x \in Sessions /\ session[x].status = "READY"
      BY <1>3, <2>1, OpenedOnly DEF NoPlan
    <3> QED
      BY <1>3, <3>1 DEF Outside, Free
  <2>4. \A x, y \in opened' : x = y
    BY <2>3 DEF OpenedInv
  <2>5. ASSUME opening'.by # None, opening'.create # None, NEW x \in opened'
        PROVE  WillClose(opening.by, x)'
    BY <2>1, <2>3, <2>5 DEF OpenedInv, WillClose
  <2> QED
    BY <2>2, <2>4, <2>5 DEF OpenedInv
<1>4. UNCHANGED vars \/ StillOpened
  BY DEF Next, System
<1> QED
  BY <1>1, <1>2, <1>3, <1>4, Footprints

LEMMA AtMostOne ==
    ASSUME NEW S, \A x, y \in S : x = y
    PROVE  Cardinality(S) <= 1
<1>1. CASE S = {}
  BY <1>1, FS_EmptySet
<1>2. CASE S # {}
  <2>1. PICK x : S = {x}
    BY <1>2
  <2> QED
    BY <2>1, FS_Singleton
<1> QED
  BY <1>1, <1>2

\* The openers of ticks, starts, ends and cancellations never have two
\* registrations of the queue open between them, whatever players ask for and
\* the administrator starts, removes, reorders or repairs meanwhile, because
\* whoever has the advisory lock looks for one when he has it, and knows which he
\* is about to close (openNextAutoQueueRegistrationInTransaction).
THEOREM OpenersNeverTwice == Spec => []OpenersOpenOne
<1>1. Init => IInv /\ OpenedInv
  BY InitIInv, InitOpenedInv
<1>2. (IInv /\ OpenedInv) /\ [Next]_vars => (IInv /\ OpenedInv)'
  BY Kept, OpenedKept
<1>3. IInv /\ OpenedInv => OpenersOpenOne
  BY AtMostOne DEF OpenedInv, OpenersOpenOne
<1> QED
  BY <1>1, <1>2, <1>3, PTL DEF Spec

-----------------------------------------------------------------------------
(* Live rounds.                                                            *)

\* Nothing is live of a slot that is being started.
LiveInv ==
    /\ \A a \in Actors, x \in Live(session) :
         tx[a].step = "starting" => session[x].slot # tx[a].slot
    /\ OneLivePerSlot

LEMMA InitLiveInv == Init => LiveInv
<1> SUFFICES ASSUME Init PROVE LiveInv
  OBVIOUS
<1>1. \A x \in Sessions : session[x].status \in {"READY", "NONE"}
  <2>1. NoSession.status = "NONE"
    BY DEF NoSession
  <2>2. PICK f \in [Big -> Sessions] :
          session = [x \in Sessions |->
            IF x \in {f[b] : b \in Big}
            THEN [slot |-> CHOOSE b \in Big : f[b] = x, status |-> "READY",
                  due |-> "running", players |-> FALSE]
            ELSE NoSession]
    BY DEF Init
  <2> QED
    BY <2>1, <2>2
<1> QED
  BY <1>1 DEF LiveInv, OneLivePerSlot, Live

LEMMA LiveKept ==
    ASSUME IInv, LiveInv, [Next]_vars
    PROVE  LiveInv'
<1>1. ASSUME NEW a \in Actors, Footprint(a) PROVE LiveInv'
  <2>1. OthersStay(a) /\ StartsFirst(a) /\ Plays(a)
    BY <1>1 DEF Footprint
  <2>2. ASSUME NEW x \in Live(session'), StaysLive(x)
        PROVE  x \in Live(session) /\ session'[x].slot = session[x].slot
    BY <2>2 DEF Live, StaysLive
  <2>3. CASE \A x \in Sessions : StaysLive(x)
    <3>1. \A x \in Live(session') : x \in Live(session) /\ session'[x].slot = session[x].slot
      BY <2>2, <2>3 DEF Live
    <3>2. ASSUME NEW b \in Actors, NEW x \in Live(session'), tx'[b].step = "starting"
          PROVE  session'[x].slot # tx'[b].slot
      <4>1. CASE b = a
        BY <2>1, <3>2, <4>1 DEF StartsFirst
      <4>2. CASE b # a
        BY <2>1, <3>1, <3>2, <4>2 DEF OthersStay, LiveInv
      <4> QED
        BY <4>1, <4>2
    <3>3. \A x, y \in Live(session') : session'[x].slot = session'[y].slot => x = y
      BY <3>1 DEF LiveInv, OneLivePerSlot
    <3> QED
      BY <3>2, <3>3 DEF LiveInv, OneLivePerSlot
  <2>4. CASE /\ tx[a].step = "starting" /\ tx'[a].step # "starting"
             /\ \E new \in Sessions : /\ session'[new].slot = tx[a].slot
                                      /\ \A x \in Sessions \ {new} : StaysLive(x)
    <3>1. PICK new \in Sessions : /\ session'[new].slot = tx[a].slot
                                  /\ \A x \in Sessions \ {new} : StaysLive(x)
      BY <2>4
    <3>2. ASSUME NEW x \in Live(session'), x # new
          PROVE  /\ x \in Live(session) /\ session'[x].slot = session[x].slot
                 /\ session'[x].slot # tx[a].slot
      <4>1. x \in Live(session) /\ session'[x].slot = session[x].slot
        BY <2>2, <3>1, <3>2 DEF Live
      <4> QED
        BY <2>4, <4>1 DEF LiveInv
    <3>3. ASSUME NEW b \in Actors, NEW x \in Live(session'), tx'[b].step = "starting"
          PROVE  session'[x].slot # tx'[b].slot
      <4>1. b # a /\ tx[b].step = "starting" /\ tx'[b].slot = tx[b].slot
        BY <2>1, <2>4, <3>3 DEF OthersStay
      <4>2. tx[a].slot # tx[b].slot
        BY <2>4, <4>1 DEF IInv, Placed, SlotLocks, HoldsSlot
      <4>3. CASE x = new
        BY <3>1, <4>1, <4>2, <4>3
      <4>4. CASE x # new
        BY <3>2, <4>1, <4>4 DEF LiveInv
      <4> QED
        BY <4>3, <4>4
    <3>4. \A x, y \in Live(session') : session'[x].slot = session'[y].slot => x = y
      BY <3>1, <3>2 DEF LiveInv, OneLivePerSlot
    <3> QED
      BY <3>3, <3>4 DEF LiveInv, OneLivePerSlot
  <2> QED
    BY <2>1, <2>3, <2>4 DEF Plays
<1>2. CASE Outside
  <2>1. /\ tx' = tx
        /\ \A x \in Live(session') : x \in Live(session) /\ session'[x].slot = session[x].slot
    BY <1>2 DEF Outside, Live
  <2> QED
    BY <2>1 DEF LiveInv, OneLivePerSlot
<1> QED
  BY <1>1, <1>2, Footprints

\* No slot is played twice at once, although the scheduler and the administrator
\* may both be starting it and rounds of it end and are cancelled meanwhile
\* (startGame: the row of the slot is locked before live sessions are looked for).
THEOREM NoSlotTwice == Spec => []OneLivePerSlot
<1>1. Init => IInv /\ LiveInv
  BY InitIInv, InitLiveInv
<1>2. (IInv /\ LiveInv) /\ [Next]_vars => (IInv /\ LiveInv)'
  BY Kept, LiveKept
<1>3. LiveInv => OneLivePerSlot
  BY DEF LiveInv
<1> QED
  BY <1>1, <1>2, <1>3, PTL DEF Spec

=============================================================================
