------------------------------- MODULE Queue -------------------------------
(***************************************************************************)
(* The queue of slots: which slot is open for registration, which one is   *)
(* played, and what becomes of a slot when its session is over.            *)
(*                                                                         *)
(* Rounds and registrations are reduced to what the queue sees of them: a  *)
(* session is READY, PLAYING (which stands for CHECKING and WINNER_WINDOW  *)
(* too) or over, and it has players or none.  What is kept are the         *)
(* transactions of the scheduler, of the jobs that end a round and of one  *)
(* administrator, cut where one of them reads what another may change; the *)
(* row locks of slots and sessions; and the advisory lock that the opener  *)
(* of registrations only tries to get.                                     *)
(***************************************************************************)
EXTENDS Integers, FiniteSets, Sequences, FiniteSetsExt, SequencesExt

CONSTANTS
    Slots,          \* rows of GameSlot, created or not
    Created,        \* those there at the start
    Big,            \* slots of category BIG_GAME, played at a set time
    Once,           \* slots with removeAfterFinish
    Automatic,      \* slots with operationMode AUTO
    Rule,           \* Rule[s]: the rule of slot s
    Window,         \* QUEUE_RULE_DIVERSITY_WINDOW
    Sessions,       \* identities for rows of GameSession, used again
    Orders,         \* queue orders an administrator may submit
    AdminMay,       \* operations the administrator uses
    MaxOperations,  \* bound: how many of them in all
    Asked,          \* slots without a session for which players ask: "none",
                    \* the "first" of the queue, or "any"
    None

Actors == {"scheduler", "finalizer", "admin"}

ASSUME QueueAssumption ==
    /\ IsFiniteSet(Slots) /\ Slots # {} /\ IsFiniteSet(Sessions)
    /\ Created \subseteq Slots /\ Big \subseteq Slots
    /\ Once \subseteq Slots /\ Automatic \subseteq Slots
    /\ Big \subseteq Once \cap Created
    /\ Window \in Nat \ {0}
    /\ \A o \in Orders : o \in Seq(Slots \ Big) /\ IsInjective(o)
    /\ Asked \in {"none", "first", "any"}
    /\ MaxOperations \in Nat
    /\ None \notin Slots \cup Sessions \cup Actors

VARIABLES
    slot,       \* slot[s]: status and sortOrder
    session,    \* session[x]: slot, status, deadline (scheduledStartAt), players
    tx,         \* tx[a]: where actor a is
    opening,    \* the opener's transaction that has the advisory lock
    review,     \* did a round end less than the display time ago?
    asked,      \* operations the administrator has begun
    opened      \* registrations openers have opened, and still open (history)

vars == <<slot, session, tx, opening, review, asked, opened>>

\* How openNextAutoQueueRegistration is called: by the tick (behind a live
\* round too, after the review), after a start (behind the live round), or
\* when a round is over or the administrator has changed the queue.
OpenerMode == {"tick", "behind", "now"}
Deferred(mode) == mode \in {"tick", "behind"}
IgnoresReview(mode) == mode \in {"behind", "now"}

MaxOrder == 2 * Cardinality(Slots) + Cardinality(Actors)

SlotRow == [status : {"ABSENT", "NEXT", "READY", "PLAYING", "CANCELLED"},
            order : 0 .. MaxOrder]
SessionRow == [slot : Slots \cup {None},
               status : {"NONE", "READY", "PLAYING", "FINISHED", "CANCELLED"},
               due : {"unset", "running", "due"},
               players : BOOLEAN]
Plan == [by : Actors \cup {None}, retire : SUBSET Sessions,
         activate : Sessions \cup {None}, create : Slots \cup {None},
         countdown : BOOLEAN]
Tx == [step : {"idle", "choose", "cancel", "cancelling", "closing", "ending", "start",
               "starting", "failed", "open", "opening", "remove", "clear", "repair", "retire"},
       session : Sessions \cup {None},
       slot : Slots \cup {None},
       order : 0 .. MaxOrder,       \* highest sortOrder read, plus one
       mode : OpenerMode,           \* of the opener to come
       requeue : BOOLEAN,           \* option requeueSlot of the cancellation
       then : {"idle", "start", "remove", "clear", "repair"}, \* after a cancellation
       keep : SUBSET Slots,         \* clearQueue: left alone; removal: was queued
       todo : SUBSET Sessions]      \* to be cancelled; the scheduler's due session

TypeOK ==
    /\ slot \in [Slots -> SlotRow]
    /\ session \in [Sessions -> SessionRow]
    /\ tx \in [Actors -> Tx]
    /\ opening \in Plan
    /\ review \in BOOLEAN
    /\ asked \in 0 .. MaxOperations
    /\ opened \subseteq Sessions

Idle == [step |-> "idle", session |-> None, slot |-> None, order |-> 0, mode |-> "now",
         requeue |-> TRUE, then |-> "idle", keep |-> {}, todo |-> {}]
NoSession == [slot |-> None, status |-> "NONE", due |-> "unset", players |-> FALSE]
Opener(mode) == [Idle EXCEPT !.step = "open", !.mode = mode]
NoPlan == [by |-> None, retire |-> {}, activate |-> None, create |-> None,
           countdown |-> FALSE]

Init ==
    /\ \E o \in SetToSeqs(Created \ Big) :
         slot = [s \in Slots |->
           IF s \notin Created THEN [status |-> "ABSENT", order |-> 0]
           ELSE IF s \in Big THEN [status |-> "READY", order |-> Cardinality(Created)]
           ELSE [status |-> "NEXT", order |-> CHOOSE i \in DOMAIN o : o[i] = s]]
    /\ \E f \in {f \in [Big -> Sessions] : IsInjective(f)} :
         session = [x \in Sessions |->
           IF x \in {f[b] : b \in Big}
           THEN [slot |-> CHOOSE b \in Big : f[b] = x, status |-> "READY",
                 due |-> "running", players |-> FALSE]
           ELSE NoSession]
    /\ tx = [a \in Actors |-> Idle]
    /\ opening = NoPlan
    /\ review = FALSE
    /\ asked = 0
    /\ opened = {}

(***************************************************************************)
(* Reading the tables.                                                     *)
(***************************************************************************)
Live(ss) == {x \in Sessions : ss[x].status = "PLAYING"}
ReadyOf(s, ss) == {x \in Sessions : ss[x].status = "READY" /\ ss[x].slot = s}
ActiveOf(s) == {x \in Sessions : session[x].slot = s /\ session[x].status \in {"READY", "PLAYING"}}
Heads(S, sl) == {s \in S : \A t \in S : sl[s].order <= sl[t].order}

\* Faulty variant: sessions opened behind a live round, which have no deadline
\* yet, are not counted.
StandardReadyDue(sl, ss) ==
    {x \in Sessions : /\ ss[x].status = "READY" /\ ss[x].due # "unset"
                      /\ ss[x].slot \notin Big
                      /\ sl[ss[x].slot].status # "CANCELLED"}

\* READY sessions that wait in the queue, and those of them in front.
StandardReady(sl, ss) ==
    {x \in Sessions : /\ ss[x].status = "READY"
                      /\ ss[x].slot \notin Big
                      /\ sl[ss[x].slot].status # "CANCELLED"}
HeadReady(S, sl, ss) == {x \in S : ss[x].slot \in Heads({ss[y].slot : y \in S}, sl)}

DueBig(sl, ss) ==
    {x \in Sessions : /\ ss[x].status = "READY" /\ ss[x].due = "due"
                      /\ ss[x].slot \in Big
                      /\ sl[ss[x].slot].status # "CANCELLED"}

LastOrder(sl) == Max({sl[s].order : s \in DOMAIN sl})

\* sortOrder grows for ever; what can be told apart are its values up to the
\* length of the queue, which a reordering assigns, and the order of the others.
\* Orders read but not yet written (tx[a].order) are renumbered with them.
Renumbered(v, used) ==
    LET n == Cardinality(Slots)
    IN  IF v <= n THEN v ELSE n + Cardinality({w \in used : n < w /\ w <= v})
UsedOrders(sl, t) == {sl[s].order : s \in Slots} \cup {t[a].order : a \in Actors}
Store(sl, t) ==
    LET used == UsedOrders(sl, t)
    IN  /\ slot' = [s \in Slots |-> [sl[s] EXCEPT !.order = Renumbered(@, used)]]
        /\ tx' = [a \in Actors |-> [t[a] EXCEPT !.order = Renumbered(@, used)]]

(***************************************************************************)
(* Locks.  A transaction that starts a slot, or has put one back, holds its *)
(* row; one that cancels or ends a session holds that row.                  *)
(***************************************************************************)
HoldsSlot(b, s) ==
    /\ tx[b].slot = s
    /\ tx[b].step \in {"starting", "ending"} \cup (IF tx[b].requeue THEN {"closing"} ELSE {})
HoldsSession(b, x) == tx[b].session = x /\ tx[b].step \in {"cancelling", "closing", "ending"}
\* Faulty variant: slots are not locked.
SlotHeldNever(s, a) == s \notin Slots

SlotHeld(s, a) == \E b \in Actors \ {a} : HoldsSlot(b, s)
SessionHeld(x, a) == \E b \in Actors \ {a} : HoldsSession(b, x)

\* Identities of rows that nobody will read again are used for new rows.
Held(x, a) == \E b \in Actors \ {a} : x = tx[b].session \/ x \in tx[b].todo
Free == {x \in Sessions : /\ session[x].status \in {"NONE", "FINISHED", "CANCELLED"}
                         /\ ~Held(x, None)
                         /\ x \notin opening.retire \cup {opening.activate}}
NewSession(s, status, due) == [slot |-> s, status |-> status, due |-> due, players |-> FALSE]

(***************************************************************************)
(* The opener (openNextAutoQueueRegistrationInTransaction): what it decides *)
(* from what it reads, and what it writes when it commits.  Between the two *)
(* it has the advisory lock; whoever finds this lock taken opens nothing.   *)
(***************************************************************************)
OpenerBlocked(sl, ss, mode) ==
    \/ Live(ss) # {} /\ ~Deferred(mode)
    \/ review /\ ~IgnoresReview(mode)
    \/ DueBig(sl, ss) # {}

\* Empty sessions behind the first one, by the count just read.
Retirable(S) == {y \in S : ~session[y].players}

Plans(a, sl, ss, mode) ==
    LET ready == StandardReady(sl, ss)
        next == {s \in Slots : sl[s].status = "NEXT"}
        idle == Live(ss) = {}
        nothing == [NoPlan EXCEPT !.by = a]
    IN  IF OpenerBlocked(sl, ss, mode) THEN {nothing}
        ELSE IF ready # {}
        THEN {[nothing EXCEPT
                 !.retire = Retirable(ready \ {x}),
                 !.activate = IF idle /\ ss[x].due = "unset" /\ ss[x].slot \in Automatic
                              THEN x ELSE None,
                 !.countdown = TRUE] : x \in HeadReady(ready, sl, ss)}
        ELSE IF next = {} THEN {nothing}
        ELSE {IF s \in Automatic /\ ReadyOf(s, ss) = {}
              THEN [nothing EXCEPT !.create = s, !.countdown = idle]
              ELSE nothing : s \in Heads(next, sl)}

Planned(ss, p, new) ==
    [x \in Sessions |->
       IF x \in p.retire THEN [ss[x] EXCEPT !.status = "CANCELLED", !.due = "unset"]
       ELSE IF x = p.activate THEN [ss[x] EXCEPT !.due = "running"]
       ELSE IF x = new
       THEN NewSession(p.create, "READY", IF p.countdown THEN "running" ELSE "unset")
       ELSE ss[x]]

NewOf(p) == IF p.create = None THEN {None} ELSE Free

\* The rows the opener writes are not locked by others.
SessionsOf(p) == p.retire \cup ({p.activate} \ {None})
SlotsOf(p) == {session[x].slot : x \in {p.activate} \ {None}} \cup ({p.create} \ {None})
Writable(p) == /\ \A x \in SessionsOf(p) : ~SessionHeld(x, p.by)
               /\ \A s \in SlotsOf(p) : ~SlotHeld(s, p.by)

\* Within a transaction: the plan if the lock was free, none otherwise.
TryOpen(a, sl, ss, mode) ==
    IF opening.by = None THEN opening' \in Plans(a, sl, ss, mode) ELSE UNCHANGED opening
OwnPlan(a) == IF opening.by = a THEN opening ELSE NoPlan

\* A start holds its slot and waits for the session, a cancellation the opposite;
\* both the end of a round and a cancellation that goes on to open a registration
\* hold rows and wait for those they open.  PostgreSQL fails one of two
\* transactions that wait for each other.
Waits(a, b) ==
    LET step == tx[a].step
        slots == CASE step = "cancelling" /\ tx[a].requeue -> {tx[a].slot}
                   [] step \in {"closing", "ending"} -> SlotsOf(OwnPlan(a))
                   [] OTHER -> {}
        sessions == CASE step = "starting" -> {tx[a].session}
                      [] step \in {"closing", "ending"} -> SessionsOf(OwnPlan(a))
                      [] OTHER -> {}
    IN  (\E s \in slots : HoldsSlot(b, s)) \/ (\E x \in sessions : HoldsSession(b, x))
Deadlocked(a) == \E b \in Actors \ {a} : Waits(a, b) /\ Waits(b, a)

OpenBegin(a) ==
    /\ tx[a].step = "open"
    /\ TryOpen(a, slot, session, tx[a].mode)
    /\ tx' = [tx EXCEPT ![a].step = "opening"]
    /\ UNCHANGED <<slot, session, review>>

\* After the opener of a start the scheduler's tick goes on to its own.
OpenCommit(a) ==
    /\ tx[a].step = "opening"
    /\ Writable(OwnPlan(a))
    /\ \E new \in NewOf(OwnPlan(a)) : session' = Planned(session, OwnPlan(a), new)
    /\ opening' = IF opening.by = a THEN NoPlan ELSE opening
    /\ tx' = [tx EXCEPT ![a] = IF a = "scheduler" /\ tx[a].mode = "behind"
                               THEN Opener("tick") ELSE Idle]
    /\ UNCHANGED <<slot, review>>

(***************************************************************************)
(* startGame.                                                              *)
(***************************************************************************)
DueBigSlots ==
    {s \in Big : /\ slot[s].status \in {"NEXT", "READY"}
                 /\ \E x \in ReadyOf(s, session) : session[x].due = "due"}

\* Faulty variant: any slot of the queue may be started.
SlotReadyAnywhere(s) == slot[s].status \in {"NEXT", "READY"}
\* Faulty variant: the slot is expected to be READY like its session.
SlotReadyIfReady(s) == slot[s].status = "READY"

\* assertSlotReady: a due Big Game first, else the first slot of the queue.
SlotReady(s) ==
    /\ slot[s].status \in {"NEXT", "READY"}
    /\ IF DueBigSlots # {} THEN s \in DueBigSlots
       ELSE s \in Heads({r \in Slots \ Big : slot[r].status \in {"NEXT", "READY"}}, slot)

\* After a start or its failure the tick goes on to its opener.
AfterStart(a) == IF a = "scheduler" THEN Opener("tick") ELSE Idle

StartFails(a) ==
    /\ tx' = [tx EXCEPT ![a] = IF a = "scheduler" THEN [@ EXCEPT !.step = "failed"] ELSE Idle]
    /\ UNCHANGED <<slot, session, opening, review>>

\* The scheduler makes its session due again.
StartFailed ==
    LET a == "scheduler"
    IN  /\ tx[a].step = "failed"
        /\ \A x \in tx[a].todo : ~SessionHeld(x, a)
        /\ session' = [x \in Sessions |->
             IF x \in tx[a].todo /\ session[x].status = "READY" /\ session[x].due = "unset"
             THEN [session[x] EXCEPT !.due = "due"] ELSE session[x]]
        /\ tx' = [tx EXCEPT ![a] = AfterStart(a)]
        /\ UNCHANGED <<slot, opening, review>>

MayStart(s) == Live(session) = {} /\ SlotReady(s)

StartBegin(a) ==
    LET s == tx[a].slot
    IN  /\ tx[a].step = "start"
        /\ ~SlotHeld(s, a)
        /\ MayStart(s)
        /\ \E x \in IF ReadyOf(s, session) = {} THEN {None} ELSE ReadyOf(s, session) :
             tx' = [tx EXCEPT ![a].step = "starting", ![a].session = x]
        /\ UNCHANGED <<slot, session, opening, review>>

\* The slot is being played already (its session is returned), or the start is
\* refused.
StartRefused(a) ==
    LET s == tx[a].slot
    IN  /\ tx[a].step = "start"
        /\ ~SlotHeld(s, a)
        /\ ~MayStart(s)
        /\ IF \E x \in Live(session) : session[x].slot = s
           THEN /\ tx' = [tx EXCEPT ![a] = AfterStart(a)]
                /\ UNCHANGED <<slot, session, opening, review>>
           ELSE StartFails(a)

StartCommit(a) ==
    LET s == tx[a].slot
        x == tx[a].session
    IN  /\ tx[a].step = "starting"
        /\ x # None => ~SessionHeld(x, a) /\ session[x].status = "READY"
        /\ slot' = [slot EXCEPT ![s].status = "PLAYING"]
        /\ IF x = None
           THEN \E new \in Free :
                  session' = [session EXCEPT ![new] = NewSession(s, "PLAYING", "unset")]
           ELSE session' = [session EXCEPT ![x].status = "PLAYING"]
        /\ tx' = [tx EXCEPT ![a] = IF x # None /\ s \in Automatic \ Big
                                   THEN Opener("behind") ELSE AfterStart(a)]
        /\ UNCHANGED <<opening, review>>

StartTooLate(a) ==
    /\ tx[a].step = "starting" /\ tx[a].session # None
    /\ \/ ~SessionHeld(tx[a].session, a) /\ session[tx[a].session].status # "READY"
       \/ Deadlocked(a)
    /\ StartFails(a)

(***************************************************************************)
(* The end of a session: its slot goes to the back of the queue, or is     *)
(* removed (restoreSlotAfterSession).                                      *)
(***************************************************************************)
\* Faulty variant: removeAfterFinish is forgotten.
RestoredAlways(sl, s, order) == [sl EXCEPT ![s].status = "NEXT", ![s].order = order]
\* Faulty variant: the slot keeps its place.
RestoredInPlace(sl, s, order) == [sl EXCEPT ![s].status = "NEXT"]

Restored(sl, s, order) ==
    IF s \in Once THEN [sl EXCEPT ![s].status = "CANCELLED"]
    ELSE [sl EXCEPT ![s].status = "NEXT", ![s].order = order]

\* Nobody asks for the slot of a session that is over; its players have been
\* paid or refunded.
Over(x, a, status) ==
    [session EXCEPT ![x] = [NoSession EXCEPT !.status = IF Held(x, a) \/ x \in opening.retire
                                                         THEN status ELSE "NONE"]]

\* finishGameWithWinner and finalizeNoWinner.
EndBegin(x) ==
    LET s == session[x].slot
        a == "finalizer"
    IN  /\ tx[a] = Idle
        /\ session[x].status = "PLAYING"
        /\ ~SessionHeld(x, a) /\ ~SlotHeld(s, a)
        /\ TryOpen(a, Restored(slot, s, LastOrder(slot) + 1), Over(x, a, "FINISHED"), "now")
        /\ Store(slot, [tx EXCEPT ![a] = [Idle EXCEPT !.step = "ending", !.session = x,
                                            !.slot = s, !.order = LastOrder(slot) + 1]])
        /\ UNCHANGED <<session, review>>

EndCommit ==
    LET a == "finalizer"
        x == tx[a].session
    IN  /\ tx[a].step = "ending"
        /\ Writable(OwnPlan(a))
        /\ \E new \in NewOf(OwnPlan(a)) :
             session' = Planned(Over(x, a, "FINISHED"), OwnPlan(a), new)
        /\ Store(Restored(slot, tx[a].slot, tx[a].order), [tx EXCEPT ![a] = Idle])
        /\ opening' = IF opening.by = a THEN NoPlan ELSE opening
        /\ review' = TRUE

\* The job that ends rounds tries again.
EndDeadlock ==
    LET a == "finalizer"
    IN  /\ Deadlocked(a)
        /\ tx' = [tx EXCEPT ![a] = Idle]
        /\ opening' = IF opening.by = a THEN NoPlan ELSE opening
        /\ UNCHANGED <<slot, session, review>>

(***************************************************************************)
(* cancelSession.                                                          *)
(***************************************************************************)
AfterCancel(a) ==
    IF a = "scheduler" THEN Opener("tick")
    ELSE IF tx[a].then = "idle" THEN Idle
    ELSE [tx[a] EXCEPT !.step = tx[a].then, !.session = None, !.todo = @ \ {tx[a].session}]

\* Its error: the tick, or the administrator's operation, is over; only the
\* repair goes on to the next session.
CancelFailed(a) == IF tx[a].then = "repair" THEN AfterCancel(a) ELSE Idle

\* The status is claimed (row lock) and the cartelas are read under this lock.
CancelClaim(a) ==
    LET x == tx[a].session
    IN  /\ tx[a].step = "cancel"
        /\ ~SessionHeld(x, a)
        /\ session[x].status \in {"READY", "PLAYING"}
        /\ tx' = [tx EXCEPT ![a].step = IF tx[a].then = "start" /\ session[x].players
                                        THEN "start" ELSE "cancelling"]
        /\ UNCHANGED <<slot, session, opening, review>>

\* Cancelled by somebody else, over, or in its winner window.
CancelRefused(a) ==
    LET x == tx[a].session
    IN  /\ tx[a].step = "cancel"
        /\ ~SessionHeld(x, a)
        /\ session[x].status # "READY"
        /\ tx' = [tx EXCEPT ![a] = IF session[x].status = "CANCELLED" THEN AfterCancel(a)
                                   ELSE CancelFailed(a)]
        /\ UNCHANGED <<slot, session, opening, review>>

CancelRestore(a) ==
    LET s == tx[a].slot
        order == LastOrder(slot) + 1
    IN  /\ tx[a].step = "cancelling"
        /\ IF tx[a].requeue
           THEN /\ ~SlotHeld(s, a)
                /\ TryOpen(a, Restored(slot, s, order), Over(tx[a].session, a, "CANCELLED"), "behind")
                /\ Store(slot, [tx EXCEPT ![a].step = "closing", ![a].order = order])
           ELSE /\ tx' = [tx EXCEPT ![a].step = "closing"]
                /\ UNCHANGED <<slot, opening>>
        /\ UNCHANGED <<session, review>>

CancelCommit(a) ==
    LET x == tx[a].session
    IN  /\ tx[a].step = "closing"
        /\ Writable(OwnPlan(a))
        /\ \E new \in NewOf(OwnPlan(a)) :
             session' = Planned(Over(x, a, "CANCELLED"), OwnPlan(a), new)
        /\ Store(IF tx[a].requeue THEN Restored(slot, tx[a].slot, tx[a].order) ELSE slot,
                 [tx EXCEPT ![a] = AfterCancel(a)])
        /\ opening' = IF opening.by = a THEN NoPlan ELSE opening
        /\ UNCHANGED review

CancelDeadlock(a) ==
    /\ tx[a].step \in {"cancelling", "closing"}
    /\ Deadlocked(a)
    /\ tx' = [tx EXCEPT ![a] = CancelFailed(a)]
    /\ opening' = IF opening.by = a THEN NoPlan ELSE opening
    /\ UNCHANGED <<slot, session, review>>

(***************************************************************************)
(* Players and time.                                                       *)
(***************************************************************************)
\* registerCartela: registration of an AUTO session closes with its deadline,
\* but not while another round is live.
RegistrationOpen(x) ==
    /\ session[x].status = "READY"
    /\ IF session[x].slot \in Big THEN session[x].due = "running"
       ELSE session[x].due = "due" => session[x].slot \notin Automatic \/ Live(session) # {}

Register(x) ==
    /\ RegistrationOpen(x) /\ ~session[x].players
    /\ \A a \in Actors : ~SessionHeld(x, a)
    /\ session' = [session EXCEPT ![x].players = TRUE]
    /\ UNCHANGED <<slot, tx, opening, review>>

\* resolveRegistrationSessionForSlot: the first request for a slot opens its
\* session, at whatever place in the queue it is.
FirstRequest(s) ==
    /\ slot[s].status = "NEXT" /\ s \notin Big
    /\ Asked # "none"
    /\ Asked = "first" => s \in Heads({r \in Slots : slot[r].status = "NEXT"}, slot)
    /\ ActiveOf(s) = {}
    /\ \A a \in Actors : ~SlotHeld(s, a)
    /\ \E new \in Free : session' = [session EXCEPT ![new] = NewSession(s, "READY", "unset")]
    /\ UNCHANGED <<slot, tx, opening, review>>

DeadlinePasses(x) ==
    /\ session[x].status = "READY" /\ session[x].due = "running"
    /\ session' = [session EXCEPT ![x].due = "due"]
    /\ UNCHANGED <<slot, tx, opening, review>>

ReviewOver ==
    /\ review
    /\ review' = FALSE
    /\ UNCHANGED <<slot, session, tx, opening>>

(***************************************************************************)
(* The scheduler's tick: repair of countdowns, one due session, the opener. *)
(***************************************************************************)
\* While a round is live deadlines that passed are taken back; otherwise the
\* first session that has none gets one.
Repaired ==
    LET open == {x \in Sessions : /\ session[x].status = "READY"
                                  /\ session[x].slot \in Automatic
                                  /\ slot[session[x].slot].status # "CANCELLED"}
        bare == {x \in open : session[x].due = "unset" /\ session[x].slot \notin Big}
    IN  IF Live(session) # {}
        THEN {[x \in Sessions |-> IF x \in open /\ session[x].due = "due"
                                  THEN [session[x] EXCEPT !.due = "unset"] ELSE session[x]]}
        ELSE IF bare = {} THEN {session}
        ELSE {[session EXCEPT ![x].due = "running"] : x \in HeadReady(bare, slot, session)}

TickRepair ==
    /\ tx["scheduler"] = Idle
    /\ \A x \in Sessions : ~SessionHeld(x, "scheduler")
    /\ session' \in Repaired
    /\ tx' = [tx EXCEPT !["scheduler"].step = "choose"]
    /\ UNCHANGED <<slot, opening, review>>

\* Due sessions the tick may handle, Big Games first, then by sortOrder.
Handled ==
    LET due == {x \in Sessions : session[x].status = "READY" /\ session[x].due = "due"}
        ready == StandardReady(slot, session)
        heads == HeadReady(ready, slot, session)
        inFront == {x \in due : ready # {} => \E y \in heads :
                      slot[session[x].slot].order = slot[session[y].slot].order}
        bigs == {x \in due : session[x].slot \in Big}
    IN  IF bigs # {} THEN bigs ELSE HeadReady(inFront, slot, session)

TickNothing ==
    /\ tx["scheduler"].step = "choose"
    /\ Handled = {} \/ Live(session) # {}
    /\ tx' = [tx EXCEPT !["scheduler"] = Opener("tick")]
    /\ UNCHANGED <<slot, session, opening, review>>

\* processDueSession: the deadline is cleared, the cartelas are counted.
TickDue(x) ==
    LET s == session[x].slot
        a == "scheduler"
    IN  /\ tx[a].step = "choose"
        /\ x \in Handled /\ Live(session) = {}
        /\ ~SessionHeld(x, a)
        /\ session' = [session EXCEPT ![x].due = "unset"]
        /\ tx' = [tx EXCEPT ![a] =
             IF s \notin Big \cup Automatic THEN Opener("tick")
             ELSE [Idle EXCEPT !.step = IF session[x].players THEN "start" ELSE "cancel",
                               !.session = x, !.slot = s, !.then = "start", !.todo = {x}]]
        /\ UNCHANGED <<slot, opening, review>>

(***************************************************************************)
(* The administrator.                                                      *)
(***************************************************************************)
Admin(operation) ==
    /\ tx["admin"] = Idle /\ operation \in AdminMay
    /\ asked < MaxOperations
    /\ asked' = asked + 1
AdminGoes(t) == tx' = [tx EXCEPT !["admin"] = t]

AdminStart(s) ==
    /\ Admin("start")
    /\ slot[s].status # "ABSENT"
    /\ AdminGoes([Idle EXCEPT !.step = "start", !.slot = s])
    /\ UNCHANGED <<slot, session, opening, review>>

AdminCancel(x) ==
    /\ Admin("cancel")
    /\ session[x].status \in {"READY", "PLAYING"}
    /\ AdminGoes([Idle EXCEPT !.step = "cancel", !.session = x, !.slot = session[x].slot])
    /\ UNCHANGED <<slot, session, opening, review>>

\* updateSlotStatus to CANCELLED: its sessions as they are now, one by one,
\* then the slot, whatever its status has become.
AdminRemove(s) ==
    /\ Admin("remove")
    /\ slot[s].status \in {"NEXT", "READY", "PLAYING"}
    /\ AdminGoes([Idle EXCEPT !.step = "remove", !.slot = s, !.todo = ActiveOf(s),
                              !.keep = IF slot[s].status = "PLAYING" THEN {} ELSE {s}])
    /\ UNCHANGED <<slot, session, opening, review>>

RemoveSession(x) ==
    /\ tx["admin"].step = "remove" /\ x \in tx["admin"].todo
    /\ AdminGoes([tx["admin"] EXCEPT !.step = "cancel", !.session = x,
                                     !.requeue = FALSE, !.then = "remove"])
    /\ UNCHANGED <<slot, session, opening, review>>

RemoveSlot ==
    LET s == tx["admin"].slot
    IN  /\ tx["admin"].step = "remove" /\ tx["admin"].todo = {}
        /\ ~SlotHeld(s, "admin")
        /\ slot' = [slot EXCEPT ![s].status = "CANCELLED"]
        /\ AdminGoes(IF s \in tx["admin"].keep THEN Opener("now") ELSE Idle)
        /\ UNCHANGED <<session, opening, review>>

\* clearQueue: slots of live sessions stay, and the first session with players;
\* one without players is cancelled.
AdminClear ==
    LET live == {session[x].slot : x \in Live(session)}
        regs == {x \in StandardReady(slot, session) : session[x].slot \notin live}
    IN  /\ Admin("clear")
        /\ IF regs = {} THEN AdminGoes([Idle EXCEPT !.step = "clear", !.keep = live])
           ELSE \E x \in HeadReady(regs, slot, session) :
             AdminGoes(IF session[x].players
                       THEN [Idle EXCEPT !.step = "clear", !.keep = live \cup {session[x].slot}]
                       ELSE [Idle EXCEPT !.step = "cancel", !.session = x,
                               !.slot = session[x].slot, !.requeue = FALSE,
                               !.then = "clear", !.keep = live])
        /\ UNCHANGED <<slot, session, opening, review>>

ClearSlots ==
    LET t == tx["admin"]
        cleared == {s \in Slots \ (Big \cup t.keep) :
                      \/ slot[s].status = "NEXT"
                      \/ s = t.slot /\ slot[s].status # "CANCELLED"}
    IN  /\ t.step = "clear"
        /\ \A s \in cleared : ~SlotHeld(s, "admin")
        /\ slot' = [s \in Slots |-> IF s \in cleared THEN [slot[s] EXCEPT !.status = "CANCELLED"]
                                    ELSE slot[s]]
        /\ AdminGoes(Opener("now"))
        /\ UNCHANGED <<session, opening, review>>

\* updateQueueOrder: positions 1, 2, ... to the slots listed.
Diverse(o) == \A i, j \in 1 .. Window : i < j /\ j <= Len(o) => Rule[o[i]] # Rule[o[j]]

AdminReorder(o) ==
    /\ Admin("reorder")
    /\ \A i \in DOMAIN o : slot[o[i]].status # "ABSENT" /\ ~SlotHeld(o[i], "admin")
    /\ Diverse(o)
    /\ Store([s \in Slots |-> IF \E i \in DOMAIN o : o[i] = s
                              THEN [slot[s] EXCEPT !.order = CHOOSE i \in DOMAIN o : o[i] = s]
                              ELSE slot[s]], tx)
    /\ UNCHANGED <<session, opening, review>>

\* createGameSlot: at the back, but behind the first games of the queue if one
\* of them has the same rule, before those that follow.
AdminCreate(s) ==
    LET queued == {r \in Slots \ Big : slot[r].status = "NEXT"}
    IN  /\ Admin("create")
        /\ slot[s].status = "ABSENT"
        /\ \E front \in SUBSET queued :
             LET anchor == LastOrder([r \in front |-> slot[r]])
                 squeeze == \E r \in front : Rule[r] = Rule[s]
                 moved == {r \in Slots : squeeze /\ slot[r].status = "NEXT" /\ slot[r].order > anchor}
             IN  /\ Cardinality(front) = Min({Window, Cardinality(queued)})
                 /\ \A r \in front, u \in queued \ front : slot[r].order <= slot[u].order
                 /\ \A r \in moved : ~SlotHeld(r, "admin")
                 /\ Store([r \in Slots |->
                             IF r = s THEN [status |-> "NEXT",
                                            order |-> 1 + IF squeeze THEN anchor ELSE LastOrder(slot)]
                             ELSE IF r \in moved THEN [slot[r] EXCEPT !.order = @ + 1]
                             ELSE slot[r]],
                          [tx EXCEPT !["admin"] = IF s \in Automatic THEN Opener("now") ELSE Idle])
        /\ UNCHANGED <<session, opening, review>>

\* getCurrentOperations for an administrator, when there is a queue and nothing
\* is open or live: READY sessions of slots in another state are repaired.
QueueGap ==
    /\ Live(session) = {}
    /\ ~\E x \in Sessions : /\ session[x].status = "READY"
                            /\ slot[session[x].slot].status \in {"NEXT", "READY"}
    /\ \E s \in Slots : slot[s].status = "NEXT"

AdminRepair ==
    /\ Admin("repair")
    /\ QueueGap
    /\ AdminGoes([Idle EXCEPT !.step = "repair",
                    !.todo = {x \in Sessions : session[x].status = "READY"}])
    /\ UNCHANGED <<slot, session, opening, review>>

\* repairInvalidReadySession: with players it is cancelled like any other (its
\* slot is put back), without it is marked, on the count just read.
RepairSession(x) ==
    LET t == tx["admin"]
    IN  /\ t.step = "repair" /\ x \in t.todo
        /\ AdminGoes(
             IF session[x].status # "READY" THEN [t EXCEPT !.todo = @ \ {x}]
             ELSE IF session[x].players
             THEN [t EXCEPT !.step = "cancel", !.session = x, !.slot = session[x].slot,
                            !.requeue = TRUE, !.then = "repair"]
             ELSE [t EXCEPT !.step = "retire", !.session = x])
        /\ UNCHANGED <<slot, session, opening, review>>

RepairRetire ==
    LET t == tx["admin"]
    IN  /\ t.step = "retire"
        /\ ~SessionHeld(t.session, "admin")
        /\ session' = [session EXCEPT ![t.session].status = "CANCELLED"]
        /\ AdminGoes([t EXCEPT !.step = "repair", !.session = None, !.todo = @ \ {t.session}])
        /\ UNCHANGED <<slot, opening, review>>

RepairDone ==
    /\ tx["admin"].step = "repair" /\ tx["admin"].todo = {}
    /\ AdminGoes(Opener("now"))
    /\ UNCHANGED <<slot, session, opening, review>>

(***************************************************************************)
(* The specification.                                                      *)
(***************************************************************************)
OpenerStep(a) == OpenBegin(a) \/ OpenCommit(a)
StartStep(a) == StartBegin(a) \/ StartRefused(a) \/ StartCommit(a) \/ StartTooLate(a)
CancelStep(a) == \/ CancelClaim(a) \/ CancelRefused(a) \/ CancelRestore(a)
                 \/ CancelCommit(a) \/ CancelDeadlock(a)
TransactionStep(a) == OpenerStep(a) \/ StartStep(a) \/ CancelStep(a)

TickStep == \/ TickRepair \/ TickNothing \/ StartFailed
            \/ \E x \in Sessions : TickDue(x)

AdminOperation ==
    \/ \E s \in Slots : AdminStart(s) \/ AdminRemove(s) \/ AdminCreate(s)
    \/ \E x \in Sessions : AdminCancel(x)
    \/ \E o \in Orders : AdminReorder(o)
    \/ AdminClear \/ AdminRepair
AdminStep ==
    \/ \E x \in Sessions : RemoveSession(x) \/ RepairSession(x)
    \/ RemoveSlot \/ ClearSlots \/ RepairRetire \/ RepairDone

PlayerStep == (\E x \in Sessions : Register(x)) \/ (\E s \in Slots : FirstRequest(s))
TimeStep == (\E x \in Sessions : DeadlinePasses(x)) \/ ReviewOver

SystemStep ==
    \/ \E a \in {"scheduler", "admin"} : TransactionStep(a)
    \/ (\E x \in Sessions : EndBegin(x)) \/ EndCommit \/ EndDeadlock
    \/ TickStep \/ AdminStep \/ PlayerStep \/ TimeStep

\* A registration is opened by the transaction that uses its plan for one.  One
\* of a slot removed since counts no more, even if its game puts the slot back.
StillOpened ==
    opened' = {x \in Sessions :
                 /\ session'[x].status = "READY" /\ session'[x].slot \notin Big
                 /\ slot'[session'[x].slot].status # "CANCELLED"
                 /\ \/ x \in opened
                    \/ /\ session[x].status # "READY"
                       /\ opening.create # None /\ opening' = NoPlan}

System(Step) == Step /\ UNCHANGED asked /\ StillOpened

Next == (AdminOperation /\ StillOpened) \/ System(SystemStep)

Spec == Init /\ [][Next]_vars

\* Transactions end, ticks and the jobs that end rounds come again, time passes.
\* Nothing is assumed of players and of what administrators begin.
Fairness ==
    /\ \A a \in {"scheduler", "admin"} : WF_vars(System(TransactionStep(a)))
    /\ WF_vars(System(TickStep))
    /\ WF_vars(System(AdminStep))
    /\ \A x \in Sessions : WF_vars(System(EndBegin(x)))
    /\ WF_vars(System(EndCommit))
    /\ \A x \in Sessions : WF_vars(System(DeadlinePasses(x)))
    /\ WF_vars(System(ReviewOver))
FairSpec == Spec /\ Fairness

(***************************************************************************)
(* Properties.                                                             *)
(***************************************************************************)
\* No slot is played twice at once, whoever starts it, asks for it, puts it back
\* or ends it at the same time: startGame looks for live sessions when it has
\* locked its slot, and this lock is all that is still so when it commits.
OneLivePerSlot ==
    \A x, y \in Live(session) : session[x].slot = session[y].slot => x = y

\* assertGlobalActiveSessions means more: at most one round is played at a time.
\* It is the order of the queue that keeps the scheduler and an administrator
\* from starting two slots at once, and not if the queue is reordered meanwhile.
OneLive == Cardinality(Live(session)) <= 1

\* A slot that was removed, or whose only game was played, does not come back
\* into the queue, whatever else was about to be done with it.
RemovedStays ==
    [][\A s \in Once : slot[s].status = "CANCELLED" => slot'[s].status = "CANCELLED"]_vars

\* The openers of ticks, starts, ends and cancellations never have two
\* registrations of the queue open between them, whatever players ask for and
\* administrators remove, reorder or repair meanwhile.
OpenersOpenOne == Cardinality(opened) <= 1

\* No paid entry is lost: a session with players ends by being played or by a
\* cancellation that refunds them, not by being retired as empty.
NobodyRetired == \A x \in Sessions : session[x].players => session[x].status # "CANCELLED"

\* Registration opens sooner or later for every automatic slot of the queue.
QueueMoves ==
    \A s \in Automatic \ Big :
      slot[s].status = "NEXT" ~> ActiveOf(s) # {} \/ slot[s].status = "CANCELLED"

\* Whoever registered is played with, or gets the entry back.
PlayersServed ==
    \A x \in Sessions :
      session[x].status = "READY" /\ session[x].players ~> session[x].status # "READY"

\* A Big Game is played when its time has come, or cancelled.
BigGameServed ==
    \A x \in Sessions :
      session[x].status = "READY" /\ session[x].slot \in Big ~> session[x].status # "READY"
=============================================================================
