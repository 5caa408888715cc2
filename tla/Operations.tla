----------------------------- MODULE Operations -----------------------------
(***************************************************************************)
(* What clients are told is going on: GET /games/operations/current.       *)
(*                                                                         *)
(* The answer is put together from several queries, each of which sees the *)
(* rows as they are when it runs, while rounds are opened, played and      *)
(* ended.  It goes through two caches in memory: one entry, dropped after  *)
(* 500 ms or when something has changed, and the last answer that showed a *)
(* game, repeated for a while when nothing is found ("handoff").           *)
(*                                                                         *)
(* Time is counted in ticks.  A slot's row and the row of its session that *)
(* is not over change in one transaction and are one value here; sessions  *)
(* that are over are rows of their own.                                    *)
(***************************************************************************)
EXTENDS Integers, FiniteSets, FiniteSetsExt

CONSTANTS
    Slots,      \* rows of GameSlot; a number, the sortOrder at the start
    Big,        \* slots of category BIG_GAME
    Automatic,  \* slots with operationMode AUTO
    Once,       \* slots with removeAfterFinish
    Requests,   \* requests under way at a time
    Keys,       \* cache keys: role and user, or guest
    Admins,     \* those of administrators
    Ttl,        \* OperationsCacheService.TTL_MS
    Grace,      \* OPERATIONS_TRANSIENT_IDLE_GRACE_MS
    Display,    \* finishedResultDisplaySeconds
    MaxBuild,   \* bound: ticks that an answer takes to build
    MaxTime,    \* bound: ticks
    MaxChanges, \* bound: changes of the rows
    None

ASSUME OperationsAssumption ==
    /\ IsFiniteSet(Slots) /\ Slots \subseteq Nat \ {0}
    /\ Big \subseteq Slots /\ Automatic \subseteq Slots /\ Once \subseteq Slots
    /\ \A n \in {Ttl, Grace, Display, MaxBuild, MaxTime, MaxChanges} : n \in Nat
    /\ Admins \subseteq Keys

VARIABLES
    status,     \* status[s]: of slot s, and of its session that is not over
    round,      \* round[s]: which session of slot s that is, or was
    order,      \* order[s]: sortOrder
    due,        \* slots whose session is past its scheduledStartAt
    over,       \* sessions that are over
    now,
    changes,    \* changes of the rows so far
    unannounced,\* has a change been committed, the cache not yet invalidated?
    cache,      \* OperationsCacheService.cache
    recent,     \* recent[k]: recentNonIdleOperationsByCacheKey
    req         \* req[r]: where r's request is, and what it has read

rows == <<status, round, order, due, over>>
vars == <<rows, now, changes, unannounced, cache, recent, req>>

Claimed == {"PLAYING", "CHECKING", "WINNER_WINDOW"}
Queries == {"live", "checking", "ready", "slots"}
Rechecks == {"live", "checking", "ready"}

Item == [slot : Slots, round : 0 .. MaxChanges + 1, due : BOOLEAN, order : Nat,
         status : Claimed \cup {"READY", "FINISHED"}]
OverRow == [slot : Slots, round : 0 .. MaxChanges + 1, at : 0 .. MaxTime, order : Nat,
            status : {"FINISHED", "CANCELLED"}]
SentItem == [slot : Slots, round : 0 .. MaxChanges + 1,
             status : Claimed \cup {"READY", "FINISHED"}]
Snapshot == [live : SentItem \cup {None}, checking : SentItem \cup {None},
             registration : SentItem \cup {None}, queue : SUBSET Slots,
             elsewhere : (Slots \X {"live", "held"}) \cup {None},
             state : {"active", "handoff", "idle"}]

ASSUME NoneAssumption ==
    /\ None \notin Slots /\ None \notin Keys
    /\ None \notin Item /\ None \notin SentItem

TypeOK ==
    /\ status \in [Slots -> Claimed \cup {"NEXT", "READY", "CANCELLED"}]
    /\ round \in [Slots -> 0 .. MaxChanges + 1]
    /\ order \in [Slots -> Nat]
    /\ due \subseteq Slots
    /\ over \subseteq OverRow
    /\ now \in 0 .. MaxTime /\ changes \in 0 .. MaxChanges
    /\ unannounced \in BOOLEAN
    /\ cache \in [key : Keys, payload : Snapshot, until : Nat] \cup {None}
    /\ recent \in [Keys -> [at : 0 .. MaxTime, payload : Snapshot] \cup {None}]
    /\ \A r \in Requests :
         /\ req[r].at \in {"idle", "reading", "spot", "claimed", "terminal", "recheck", "built"}
         /\ req[r].key \in Keys \cup {None}
         /\ {req[r].live, req[r].checking, req[r].registration} \ {None} \subseteq Item

Nothing == [at |-> "idle", key |-> None, todo |-> {}, live |-> None, checking |-> None,
            ready |-> {}, next |-> {}, big |-> {}, registration |-> None, queue |-> {},
            healed |-> FALSE, begun |-> 0, seen |-> 0, steady |-> {}]

\* The head of the queue has a session or none; a Big Game's is there from the
\* start.
Init ==
    /\ \E st \in {"NEXT", "READY", "PLAYING"} :
         status = [s \in Slots |->
           IF s \in Big THEN "READY" ELSE IF s = Min(Slots \ Big) THEN st ELSE "NEXT"]
    /\ round = [s \in Slots |-> IF status[s] = "NEXT" THEN 0 ELSE 1]
    /\ order = [s \in Slots |-> s]
    /\ due = {} /\ over = {}
    /\ now = 0 /\ changes = 0 /\ unannounced = FALSE
    /\ cache = None
    /\ recent = [k \in Keys |-> None]
    /\ req = [r \in Requests |-> Nothing]

(***************************************************************************)
(* The rows change.  (Module Queue has these transactions in detail.)      *)
(***************************************************************************)
Active == {s \in Slots : status[s] \in Claimed}
Last == Cardinality(Slots) + changes + 1

\* Sessions that a client should be shown: played, or open for registration.
Showing == {<<s, round[s]>> : s \in {t \in Slots :
               \/ status[t] \in Claimed
               \/ status[t] = "READY" /\ t \notin Big \cup due}}

\* What every change does to the requests under way is history only.
Changed ==
    /\ changes < MaxChanges
    /\ changes' = changes + 1
    /\ req' = [r \in Requests |-> [req[r] EXCEPT !.steady = @ \cap Showing']]
    /\ UNCHANGED <<now, cache, recent>>

Committed == Changed /\ unannounced' = TRUE

Open(s) ==
    /\ status[s] = "NEXT"
    /\ status' = [status EXCEPT ![s] = "READY"]
    /\ round' = [round EXCEPT ![s] = @ + 1]
    /\ due' = due \ {s}
    /\ UNCHANGED <<order, over>>
    /\ Committed

\* scheduledStartAt passes: no transaction, nothing to invalidate.
DeadlinePasses(s) ==
    /\ status[s] = "READY" /\ s \in (Automatic \cup Big) \ due
    /\ due' = due \cup {s}
    /\ UNCHANGED <<status, round, order, over>>
    /\ Changed /\ UNCHANGED unannounced

\* The countdown repair clears deadlines that passed behind a live round.
RepairCountdown ==
    /\ Active # {}
    /\ \E s \in due : status[s] = "READY" /\ s \in Automatic \ Big
    /\ due' = due \ {s \in Automatic \ Big : status[s] = "READY"}
    /\ UNCHANGED <<status, round, order, over>>
    /\ Committed

Start(s) ==
    /\ status[s] = "READY" /\ Active = {}
    /\ status' = [status EXCEPT ![s] = "PLAYING"]
    /\ UNCHANGED <<round, order, due, over>>
    /\ Committed

\* Claims: to a review and back, to the winner window.
Play(s, to) ==
    /\ <<status[s], to>> \in {<<"PLAYING", "CHECKING">>, <<"CHECKING", "PLAYING">>,
                             <<"PLAYING", "WINNER_WINDOW">>, <<"CHECKING", "WINNER_WINDOW">>}
    /\ status' = [status EXCEPT ![s] = to]
    /\ UNCHANGED <<round, order, due, over>>
    /\ Committed

\* The session is over, the slot at the back of the queue or removed.
Close(s, how, slotTo) ==
    /\ over' = over \cup {[slot |-> s, round |-> round[s], at |-> now, order |-> Last,
                           status |-> how]}
    /\ status' = [status EXCEPT ![s] = slotTo]
    /\ order' = [order EXCEPT ![s] = Last]
    /\ due' = due \ {s}
    /\ UNCHANGED round
    /\ Committed

Finish(s) ==
    /\ status[s] \in Claimed
    /\ Close(s, "FINISHED", IF s \in Once THEN "CANCELLED" ELSE "NEXT")

Cancel(s) ==
    /\ status[s] \in Claimed \cup {"READY"}
    /\ \E to \in {"NEXT", "CANCELLED"} :
         /\ s \in Big => to = "CANCELLED"
         /\ Close(s, "CANCELLED", to)

\* After the commit, before the events are sent.
Invalidate ==
    /\ unannounced
    /\ unannounced' = FALSE
    /\ cache' = None
    /\ UNCHANGED <<rows, now, changes, recent, req>>

(***************************************************************************)
(* The queries.                                                            *)
(***************************************************************************)
Row(s) == [slot |-> s, round |-> round[s], due |-> s \in due, order |-> order[s],
           status |-> status[s]]
Rows(S) == {Row(s) : s \in {t \in Slots : status[t] \in S}}
First(I) == IF I = {} THEN None ELSE CHOOSE i \in I : \A j \in I : i.order <= j.order
SlotsOf(I) == {i.slot : i \in I \ {None}}

FindFirst(S) == First(Rows(S))
FindQueueReady == Rows({"READY"})
\* The slot of an open session is still NEXT.
FindNextSlots == {s \in Slots : status[s] \in {"NEXT", "READY"}}
FindBigGames == {i \in Rows(Claimed \cup {"READY"}) : i.slot \in Big}

RecentTerminal ==
    {o \in over : /\ o.status = "FINISHED" /\ now - o.at <= Display
                  /\ status[o.slot] # "CANCELLED"}

\* The session read before, as it is now.
Spot(i) == IF round[i.slot] = i.round /\ status[i.slot] \in Claimed
           THEN Row(i.slot) ELSE i

(***************************************************************************)
(* Putting an answer together.                                             *)
(***************************************************************************)
Empty(b) == b.live = None /\ b.checking = None /\ b.registration = None
Gap(b) == Empty(b) /\ b.queue # {}
Idle(b) == Empty(b) /\ b.queue = {}

Standard(I) == {i \in I : i.slot \notin Big}

CanRegister(i, blocked) ==
    \/ blocked
    \/ ~ (i.slot \in Automatic /\ (i.due \/ (i.round = round[i.slot] /\ i.slot \in due)))

RegistrationCandidate(I, blocked) == First({i \in Standard(I) : CanRegister(i, blocked)})

\* All five queries have answered: what is live, open and waiting.
Selected(b) ==
    LET blocked == b.live # None \/ b.checking # None
        used == SlotsOf({b.live, b.checking})
        ready == {i \in b.ready : i.slot \notin used}
        candidate == RegistrationCandidate(ready, blocked)
    IN  [b EXCEPT !.registration = candidate,
                  !.queue = ((b.next \ used) \cup SlotsOf(ready)) \ (SlotsOf({candidate}) \cup Big),
                  !.ready = {}, !.next = {},
                  !.at = CASE blocked -> "built"
                           [] ~ blocked /\ candidate # None -> "spot"
                           [] OTHER -> "claimed"]

\* The recheck has answered: what was missed, in the order live, checking, open.
Recovered(b) ==
    LET open == RegistrationCandidate(b.ready, FALSE)
    IN  [b EXCEPT !.checking = IF b.live = None THEN @ ELSE None,
                  !.registration = IF b.live = None /\ b.checking = None THEN open ELSE None,
                  !.ready = {}, !.at = "built"]

Take(b, q) ==
    LET c == [b EXCEPT !.todo = @ \ {q}]
    IN  CASE q = "live" -> [c EXCEPT !.live = FindFirst({"PLAYING", "WINNER_WINDOW"})]
          [] q = "checking" -> [c EXCEPT !.checking = FindFirst({"CHECKING"})]
          [] q = "ready" -> [c EXCEPT !.ready = FindQueueReady]
          [] q = "slots" -> [c EXCEPT !.next = FindNextSlots, !.big = FindBigGames]

\* seen and steady are history: the changes before this answer's queries, and
\* what has been to be shown ever since.
Begin(k, healed, n, showing) ==
    [Nothing EXCEPT !.at = "reading", !.key = k, !.todo = Queries, !.begun = now,
                    !.healed = healed, !.seen = n, !.steady = showing]

\* The Big Game to point to while the standard game is shown.
Priority(i) == CASE i.status = "PLAYING" -> 0 [] i.status = "WINNER_WINDOW" -> 1
                 [] i.status = "CHECKING" -> 2 [] OTHER -> 3
BigGameLiveElsewhere(b) ==
    LET blocking == Standard({b.live, b.checking} \ {None})
        best == CHOOSE i \in b.big : \A j \in b.big :
                  \/ Priority(i) < Priority(j)
                  \/ Priority(i) = Priority(j) /\ i.order <= j.order
    IN  IF b.big = {} THEN None
        ELSE IF best.status \in Claimed THEN <<best.slot, "live">>
        ELSE IF (best.due \/ best.slot \in due) /\ blocking # {} THEN <<best.slot, "held">>
        ELSE None

Sent(i) == IF i = None THEN None ELSE [slot |-> i.slot, round |-> i.round, status |-> i.status]

Result(b) ==
    [live |-> Sent(b.live), checking |-> Sent(b.checking),
     registration |-> Sent(b.registration), queue |-> b.queue, elsewhere |-> BigGameLiveElsewhere(b),
     state |-> IF ~ Empty(b) THEN "active" ELSE IF b.queue # {} THEN "handoff" ELSE "idle"]

(***************************************************************************)
(* The two memories of earlier answers.                                    *)
(***************************************************************************)
\* Faulty variant: entries do not expire, they are only invalidated.
CachedForever(k) == IF cache # None /\ cache.key = k THEN cache.payload ELSE None

Cached(k) == IF cache # None /\ cache.key = k /\ now < cache.until THEN cache.payload ELSE None

Remember(k, snapshot) ==
    recent' = IF Gap(snapshot) THEN recent
              ELSE [recent EXCEPT ![k] = IF Idle(snapshot) THEN None
                                         ELSE [at |-> now, payload |-> snapshot]]

Repeatable(k) == recent[k] # None /\ now - recent[k].at <= Grace

\* stabilizeTransientIdleOperations: an answer without a game is replaced by
\* the last one that had one, for a while.
Stabilized(k, snapshot) ==
    IF Empty(snapshot) /\ Repeatable(k)
    THEN [recent[k].payload EXCEPT !.state = "handoff"]
    ELSE snapshot
RememberBuilt(k, snapshot) ==
    IF Empty(snapshot) /\ Repeatable(k) THEN UNCHANGED recent ELSE Remember(k, snapshot)

(***************************************************************************)
(* A request.                                                              *)
(***************************************************************************)
To(r, b) == req' = [req EXCEPT ![r] = b]

\* An administrator is not told of a gap from the cache.
Usable(k) == Cached(k) # None /\ ~ (k \in Admins /\ Gap(Cached(k)))

\* The answer is the cached one.
AskCached(k) ==
    /\ Usable(k)
    /\ Remember(k, Cached(k))
    /\ UNCHANGED <<rows, now, changes, unannounced, cache, req>>

Ask(r, k) ==
    /\ req[r].at = "idle" /\ ~ Usable(k)
    /\ To(r, Begin(k, FALSE, changes, Showing))
    /\ cache' = IF cache # None /\ cache.key = k /\ Cached(k) = None THEN None ELSE cache
    /\ UNCHANGED <<rows, now, changes, unannounced, recent>>

Internal == UNCHANGED <<rows, now, changes, unannounced, cache, recent>>

Read(r, q) ==
    /\ req[r].at = "reading" /\ q \in req[r].todo
    /\ LET b == Take(req[r], q)
       IN  To(r, IF b.todo = {} THEN Selected(b) ELSE b)
    /\ Internal

\* Has the session chosen for registration started meanwhile?
SpotCheck(r) ==
    /\ req[r].at = "spot"
    /\ LET i == Spot(req[r].registration)
           b == [req[r] EXCEPT !.at = "built"]
       IN  To(r, CASE i.status \in {"PLAYING", "WINNER_WINDOW"} ->
                        [b EXCEPT !.live = i, !.registration = None]
                   [] i.status = "CHECKING" ->
                        [b EXCEPT !.checking = i, !.registration = None]
                   [] OTHER -> b)
    /\ Internal

\* Faulty variant: the slots in play are not looked up once more.
FindClaimedNever(r) ==
    /\ req[r].at = "claimed"
    /\ To(r, [req[r] EXCEPT !.at = "terminal"])
    /\ Internal

\* Nothing found: is any slot in play after all?
FindClaimed(r) ==
    /\ req[r].at = "claimed"
    /\ LET i == FindFirst(Claimed)
       IN  To(r, CASE i = None -> [req[r] EXCEPT !.at = "terminal"]
                   [] i # None /\ i.status = "CHECKING" ->
                        [req[r] EXCEPT !.checking = i, !.at = "built"]
                   [] OTHER -> [req[r] EXCEPT !.live = i, !.at = "built"])
    /\ Internal

\* Faulty variant: the slot of the round that ended stays in the queue.
FindTerminalQueued(r) ==
    /\ req[r].at = "terminal"
    /\ \/ \E o \in RecentTerminal :
            /\ \A p \in RecentTerminal : p.order <= o.order
            /\ To(r, [req[r] EXCEPT
                 !.live = [slot |-> o.slot, round |-> o.round, due |-> FALSE,
                           order |-> order[o.slot], status |-> "FINISHED"],
                 !.at = "built"])
       \/ /\ RecentTerminal = {}
          /\ To(r, IF req[r].queue = {} THEN [req[r] EXCEPT !.at = "recheck", !.todo = Rechecks]
                   ELSE [req[r] EXCEPT !.at = "built"])
    /\ Internal

\* Still nothing: a round that ended a moment ago, which is then not also
\* shown as waiting; else a second look, if nothing waits either.
FindTerminal(r) ==
    /\ req[r].at = "terminal"
    /\ \/ \E o \in RecentTerminal :
            /\ \A p \in RecentTerminal : p.order <= o.order
            /\ To(r, [req[r] EXCEPT
                 !.live = [slot |-> o.slot, round |-> o.round, due |-> FALSE,
                           order |-> order[o.slot], status |-> "FINISHED"],
                 !.queue = @ \ {o.slot}, !.at = "built"])
       \/ /\ RecentTerminal = {}
          /\ To(r, IF req[r].queue = {} THEN [req[r] EXCEPT !.at = "recheck", !.todo = Rechecks]
                   ELSE [req[r] EXCEPT !.at = "built"])
    /\ Internal

Recheck(r, q) ==
    /\ req[r].at = "recheck" /\ q \in req[r].todo
    /\ LET b == Take(req[r], q)
       IN  To(r, IF b.todo = {} THEN Recovered(b) ELSE b)
    /\ Internal

\* What the client is told.
Reply(r) == Stabilized(req[r].key, Result(req[r]))

Answer(r) ==
    /\ req[r].at = "built"
    /\ RememberBuilt(req[r].key, Result(req[r]))
    /\ cache' = IF Idle(Reply(r)) THEN cache
                ELSE [key |-> req[r].key, payload |-> Reply(r), until |-> now + Ttl]
    /\ To(r, Nothing)
    /\ UNCHANGED <<rows, now, changes, unannounced>>

\* An administrator who finds slots waiting and nothing open has the first of
\* them opened, once, and is answered anew.  (If that fails, Answer.)
HealGap(r) ==
    /\ req[r].at = "built" /\ req[r].key \in Admins
    /\ Gap(Result(req[r])) /\ ~ req[r].healed
    /\ {i \in FindQueueReady : i.slot \notin Big} = {}
    /\ changes < MaxChanges /\ changes' = changes + 1
    /\ \E s \in Automatic \ Big :
         /\ status[s] = "NEXT"
         /\ \A u \in Slots \ Big : status[u] = "NEXT" => order[s] <= order[u]
         /\ status' = [status EXCEPT ![s] = "READY"]
         /\ round' = [round EXCEPT ![s] = @ + 1]
         /\ due' = due \ {s}
    /\ cache' = None
    /\ req' = [q \in Requests |->
                 IF q = r
                 THEN Begin(req[r].key, TRUE, changes', Showing')
                 ELSE [req[q] EXCEPT !.steady = @ \cap Showing']]
    /\ UNCHANGED <<order, over, now, unannounced, recent>>

Tick ==
    /\ now < MaxTime
    /\ \A r \in Requests : req[r].at = "idle" \/ now - req[r].begun < MaxBuild
    /\ now' = now + 1
    /\ UNCHANGED <<rows, changes, unannounced, cache, recent, req>>

Next ==
    \/ \E s \in Slots :
         \/ Open(s) \/ DeadlinePasses(s) \/ Start(s)
         \/ \E to \in Claimed : Play(s, to)
         \/ Finish(s) \/ Cancel(s)
    \/ RepairCountdown \/ Invalidate \/ Tick
    \/ \E k \in Keys : AskCached(k)
    \/ \E r \in Requests :
         \/ \E k \in Keys : Ask(r, k)
         \/ \E q \in Queries : Read(r, q)
         \/ SpotCheck(r) \/ FindClaimed(r) \/ FindTerminal(r)
         \/ \E q \in Rechecks : Recheck(r, q)
         \/ HealGap(r) \/ Answer(r)

Spec == Init /\ [][Next]_vars

(***************************************************************************)
(* Properties.                                                             *)
(***************************************************************************)
About(r) == req[r].at = "built"     \* r is about to be answered Reply(r)

\* The queries of one answer see different moments: a round that starts, goes
\* to review or comes back between them is in none of their results.  Yet if
\* one session was open or in play all the time, the answer shows a game.
ShowsTheGame == \A r \in Requests : About(r) /\ req[r].steady # {} => ~ Empty(Reply(r))

ShownAt(a, s) == {p \in {"live", "checking", "registration"} : a[p] # None /\ a[p].slot = s}
                 \cup IF s \in a.queue THEN {"queue"} ELSE {}

\* When nothing changed while it was put together, an answer places every slot
\* of the standard queue exactly once; a Big Game never waits in the queue.
EachSlotOnce ==
    \A r \in Requests : About(r) /\ req[r].seen = changes /\ Reply(r).state = "active" =>
      /\ \A s \in Slots \ Big :
           status[s] # "CANCELLED" => Cardinality(ShownAt(Reply(r), s)) = 1
      /\ Reply(r).queue \cap Big = {}

\* How long ago a session that an answer shows was over; 0 if it is not.
Age(i) == LET O == {o \in over : o.slot = i.slot /\ o.round = i.round}
          IN  IF O = {} THEN 0 ELSE now - (CHOOSE o \in O : TRUE).at

Shown(a) == {a.live, a.checking, a.registration} \ {None}
NotOver(a, limit) ==
    \A i \in Shown(a) : Age(i) <= limit + IF i.status = "FINISHED" THEN Display ELSE 0

\* Entries written after the invalidation that should have prevented them are
\* gone when they expire: except as a handoff, no session is shown for longer
\* after its end than the cache lives (a result: after the time it is on show).
StaleOnlyBriefly ==
    /\ \A r \in Requests : About(r) /\ Reply(r).state # "handoff" =>
         NotOver(Reply(r), MaxBuild)
    /\ \A k \in Keys : Usable(k) /\ Cached(k).state # "handoff" =>
         NotOver(Cached(k), Ttl + MaxBuild)

(***************************************************************************)
(* What the documentation and comments promise and the code does not do.   *)
(***************************************************************************)
\* A slot is shown in one place of an answer.
ShownOnce == \A r \in Requests, s \in Slots : About(r) => Cardinality(ShownAt(Reply(r), s)) <= 1

\* A handoff ends: after its grace nothing that is over is shown any more.
HandoffEnds ==
    /\ \A r \in Requests : About(r) => NotOver(Reply(r), Grace + Ttl + MaxBuild)
    /\ \A k \in Keys : Usable(k) => NotOver(Cached(k), Grace + Ttl + MaxBuild)

\* Who asks after the cache was cleared for a start is not told that the
\* session is still open for registration.
SeesPlaying ==
    \A k \in Keys : Usable(k) /\ ~ unannounced =>
      LET i == Cached(k).registration
      IN  i # None => ~ (round[i.slot] = i.round /\ status[i.slot] \in Claimed)
=============================================================================
