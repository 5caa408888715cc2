------------------------------- MODULE Round -------------------------------
(***************************************************************************)
(* One round of automatic bingo, from the moment its session is PLAYING to *)
(* the moment it is settled: balls are drawn, players claim, the first     *)
(* valid claim opens the winner window, the others join it, and the round  *)
(* ends FINISHED (the prize is split), NO_WINNER or CANCELLED (the entry   *)
(* fees are refunded).                                                     *)
(*                                                                         *)
(* The database runs READ COMMITTED.  A transaction is therefore not one   *)
(* step: its reads see what is committed when they are made, and its first *)
(* write to the session row takes a row lock that it keeps until it ends.  *)
(* `lock' is the claim request that holds this lock over several steps;    *)
(* a transaction that writes the session row in a single step needs the    *)
(* lock to be free (`Free').  Uncommitted writes are invisible, so a claim *)
(* request applies all its writes in the step that commits it.             *)
(*                                                                         *)
(* A deadline (nextAutoCallAt, winnerWindowEndsAt, noWinnerGraceEndsAt) is *)
(* kept as the time left until it, which `Tick' lets run down: the model   *)
(* needs no bound on time.                                                 *)
(***************************************************************************)
EXTENDS Integers, Sequences, FiniteSets

CONSTANTS
    Requests,       \* the claim requests players send, retries included
    Cartelas,       \* the cartelas registered for the round
    CartelaOf,      \* the cartela a request claims bingo for
    Balls,          \* the numbers that can be drawn (1..75 in the code)
    Patterns,       \* the sets of numbers that win, for each cartela
    NoRequest,      \* "no request holds the row lock"
    Interval,       \* autoCallIntervalMs
    WindowLen,      \* winnerWindowSeconds
    ClaimGrace,     \* winnerWindowClaimGraceMs
    NoWinnerGrace,  \* noWinnerGraceSeconds
    AdminOps,       \* what operators do during the round
    Failures        \* may a step of a background job or a claim fail?

ASSUME RoundAssumption ==
    /\ NoRequest \notin Requests
    /\ CartelaOf \in [Requests -> Cartelas]
    /\ IsFiniteSet(Cartelas)
    /\ Patterns \in [Cartelas -> SUBSET SUBSET Balls]
    /\ Interval \in Nat /\ WindowLen \in Nat
    /\ ClaimGrace \in Nat /\ NoWinnerGrace \in Nat
    /\ AdminOps \subseteq {"call", "start", "stop", "cancel", "early"}
    /\ Failures \in BOOLEAN

VARIABLES
    session,    \* the GameSession row
    called,     \* its CalledNumber rows, by order
    cartela,    \* status of each GameCartela row
    claims,     \* the BingoClaim rows
    ledger,     \* prize and refund rows of the wallet ledger
    lock,       \* the claim request holding the lock on the session row
    tx,         \* each claim request: where it is and what it has read
    caller,     \* the auto-call job
    operator,   \* calls of callNumber and startAutoCall
    canceller,  \* a call of cancelSession
    early       \* a call of finalizeWinnerWindowEarly

rows == <<session, called, cartela, claims, ledger>>
jobs == <<caller, operator, canceller, early>>
vars == <<rows, lock, tx, jobs>>

-----------------------------------------------------------------------------
Null == -1      \* a deadline that is not set

\* time left to a deadline that passed longer ago than anything looks at it
WindowClosed == -(ClaimGrace + 1)

Terminal == {"FINISHED", "NO_WINNER", "CANCELLED"}
SessionStatus == {"PLAYING", "WINNER_WINDOW"} \cup Terminal
CartelaStatus == {"REGISTERED", "WINNER", "BLOCKED", "CANCELLED"}

Drawn == {called[i] : i \in 1..Len(called)}
Remaining == Balls \ Drawn
Winners == {c \in Cartelas : cartela[c] = "WINNER"}

\* The prize of c is one share of `ledger.paid[c]'; 0 when it was paid nothing.
Paid == {c \in Cartelas : ledger.paid[c] # 0}

Free == lock = NoRequest
Unlocked(r) == lock \in {NoRequest, r}

\* `Reset' is the state of a request that has not started or is over.
Reset(pc) == [pc |-> pc, status |-> "PLAYING", auto |-> FALSE, resume |-> 0,
              window |-> WindowClosed, order |-> 0]

\* `Waiting' is the auto-call job with nothing picked.
Waiting(pc) == [pc |-> pc, pick |-> {}, last |-> FALSE, next |-> 0, order |-> 0]

Init ==
    /\ session = [status |-> "PLAYING", autoCallEnabled |-> FALSE,
                  nextAutoCallAt |-> Null, winnerWindowEndsAt |-> WindowClosed,
                  noWinnerGraceEndsAt |-> Null]
    /\ called = <<>>
    /\ cartela = [c \in Cartelas |-> "REGISTERED"]
    /\ claims = {}
    /\ ledger = [paid |-> [c \in Cartelas |-> 0], refunded |-> {}]
    /\ lock = NoRequest
    /\ tx = [r \in Requests |-> Reset("new")]
    /\ caller = Waiting("idle")
    \* the round was just started: startAutoCall has read a PLAYING session
    /\ operator = [pc |-> "start", first |-> TRUE, pick |-> {}, order |-> 0,
                   attempt |-> 1]
    /\ canceller = "idle"
    /\ early = "idle"

-----------------------------------------------------------------------------
(* A claim: claimBingo of bingo-claims.service.ts, one transaction.        *)

\* PatternRuleEvaluator on a pattern group: some winning set of numbers is
\* drawn, and the last number drawn is one of them.
CompletedByLatest(c) ==
    /\ called # <<>>
    /\ \E p \in Patterns[c] : p \subseteq Drawn /\ called[Len(called)] \in p

\* computeInvalidClaimResumeAt: the countdown as it stood when it was read.
ResumeIn ==
    IF session.nextAutoCallAt = Null THEN Interval ELSE session.nextAutoCallAt

Verdict(r, kind) ==
    [req |-> r, cartela |-> CartelaOf[r], verdict |-> kind,
     order |-> tx[r].order]

\* The request is over; its transaction has ended and its locks are gone.
End(r) ==
    /\ tx' = [tx EXCEPT ![r] = Reset("done")]
    /\ lock' = IF lock = r THEN NoRequest ELSE lock

\* A cartela that has its verdict already: the request returns that claim, or
\* records an INVALID one with reason ALREADY_BLOCKED.
ClaimAlreadyResolved(r) ==
    LET c == CartelaOf[r]
        given == {m \in claims : m.cartela = c}
    IN  /\ tx[r].pc = "new"
        /\ cartela[c] \in {"BLOCKED", "WINNER"}
        /\ claims' = IF \/ given = {}
                        \/ cartela[c] = "WINNER"
                           /\ \A m \in given : m.verdict # "VALID"
                     THEN claims \cup {Verdict(r, "ALREADY")}
                     ELSE claims
        /\ End(r)
        /\ UNCHANGED <<session, called, cartela, ledger, jobs>>

\* assertClaimableCartela and the status check of createAutoValidatedClaim.
ClaimRefused(r) ==
    /\ tx[r].pc = "new"
    /\ \/ cartela[CartelaOf[r]] = "CANCELLED"
       \/ /\ cartela[CartelaOf[r]] = "REGISTERED"
          /\ session.status \notin {"PLAYING", "WINNER_WINDOW"}
    /\ End(r)
    /\ UNCHANGED <<rows, jobs>>

\* loadClaimCartela: the cartela and its session are read without a lock.
ClaimLoad(r) ==
    LET mustPause == session.status = "PLAYING" /\ session.autoCallEnabled
    IN  /\ tx[r].pc = "new"
        /\ cartela[CartelaOf[r]] = "REGISTERED"
        /\ session.status \in {"PLAYING", "WINNER_WINDOW"}
        /\ tx' = [tx EXCEPT ![r] =
                    [pc |-> IF mustPause THEN "pause" ELSE "evaluate",
                     status |-> session.status,
                     auto |-> session.autoCallEnabled,
                     resume |-> IF mustPause THEN ResumeIn ELSE 0,
                     window |-> session.winnerWindowEndsAt,
                     order |-> 0]]
        /\ UNCHANGED <<rows, lock, jobs>>

\* Faulty variant: the claim is evaluated without holding auto-call back.
ClaimPauseWithoutLock(r) ==
    /\ tx[r].pc = "pause"
    /\ Free
    /\ tx' = [tx EXCEPT ![r].pc = "evaluate"]
    /\ UNCHANGED <<rows, lock, jobs>>

\* Pause auto-call: the update takes the row lock if it still finds the round
\* PLAYING with auto-call on.  The cleared countdown is not yet visible.
ClaimPause(r) ==
    /\ tx[r].pc = "pause"
    /\ Free
    /\ lock' = IF session.status = "PLAYING" /\ session.autoCallEnabled
               THEN r ELSE lock
    /\ tx' = [tx EXCEPT ![r].pc = "evaluate"]
    /\ UNCHANGED <<rows, jobs>>

\* The join test of createAutoValidJoinWindowClaim, on the deadline it was
\* given.
JoinAccepted(window) == window >= -ClaimGrace

\* The drawn numbers are read and the cartela is evaluated on them.
ClaimEvaluate(r) ==
    LET valid == CompletedByLatest(CartelaOf[r])
        next == CASE ~valid -> "block"
                  [] valid /\ tx[r].status = "PLAYING" -> "open"
                  [] OTHER -> "join"
    IN  /\ tx[r].pc = "evaluate"
        /\ IF next = "join" /\ ~JoinAccepted(tx[r].window)
           THEN End(r)
           ELSE /\ tx' = [tx EXCEPT ![r].pc = next, ![r].order = Len(called)]
                /\ UNCHANGED lock
        /\ UNCHANGED <<rows, jobs>>

\* Faulty variant: only a winner is refused, not a blocked cartela.
StillNotWinner(r) == cartela[CartelaOf[r]] \in {"REGISTERED", "BLOCKED"}

\* The guard of every cartela update a claim makes.
StillRegistered(r) == cartela[CartelaOf[r]] = "REGISTERED"

\* Faulty variant: the session gets back the status that was read with it.
ClaimBlockRestoringStatus(r) ==
    /\ tx[r].pc = "block"
    /\ Unlocked(r)
    /\ IF StillRegistered(r)
       THEN /\ cartela' = [cartela EXCEPT ![CartelaOf[r]] = "BLOCKED"]
            /\ claims' = claims \cup {Verdict(r, "INVALID")}
            /\ session' = [session EXCEPT !.status = tx[r].status,
                                          !.nextAutoCallAt = tx[r].resume]
       ELSE UNCHANGED <<cartela, claims, session>>
    /\ End(r)
    /\ UNCHANGED <<called, ledger, jobs>>

\* createAutoInvalidClaim: the cartela is blocked for the round and the
\* countdown restored as it was read, if the round is still being auto-called.
ClaimBlock(r) ==
    LET restore == tx[r].auto /\ tx[r].status = "PLAYING"
    IN  /\ tx[r].pc = "block"
        /\ restore => Unlocked(r)
        /\ IF StillRegistered(r)
           THEN /\ cartela' = [cartela EXCEPT ![CartelaOf[r]] = "BLOCKED"]
                /\ claims' = claims \cup {Verdict(r, "INVALID")}
                /\ session' = IF /\ restore
                                 /\ session.status = "PLAYING"
                                 /\ session.autoCallEnabled
                              THEN [session EXCEPT
                                      !.nextAutoCallAt = tx[r].resume]
                              ELSE session
           ELSE UNCHANGED <<cartela, claims, session>>
        /\ End(r)
        /\ UNCHANGED <<called, ledger, jobs>>

\* Faulty variant: the claim is recorded, the cartela is not marked.
WinUnmarked(r) ==
    /\ UNCHANGED cartela
    /\ claims' = claims \cup {Verdict(r, "VALID")}

Win(r) ==
    /\ cartela' = [cartela EXCEPT ![CartelaOf[r]] = "WINNER"]
    /\ claims' = claims \cup {Verdict(r, "VALID")}

\* createAutoValidOpenOrJoinWindowClaim: PLAYING becomes WINNER_WINDOW.  If
\* another claim was first, the deadline is read again and this one joins.
ClaimOpenWindow(r) ==
    /\ tx[r].pc = "open"
    /\ Unlocked(r)
    /\ \/ /\ session.status = "PLAYING" /\ StillRegistered(r)
          /\ session' = [status |-> "WINNER_WINDOW",
                         autoCallEnabled |-> FALSE,
                         nextAutoCallAt |-> Null,
                         winnerWindowEndsAt |-> WindowLen,
                         noWinnerGraceEndsAt |-> Null]
          /\ Win(r)
          /\ End(r)
       \/ /\ session.status = "WINNER_WINDOW"
          /\ JoinAccepted(session.winnerWindowEndsAt)
          /\ tx' = [tx EXCEPT ![r].pc = "join",
                              ![r].window = session.winnerWindowEndsAt]
          /\ UNCHANGED <<session, cartela, claims, lock>>
       \/ /\ \/ session.status \in Terminal
             \/ session.status = "PLAYING" /\ ~StillRegistered(r)
             \/ /\ session.status = "WINNER_WINDOW"
                /\ ~JoinAccepted(session.winnerWindowEndsAt)
          /\ End(r)
          /\ UNCHANGED <<session, cartela, claims>>
    /\ UNCHANGED <<called, ledger, jobs>>

\* createAutoValidJoinWindowClaim after its time test: only the cartela and
\* the claim are written, whatever the session has become.
ClaimJoinWindow(r) ==
    /\ tx[r].pc = "join"
    /\ IF StillRegistered(r) THEN Win(r) ELSE UNCHANGED <<cartela, claims>>
    /\ End(r)
    /\ UNCHANGED <<session, called, ledger, jobs>>

\* The transaction times out, is chosen as a deadlock victim or its process
\* dies: it is rolled back.
ClaimAbort(r) ==
    /\ Failures
    /\ tx[r].pc \notin {"new", "done"}
    /\ End(r)
    /\ UNCHANGED <<rows, jobs>>

ClaimStep(r) ==
    \/ ClaimPause(r) \/ ClaimEvaluate(r) \/ ClaimBlock(r)
    \/ ClaimOpenWindow(r) \/ ClaimJoinWindow(r)

Claim(r) ==
    \/ ClaimAlreadyResolved(r) \/ ClaimRefused(r) \/ ClaimLoad(r)
    \/ ClaimStep(r) \/ ClaimAbort(r)

-----------------------------------------------------------------------------
(* Drawing balls: the auto-call job (auto-call.service.ts and              *)
(* callRandomNumberForAutoCall).                                           *)

UnchangedByJobs == UNCHANGED <<cartela, claims, ledger, lock, tx>>

\* Faulty variant: off by one.
IsLastNumberLate(b) == b \in Remaining /\ Remaining = {}

\* isLastNumber: remainingCount is at most one.
IsLastNumber(b) == Remaining = {b}

\* A due session is found and a number picked among those not drawn yet; what
\* is picked, whether it is the last one, and when the next ball is due are
\* all fixed here, outside the transaction.
AutoPick ==
    /\ caller.pc = "idle"
    /\ session.status = "PLAYING" /\ session.autoCallEnabled
    /\ session.nextAutoCallAt = 0
    /\ IF Remaining = {}
       THEN caller' = Waiting("disable")
       ELSE \E b \in Remaining :
              caller' = [pc |-> "read", pick |-> {b},
                         last |-> IsLastNumber(b),
                         next |-> Interval, order |-> 0]
    /\ UNCHANGED <<session, called, operator, canceller, early>>
    /\ UnchangedByJobs

\* The transaction reads the session and counts the numbers drawn.
AutoRead ==
    /\ caller.pc = "read"
    /\ caller' =
         CASE session.status # "PLAYING" -> Waiting("disable")
           [] session.status = "PLAYING" /\ ~session.autoCallEnabled ->
                Waiting("idle")
           [] OTHER -> [caller EXCEPT !.pc = "draw", !.order = Len(called) + 1]
    /\ UNCHANGED <<session, called, operator, canceller, early>>
    /\ UnchangedByJobs

\* A number can be inserted once, at an order that is not taken.
Insertable(pick, order) == order = Len(called) + 1 /\ pick \subseteq Remaining

Insert(pick) == \E b \in pick : called' = Append(called, b)

\* It claims the due draw (the row may have changed since it was read) and
\* inserts the ball, or rolls back on a unique index.
AutoDraw ==
    LET due == /\ session.status = "PLAYING" /\ session.autoCallEnabled
               /\ session.nextAutoCallAt = 0
    IN  /\ caller.pc = "draw"
        /\ Free
        /\ IF due /\ Insertable(caller.pick, caller.order)
           THEN /\ Insert(caller.pick)
                /\ session' = IF caller.last
                              THEN [session EXCEPT !.autoCallEnabled = FALSE,
                                                   !.nextAutoCallAt = Null]
                              ELSE [session EXCEPT
                                      !.nextAutoCallAt = caller.next]
                /\ caller' = Waiting(IF caller.last THEN "grace" ELSE "idle")
           ELSE /\ caller' = Waiting("idle")
                /\ UNCHANGED <<session, called>>
        /\ UNCHANGED <<operator, canceller, early>>
        /\ UnchangedByJobs

\* startNoWinnerGrace, called once the transaction of the last ball is over.
WithNoWinnerGrace ==
    IF session.status = "PLAYING" /\ session.noWinnerGraceEndsAt = Null
    THEN [session EXCEPT !.autoCallEnabled = FALSE, !.nextAutoCallAt = Null,
                         !.noWinnerGraceEndsAt = NoWinnerGrace]
    ELSE session

AutoStartGrace ==
    /\ caller.pc = "grace"
    /\ Free
    /\ session' = WithNoWinnerGrace
    /\ caller' = Waiting("idle")
    /\ UNCHANGED <<called, operator, canceller, early>>
    /\ UnchangedByJobs

\* disableAutoCall: only a row with auto-call on is touched.
Disabled ==
    IF session.autoCallEnabled
    THEN [session EXCEPT !.autoCallEnabled = FALSE, !.nextAutoCallAt = Null]
    ELSE session

AutoDisable ==
    /\ caller.pc = "disable"
    /\ Free
    /\ session' = Disabled
    /\ caller' = Waiting("idle")
    /\ UNCHANGED <<called, operator, canceller, early>>
    /\ UnchangedByJobs

\* The job's transaction or update fails, or its process dies: what it meant
\* to do next is lost.
AutoFail ==
    /\ Failures
    /\ caller.pc # "idle"
    /\ caller' = Waiting("idle")
    /\ UNCHANGED <<session, called, operator, canceller, early>>
    /\ UnchangedByJobs

\* finalizeNoWinner, run by the same tick after the due draws.
FinalizeNoWinner ==
    /\ caller.pc = "idle"
    /\ Free
    /\ session.status = "PLAYING"
    /\ session.noWinnerGraceEndsAt = 0
    /\ session' = [session EXCEPT !.status = "NO_WINNER",
                                  !.autoCallEnabled = FALSE,
                                  !.nextAutoCallAt = Null]
    /\ cartela' = [c \in Cartelas |->
                     IF cartela[c] = "REGISTERED" THEN "BLOCKED"
                     ELSE cartela[c]]
    /\ UNCHANGED <<called, claims, ledger, lock, tx, jobs>>

AutoCall ==
    \/ AutoPick \/ AutoRead \/ AutoDraw \/ AutoStartGrace \/ AutoDisable
    \/ FinalizeNoWinner

-----------------------------------------------------------------------------
(* Calls from outside the job: startAutoCall (the scheduler's, whose first *)
(* ball is called at once, and an operator's), stopAutoCall, callNumber.   *)

Rest == [operator EXCEPT !.pc = "idle", !.pick = {}, !.order = 0,
                         !.attempt = 1]

\* startAutoCall reads the session, and refuses one that is not PLAYING.
OperatorStart ==
    /\ "start" \in AdminOps
    /\ operator.pc = "idle"
    /\ session.status = "PLAYING"
    /\ operator' = [operator EXCEPT !.pc = "start", !.first = FALSE]
    /\ UNCHANGED <<session, called, caller, canceller, early>>
    /\ UnchangedByJobs

\* It then writes the row whatever the session has become.  The scheduler's
\* call goes on to draw the first ball if none was drawn.
StartAutoCall ==
    /\ operator.pc = "start"
    /\ Free
    /\ session' = [session EXCEPT !.autoCallEnabled = TRUE,
                                  !.nextAutoCallAt = Interval]
    /\ operator' = IF operator.first /\ called = <<>>
                   THEN [Rest EXCEPT !.pc = "call"] ELSE Rest
    /\ UNCHANGED <<called, caller, canceller, early>>
    /\ UnchangedByJobs

StopAutoCall ==
    /\ "stop" \in AdminOps
    /\ operator.pc = "idle"
    /\ Free
    /\ session.autoCallEnabled
    /\ session' = Disabled
    /\ UNCHANGED <<called, jobs>>
    /\ UnchangedByJobs

\* callNumber: the transaction reads the session and the order of the last
\* ball, without a lock.  A second attempt is for the same number.
CallNumberRead ==
    /\ \/ operator.pc \in {"call", "retry"}
       \/ operator.pc = "idle" /\ "call" \in AdminOps
    /\ session.status = "PLAYING"
    /\ \E b \in IF operator.pc = "retry" THEN operator.pick \cap Remaining
                ELSE Remaining :
         operator' = [operator EXCEPT !.pc = "insert", !.pick = {b},
                                      !.order = Len(called) + 1]
    /\ UNCHANGED <<session, called, caller, canceller, early>>
    /\ UnchangedByJobs

\* The session has left PLAYING, or no number is left to call.
CallNumberRefused ==
    /\ \/ operator.pc = "call"
          /\ (session.status # "PLAYING" \/ Remaining = {})
       \/ operator.pc = "retry"
          /\ (session.status # "PLAYING" \/ operator.pick \cap Remaining = {})
    /\ operator' = Rest
    /\ UNCHANGED <<session, called, caller, canceller, early>>
    /\ UnchangedByJobs

\* The row is inserted, or a unique index refuses it: one retry.
CallNumberInsert ==
    /\ operator.pc = "insert"
    /\ IF Insertable(operator.pick, operator.order)
       THEN /\ Insert(operator.pick)
            /\ operator' = IF operator.order >= Cardinality(Balls)
                           THEN [Rest EXCEPT !.pc = "grace"] ELSE Rest
       ELSE /\ operator' = IF operator.attempt = 1
                           THEN [operator EXCEPT !.pc = "retry", !.attempt = 2]
                           ELSE Rest
            /\ UNCHANGED called
    /\ UNCHANGED <<session, caller, canceller, early>>
    /\ UnchangedByJobs

CallNumberGrace ==
    /\ operator.pc = "grace"
    /\ Free
    /\ session' = WithNoWinnerGrace
    /\ operator' = Rest
    /\ UNCHANGED <<called, caller, canceller, early>>
    /\ UnchangedByJobs

OperatorFail ==
    /\ Failures
    /\ operator.pc # "idle"
    /\ operator' = Rest
    /\ UNCHANGED <<session, called, caller, canceller, early>>
    /\ UnchangedByJobs

Operator ==
    \/ StartAutoCall \/ CallNumberRefused \/ CallNumberInsert
    \/ CallNumberGrace \/ (operator.pc # "idle" /\ CallNumberRead)

-----------------------------------------------------------------------------
(* cancelSession of game-lifecycle.service.ts on a round in play.          *)

\* Faulty variant: every round that is not cancelled and has no open winner
\* window can be cancelled.
CancellableUnlessCancelled ==
    session.status \notin {"WINNER_WINDOW", "CANCELLED"}

\* CANCELLABLE_SESSION_STATUSES, of the statuses a started round can have.
Cancellable == session.status = "PLAYING"

CancelBegin ==
    /\ "cancel" \in AdminOps
    /\ canceller = "idle"
    /\ Cancellable
    /\ canceller' = "disable"
    /\ UNCHANGED <<session, called, caller, operator, early>>
    /\ UnchangedByJobs

\* Auto-call is switched off before the transaction, in a write of its own.
CancelDisable ==
    /\ canceller = "disable"
    /\ Free
    /\ session' = Disabled
    /\ canceller' = "commit"
    /\ UNCHANGED <<called, caller, operator, early>>
    /\ UnchangedByJobs

\* Faulty variant: blocked cartelas get nothing back.
RefundableRegistered == {c \in Cartelas : cartela[c] = "REGISTERED"}

\* The cartelas whose entry fee goes back.
Refundable == {c \in Cartelas : cartela[c] # "CANCELLED"}

\* Status, refunds and cartelas change together; a round that has meanwhile
\* been won or has ended is left alone.
CancelCommit ==
    /\ canceller = "commit"
    /\ Free
    /\ canceller' = "idle"
    /\ IF Cancellable
       THEN /\ session' = [session EXCEPT !.status = "CANCELLED",
                                          !.autoCallEnabled = FALSE,
                                          !.nextAutoCallAt = Null]
            /\ ledger' = [ledger EXCEPT !.refunded = @ \cup Refundable]
            /\ cartela' = [c \in Cartelas |-> "CANCELLED"]
       ELSE UNCHANGED <<session, ledger, cartela>>
    /\ UNCHANGED <<called, claims, lock, tx, caller, operator, early>>

\* The transaction times out: auto-call stays off.
CancelFail ==
    /\ Failures
    /\ canceller # "idle"
    /\ canceller' = "idle"
    /\ UNCHANGED <<session, called, caller, operator, early>>
    /\ UnchangedByJobs

Cancel == CancelDisable \/ CancelCommit

-----------------------------------------------------------------------------
(* finalizeWinnerWindow, run by the finalizer's tick and by the operators' *)
(* finalizeWinnerWindowEarly.                                              *)

\* Faulty variant: the status is not looked at.
WindowDueWhateverStatus == session.winnerWindowEndsAt <= -ClaimGrace

\* The claim of the finalizer's transaction: an open window whose deadline is
\* past by the claim grace.
WindowDue ==
    /\ session.status = "WINNER_WINDOW"
    /\ session.winnerWindowEndsAt <= -ClaimGrace

\* Every cartela that is a winner now is credited its share, once whatever
\* happens (the ledger is unique in GAME_CARTELA and id), and the round ends.
\* Without a winner the transaction throws, and nothing changes.
PayWinners ==
    /\ WindowDue
    /\ Winners # {}
    /\ ledger' = [ledger EXCEPT !.paid =
         [c \in Cartelas |-> IF c \in Winners \ Paid
                             THEN Cardinality(Winners) ELSE ledger.paid[c]]]
    /\ session' = [session EXCEPT !.status = "FINISHED",
                                  !.noWinnerGraceEndsAt = Null]

FinalizeWindow ==
    /\ Free
    /\ PayWinners
    /\ UNCHANGED <<called, cartela, claims, lock, tx, jobs>>

EarlyBegin ==
    /\ "early" \in AdminOps
    /\ early = "idle"
    /\ Free
    /\ session.status = "WINNER_WINDOW"
    /\ session' = [session EXCEPT !.winnerWindowEndsAt = 0]
    /\ early' = "finalize"
    /\ UNCHANGED <<called, caller, operator, canceller>>
    /\ UnchangedByJobs

EarlyFinalize ==
    /\ early = "finalize"
    /\ Free
    /\ IF WindowDue /\ Winners # {}
       THEN PayWinners ELSE UNCHANGED <<session, ledger>>
    /\ early' = "returned"
    /\ UNCHANGED <<called, cartela, claims, lock, tx,
                   caller, operator, canceller>>

-----------------------------------------------------------------------------
(* Time passes.  Every deadline comes closer, the ones a request or a job  *)
(* has read included; one that is due stays due.                           *)

\* Faulty variant: a deadline that is due runs on.
CountdownPastDue(left) == left - 1

Countdown(left) == IF left > 0 THEN left - 1 ELSE left
WindowCountdown(left) == IF left > WindowClosed THEN left - 1 ELSE left

Tick ==
    /\ session' = [session EXCEPT
         !.nextAutoCallAt = Countdown(session.nextAutoCallAt),
         !.winnerWindowEndsAt = WindowCountdown(session.winnerWindowEndsAt),
         !.noWinnerGraceEndsAt = Countdown(session.noWinnerGraceEndsAt)]
    /\ tx' = [r \in Requests |->
                [tx[r] EXCEPT !.window = WindowCountdown(tx[r].window)]]
    /\ caller' = [caller EXCEPT !.next = Countdown(caller.next)]
    /\ UNCHANGED <<called, cartela, claims, ledger, lock,
                   operator, canceller, early>>

-----------------------------------------------------------------------------
Next ==
    \/ \E r \in Requests : Claim(r)
    \/ AutoCall \/ AutoFail
    \/ OperatorStart \/ StartAutoCall \/ StopAutoCall
    \/ CallNumberRead \/ CallNumberRefused \/ CallNumberInsert
    \/ CallNumberGrace \/ OperatorFail
    \/ CancelBegin \/ Cancel \/ CancelFail
    \/ FinalizeWindow \/ EarlyBegin \/ EarlyFinalize
    \/ Tick

Spec == Init /\ [][Next]_vars

\* Jobs tick for ever and a transaction that was begun ends; whether a player
\* claims or an operator acts is up to them.
Fairness ==
    /\ \A r \in Requests : WF_vars(ClaimStep(r))
    /\ WF_vars(AutoCall)
    /\ WF_vars(Operator)
    /\ WF_vars(Cancel)
    /\ WF_vars(FinalizeWindow)
    /\ WF_vars(EarlyFinalize)
    /\ WF_vars(Tick)

FairSpec == Spec /\ Fairness

\* The call that starts a round (auto-call on, first ball) takes milliseconds,
\* the auto-call interval seconds, and a winning pattern four numbers or more:
\* the call is over before the job draws or a player claims.
StartIsPrompt ==
    \/ operator.pc = "idle"
    \/ caller'.pc = "idle" /\ \A r \in Requests : tx'[r].pc = "new"

\* A round whose start is prompt; without operators, the job alone calls it.
AutoSpec == Init /\ [][Next /\ StartIsPrompt]_vars
FairAutoSpec == AutoSpec /\ Fairness

-----------------------------------------------------------------------------
SessionRow ==
    [status : SessionStatus, autoCallEnabled : BOOLEAN,
     nextAutoCallAt : Null..Interval,
     winnerWindowEndsAt : WindowClosed..WindowLen,
     noWinnerGraceEndsAt : Null..NoWinnerGrace]
ClaimRow ==
    [req : Requests, cartela : Cartelas, order : Nat,
     verdict : {"VALID", "INVALID", "ALREADY"}]
ClaimTx ==
    [pc : {"new", "pause", "evaluate", "block", "open", "join", "done"},
     status : SessionStatus, auto : BOOLEAN, resume : 0..Interval,
     window : WindowClosed..WindowLen, order : Nat]
CallerState ==
    [pc : {"idle", "read", "draw", "grace", "disable"}, pick : SUBSET Balls,
     last : BOOLEAN, next : 0..Interval, order : Nat]
OperatorState ==
    [pc : {"idle", "start", "call", "retry", "insert", "grace"},
     first : BOOLEAN, pick : SUBSET Balls, order : Nat, attempt : {1, 2}]

TypeOK ==
    /\ session \in SessionRow
    /\ called \in Seq(Balls)
    /\ cartela \in [Cartelas -> CartelaStatus]
    /\ claims \subseteq ClaimRow
    /\ ledger \in [paid : [Cartelas -> Nat], refunded : SUBSET Cartelas]
    /\ lock \in Requests \cup {NoRequest}
    /\ tx \in [Requests -> ClaimTx]
    /\ caller \in CallerState
    /\ operator \in OperatorState
    /\ canceller \in {"idle", "disable", "commit"}
    /\ early \in {"idle", "finalize", "returned"}

\* A cartela is a winner only in a round that is open for winners or was paid:
\* neither cancelSession nor finalizeNoWinner can end a round that a claim has
\* won, and no claim in flight wins in a round that one of them has ended.
WinnersOnlyInWonRounds ==
    Winners # {} => session.status \in {"WINNER_WINDOW", "FINISHED"}

\* An open winner window has a winner, so that finalizeWinnerWindow never
\* throws "could not be finalized without winners" and leaves it open for ever.
OpenWindowHasWinner ==
    session.status = "WINNER_WINDOW" => Winners # {}

\* The prize is paid exactly when the round is FINISHED, to winners only, and
\* whole: each of the n cartelas paid got one of n shares.  A second run of the
\* finalizer, or a cancellation of a paid round, would break it.
PrizePaidOnce ==
    /\ (Paid # {}) <=> (session.status = "FINISHED")
    /\ Paid \subseteq Winners
    /\ \A c \in Paid : ledger.paid[c] = Cardinality(Paid)

\* A CANCELLED round has refunded every cartela, a round in any other status
\* none: no path leaves fees behind or gives them back in a round that goes on.
RefundedIffCancelled ==
    ledger.refunded = IF session.status = "CANCELLED" THEN Cartelas ELSE {}

\* The verdicts of concurrent and repeated claims agree: a winner has exactly
\* one VALID claim and no INVALID one, another cartela none that is VALID.
OneVerdict ==
    \A c \in Cartelas :
        LET verdicts(v) == {m \in claims : m.cartela = c /\ m.verdict = v}
        IN  /\ (cartela[c] = "WINNER") <=> (verdicts("VALID") # {})
            /\ Cardinality(verdicts("VALID")) <= 1
            /\ verdicts("VALID") = {} \/ verdicts("INVALID") = {}

\* A status without a successor in the transition table is final.
TerminalIsFinal ==
    [][session.status \in Terminal => session'.status = session.status]_vars

\* "All isWinner cartelas are paid" (docs/WINNER_WINDOW_FLOW.md).
AllWinnersPaid == session.status = "FINISHED" => Winners \subseteq Paid

\* In a round called by the job alone, every verdict was given on the last ball
\* drawn, so all co-winners share one winning ball: pausing auto-call holds the
\* next ball back until the claim is decided, and no ball follows a valid one.
WonOnLastBall == \A m \in claims : m.verdict = "VALID" => m.order = Len(called)

\* "Only PLAYING sessions can receive called numbers."
BallsOnlyWhilePlaying ==
    [][called' # called => session.status = "PLAYING"]_vars

\* A rejected claim gives the next ball "the same remaining time": while no
\* ball is drawn and auto-call stays on, the countdown is never cut short.
CountdownNotCut ==
    [][/\ called' = called
       /\ session.nextAutoCallAt # Null /\ session'.nextAutoCallAt # Null
       => session'.nextAutoCallAt >= Countdown(session.nextAutoCallAt)]_vars

\* finalizeWinnerWindowEarly "pays winners right away".
EarlyFinalizePays == early = "returned" => session.status = "FINISHED"

\* Liveness: a round that is called by the job ends.
EveryRoundEnds == <>(session.status \in Terminal)

\* Liveness: once all numbers are called, the round is won, lost or cancelled.
ExhaustedRoundEnds ==
    Remaining = {} /\ session.status = "PLAYING" ~> session.status # "PLAYING"
=============================================================================
