---------------------------- MODULE RoundProofs ----------------------------
(***************************************************************************)
(* Proofs about Round, for every number of cartelas, balls and requests,   *)
(* whatever operators do and whichever step fails.                         *)
(*                                                                         *)
(* The safety properties are proved from one inductive invariant, IInv.    *)
(* The properties themselves are not inductive: a claim that has passed    *)
(* its time test still has its write to make, so that "only a won round    *)
(* has winners" needs to know in which rounds such claims can be           *)
(* (JoinsWonRound), and the refunds of a cancelled round are complete      *)
(* because no cartela was cancelled before it (CancelledTogether).         *)
(***************************************************************************)
EXTENDS Round, FiniteSetTheorems, TLAPS

\* A request that saw a winner window, or is about to join one, is in a round
\* that is won: a window never closes but by the payment of its winners.
JoinsWonRound ==
    \A r \in Requests :
        /\ tx[r].status \in {"PLAYING", "WINNER_WINDOW"}
        /\ tx[r].pc = "join" \/ tx[r].status = "WINNER_WINDOW" =>
              session.status \in {"WINNER_WINDOW", "FINISHED"}

CancelledTogether ==
    \A c \in Cartelas :
        cartela[c] = "CANCELLED" => session.status = "CANCELLED"

\* The rows of BingoClaim say of a cartela what its own row says.
VerdictsMatch ==
    /\ \A m \in claims :
         /\ m.verdict = "VALID" => cartela[m.cartela] = "WINNER"
         /\ m.verdict = "INVALID" => cartela[m.cartela] \in {"BLOCKED", "CANCELLED"}
    /\ \A c \in Winners :
         \E m \in claims : m.cartela = c /\ m.verdict = "VALID"
    /\ \A m, n \in claims :
         m.cartela = n.cartela /\ m.verdict = "VALID" /\ n.verdict = "VALID"
           => m = n

Safe ==
    /\ WinnersOnlyInWonRounds
    /\ OpenWindowHasWinner
    /\ PrizePaidOnce
    /\ RefundedIffCancelled
    /\ JoinsWonRound
    /\ CancelledTogether
    /\ VerdictsMatch

IInv == TypeOK /\ Safe
-----------------------------------------------------------------------------
(* Types.                                                                  *)

\* The values a deadline is set to, and what counting down makes of it.
LEMMA Deadlines ==
  /\ Null \in Null..Interval /\ Interval \in Null..Interval
  /\ Null \in Null..NoWinnerGrace /\ NoWinnerGrace \in Null..NoWinnerGrace
  /\ WindowLen \in WindowClosed..WindowLen /\ 0 \in WindowClosed..WindowLen
  /\ WindowClosed \in WindowClosed..WindowLen
  /\ 0 \in 0..Interval /\ Interval \in 0..Interval
  /\ \A n \in 0..Interval : n \in Null..Interval
  /\ \A n \in Null..Interval : n # Null => n \in 0..Interval
  BY RoundAssumption DEF Null, WindowClosed

\* Counting down keeps a time left, set or not, in the range of its deadline.
LEMMA Countdowns ==
  /\ \A n \in Null..Interval : Countdown(n) \in Null..Interval
  /\ \A n \in 0..Interval : Countdown(n) \in 0..Interval
  /\ \A n \in Null..NoWinnerGrace : Countdown(n) \in Null..NoWinnerGrace
  /\ \A n \in WindowClosed..WindowLen :
       WindowCountdown(n) \in WindowClosed..WindowLen
  BY RoundAssumption DEF Null, WindowClosed, Countdown, WindowCountdown

\* A round that has just been started is well typed.
LEMMA InitType == Init => TypeOK
<1> SUFFICES ASSUME Init PROVE TypeOK
  OBVIOUS
<1>1. session \in SessionRow
  BY Deadlines DEF Init, SessionRow, SessionStatus
<1>2. \A pc \in {"new", "done"} : Reset(pc) \in ClaimTx
  BY Deadlines DEF Reset, ClaimTx, SessionStatus
<1>3. caller \in CallerState /\ operator \in OperatorState
  BY Deadlines DEF Init, Waiting, CallerState, OperatorState
<1> QED
  BY <1>1, <1>2, <1>3 DEF Init, TypeOK, CartelaStatus

\* The end of a request, and the claim it may leave behind, are well typed.
LEMMA EndType ==
  ASSUME TypeOK, NEW r \in Requests
  PROVE  /\ End(r) => /\ tx' \in [Requests -> ClaimTx]
                      /\ lock' \in Requests \cup {NoRequest}
         /\ \A v \in {"VALID", "INVALID", "ALREADY"} :
              Verdict(r, v) \in ClaimRow
<1>1. Reset("done") \in ClaimTx
  BY Deadlines DEF Reset, ClaimTx, SessionStatus
<1>2. tx[r].order \in Nat
  BY DEF TypeOK, ClaimTx
<1>3. CartelaOf[r] \in Cartelas
  BY RoundAssumption
<1> QED
  BY <1>1, <1>2, <1>3 DEF TypeOK, End, Verdict, ClaimRow

\* What a claim request writes has the type of the row it is written to.
LEMMA ClaimType ==
  ASSUME TypeOK, NEW r \in Requests, Claim(r)
  PROVE  TypeOK'
<1> USE DEF TypeOK
<1>a. CartelaOf[r] \in Cartelas
  BY RoundAssumption
<1>1. CASE ClaimAlreadyResolved(r)
  BY <1>1, EndType DEF ClaimAlreadyResolved, jobs
<1>2. CASE ClaimRefused(r)
  BY <1>2, EndType DEF ClaimRefused, rows, jobs
<1>3. CASE ClaimLoad(r)
  <2>1. ResumeIn \in 0..Interval
    BY Deadlines DEF ResumeIn, SessionRow
  <2>2. tx'[r] \in ClaimTx
    BY <1>3, <2>1, Deadlines DEF ClaimLoad, ClaimTx, SessionRow
  <2> QED
    BY <1>3, <2>2 DEF ClaimLoad, rows, jobs
<1>4. CASE ClaimPause(r)
  <2>1. tx'[r] \in ClaimTx
    BY <1>4 DEF ClaimPause, ClaimTx
  <2> QED
    BY <1>4, <2>1 DEF ClaimPause, rows, jobs
<1>5. CASE ClaimEvaluate(r)
  <2>1. Len(called) \in Nat
    OBVIOUS
  <2>2. \A pc \in {"block", "open", "join"} :
          [tx[r] EXCEPT !.pc = pc, !.order = Len(called)] \in ClaimTx
    BY <2>1 DEF ClaimTx
  <2>3. tx' \in [Requests -> ClaimTx] /\ lock' \in Requests \cup {NoRequest}
    BY <1>5, <2>2, EndType DEF ClaimEvaluate
  <2> QED
    BY <1>5, <2>3 DEF ClaimEvaluate, rows, jobs
<1>6. CASE ClaimBlock(r)
  <2>1. session' \in SessionRow
    <3>1. tx[r].resume \in Null..Interval
      BY Deadlines DEF ClaimTx
    <3> QED
      BY <1>6, <3>1 DEF ClaimBlock, SessionRow
  <2> QED
    BY <1>6, <1>a, <2>1, EndType DEF ClaimBlock, jobs, CartelaStatus
<1>7. CASE ClaimOpenWindow(r)
  <2>1. ASSUME Win(r)
        PROVE  cartela' \in [Cartelas -> CartelaStatus] /\ claims' \subseteq ClaimRow
    <3>1. cartela' \in [Cartelas -> CartelaStatus]
      BY <2>1, <1>a DEF Win, CartelaStatus
    <3>2. Verdict(r, "VALID") \in ClaimRow
      BY EndType
    <3>3. claims' \subseteq ClaimRow
      BY <2>1, <3>2 DEF Win
    <3> QED
      BY <3>1, <3>3
  <2>2. session' \in SessionRow
    <3>1. [status |-> "WINNER_WINDOW", autoCallEnabled |-> FALSE,
           nextAutoCallAt |-> Null, winnerWindowEndsAt |-> WindowLen,
           noWinnerGraceEndsAt |-> Null] \in SessionRow
      BY Deadlines DEF SessionRow, SessionStatus
    <3> QED
      BY <1>7, <3>1 DEF ClaimOpenWindow
  <2>3. [tx[r] EXCEPT !.pc = "join", !.window = session.winnerWindowEndsAt]
          \in ClaimTx
    <3>1. session.winnerWindowEndsAt \in WindowClosed..WindowLen
      BY DEF SessionRow
    <3>2. tx[r] \in ClaimTx
      OBVIOUS
    <3> HIDE DEF TypeOK
    <3> QED
      BY <3>1, <3>2 DEF ClaimTx
  <2>4. tx' \in [Requests -> ClaimTx] /\ lock' \in Requests \cup {NoRequest}
    BY <1>7, <2>3, EndType DEF ClaimOpenWindow
  <2>5. cartela' \in [Cartelas -> CartelaStatus] /\ claims' \subseteq ClaimRow
    BY <1>7, <2>1 DEF ClaimOpenWindow
  <2> QED
    BY <1>7, <2>2, <2>4, <2>5 DEF ClaimOpenWindow, jobs
<1>8. CASE ClaimJoinWindow(r)
  BY <1>8, <1>a, EndType DEF ClaimJoinWindow, Win, CartelaStatus, jobs
<1>9. CASE ClaimAbort(r)
  BY <1>9, EndType DEF ClaimAbort, rows, jobs
<1> QED
  BY <1>1, <1>2, <1>3, <1>4, <1>5, <1>6, <1>7, <1>8, <1>9
  DEF Claim, ClaimStep

\* The updates that switch auto-call off and start the grace period.
LEMMA SessionUpdates ==
  ASSUME session \in SessionRow
  PROVE  /\ Disabled \in SessionRow /\ Disabled.status = session.status
         /\ WithNoWinnerGrace \in SessionRow
         /\ WithNoWinnerGrace.status = session.status
  BY Deadlines DEF Disabled, WithNoWinnerGrace, SessionRow

\* The auto-call job keeps the rows, and what it has read itself, well typed.
LEMMA AutoCallType ==
  ASSUME TypeOK, AutoCall \/ AutoFail
  PROVE  TypeOK'
<1> USE DEF TypeOK, UnchangedByJobs
<1>a. \A pc \in {"idle", "disable", "grace"} : Waiting(pc) \in CallerState
  BY Deadlines DEF Waiting, CallerState
<1>1. CASE AutoPick
  <2>1. ASSUME NEW b \in Remaining
        PROVE  [pc |-> "read", pick |-> {b}, last |-> IsLastNumber(b),
                next |-> Interval, order |-> 0] \in CallerState
    BY Deadlines DEF Remaining, IsLastNumber, CallerState
  <2> QED
    BY <1>1, <1>a, <2>1 DEF AutoPick
<1>2. CASE AutoRead
  <2>1. [caller EXCEPT !.pc = "draw", !.order = Len(called) + 1] \in CallerState
    <3>1. Len(called) + 1 \in Nat
      OBVIOUS
    <3> QED
      BY <3>1 DEF CallerState
  <2> QED
    BY <1>2, <1>a, <2>1 DEF AutoRead
<1>3. CASE AutoDraw
  <2>1. session' \in SessionRow
    <3>1. caller.next \in Null..Interval
      BY Deadlines DEF CallerState
    <3> QED
      BY <1>3, <3>1, Deadlines DEF AutoDraw, SessionRow
  <2>2. called' \in Seq(Balls)
    <3>1. \A b \in caller.pick : Append(called, b) \in Seq(Balls)
      BY DEF CallerState
    <3> QED
      BY <1>3, <3>1 DEF AutoDraw, Insert
  <2>3. caller' \in CallerState
    BY <1>3, <1>a DEF AutoDraw
  <2> QED
    BY <1>3, <2>1, <2>2, <2>3 DEF AutoDraw
<1>4. CASE AutoStartGrace
  BY <1>4, <1>a, SessionUpdates DEF AutoStartGrace
<1>5. CASE AutoDisable
  BY <1>5, <1>a, SessionUpdates DEF AutoDisable
<1>6. CASE FinalizeNoWinner
  <2>1. session' \in SessionRow
    BY <1>6, Deadlines DEF FinalizeNoWinner, SessionRow, SessionStatus, Terminal
  <2> QED
    BY <1>6, <2>1 DEF FinalizeNoWinner, jobs, CartelaStatus
<1>7. CASE AutoFail
  BY <1>7, <1>a DEF AutoFail
<1> QED
  BY <1>1, <1>2, <1>3, <1>4, <1>5, <1>6, <1>7 DEF AutoCall

\* So do the operators' startAutoCall, stopAutoCall and callNumber.
LEMMA OperatorType ==
  ASSUME TypeOK,
         \/ OperatorStart \/ StartAutoCall \/ StopAutoCall
         \/ CallNumberRead \/ CallNumberRefused \/ CallNumberInsert
         \/ CallNumberGrace \/ OperatorFail
  PROVE  TypeOK'
<1> USE DEF TypeOK, UnchangedByJobs
<1>a. /\ Rest \in OperatorState
      /\ \A pc \in {"call", "grace"} : [Rest EXCEPT !.pc = pc] \in OperatorState
  BY DEF Rest, OperatorState
<1>1. CASE OperatorStart
  <2>1. operator' \in OperatorState
    BY <1>1 DEF OperatorStart, OperatorState
  <2> QED
    BY <1>1, <2>1 DEF OperatorStart
<1>2. CASE StartAutoCall
  <2>1. session' \in SessionRow
    BY <1>2, Deadlines DEF StartAutoCall, SessionRow
  <2> QED
    BY <1>2, <1>a, <2>1 DEF StartAutoCall
<1>3. CASE StopAutoCall
  BY <1>3, SessionUpdates DEF StopAutoCall, jobs
<1>4. CASE CallNumberRead
  <2>1. ASSUME NEW b \in Remaining
        PROVE  [operator EXCEPT !.pc = "insert", !.pick = {b},
                                !.order = Len(called) + 1] \in OperatorState
    <3>1. Len(called) + 1 \in Nat
      OBVIOUS
    <3>2. {b} \in SUBSET Balls /\ operator \in OperatorState
      BY DEF Remaining
    <3> HIDE DEF TypeOK
    <3> QED
      BY <3>1, <3>2 DEF OperatorState
  <2> QED
    BY <1>4, <2>1 DEF CallNumberRead
<1>5. CASE CallNumberRefused
  BY <1>5, <1>a DEF CallNumberRefused
<1>6. CASE CallNumberInsert
  <2>1. called' \in Seq(Balls)
    <3>1. \A b \in operator.pick : Append(called, b) \in Seq(Balls)
      BY DEF OperatorState
    <3> QED
      BY <1>6, <3>1 DEF CallNumberInsert, Insert
  <2>2. [operator EXCEPT !.pc = "retry", !.attempt = 2] \in OperatorState
    BY DEF OperatorState
  <2> QED
    BY <1>6, <1>a, <2>1, <2>2 DEF CallNumberInsert
<1>7. CASE CallNumberGrace
  BY <1>7, <1>a, SessionUpdates DEF CallNumberGrace
<1>8. CASE OperatorFail
  BY <1>8, <1>a DEF OperatorFail
<1> QED
  BY <1>1, <1>2, <1>3, <1>4, <1>5, <1>6, <1>7, <1>8

\* The share denominators are numbers: there are finitely many winners.
LEMMA WinnersFinite ==
  /\ Cardinality(Winners) \in Nat
  /\ Winners # {} => Cardinality(Winners) # 0
<1>1. Winners \subseteq Cartelas
  BY DEF Winners
<1>2. IsFiniteSet(Winners)
  BY <1>1, RoundAssumption, FS_Subset
<1> QED
  BY <1>2, FS_CardinalityType, FS_EmptySet

\* So do the ways a round ends: finalizeWinnerWindow, by its job and early,
\* finalizeNoWinner and cancelSession.
LEMMA EndOfRoundType ==
  ASSUME TypeOK,
         \/ CancelBegin \/ Cancel \/ CancelFail
         \/ FinalizeWindow \/ EarlyBegin \/ EarlyFinalize
  PROVE  TypeOK'
<1> USE DEF TypeOK, UnchangedByJobs
<1>1. CASE CancelBegin
  BY <1>1 DEF CancelBegin
<1>2. CASE CancelDisable
  BY <1>2, SessionUpdates DEF CancelDisable
<1>3. CASE CancelCommit
  <2>1. session' \in SessionRow
    <3>1. session \in SessionRow /\ Null \in Null..Interval
      BY Deadlines
    <3>2. session' = session \/ session' = [session EXCEPT !.status = "CANCELLED",
                                  !.autoCallEnabled = FALSE, !.nextAutoCallAt = Null]
      BY <1>3 DEF CancelCommit
    <3> HIDE DEF TypeOK
    <3> QED
      BY <3>1, <3>2 DEF SessionRow, SessionStatus, Terminal
  <2>2. ledger' \in [paid : [Cartelas -> Nat], refunded : SUBSET Cartelas]
    BY <1>3 DEF CancelCommit, Refundable
  <2>3. cartela' \in [Cartelas -> CartelaStatus]
    BY <1>3 DEF CancelCommit, CartelaStatus
  <2> QED
    BY <1>3, <2>1, <2>2, <2>3 DEF CancelCommit
<1>4. CASE CancelFail
  BY <1>4 DEF CancelFail
<1>5. ASSUME PayWinners
      PROVE  /\ session' \in SessionRow
             /\ ledger' \in [paid : [Cartelas -> Nat],
                             refunded : SUBSET Cartelas]
  <2>1. session' \in SessionRow
    BY <1>5, Deadlines DEF PayWinners, SessionRow, SessionStatus, Terminal
  <2> QED
    BY <1>5, <2>1, WinnersFinite DEF PayWinners
<1>6. CASE FinalizeWindow
  BY <1>5, <1>6 DEF FinalizeWindow, jobs
<1>7. CASE EarlyBegin
  <2>1. session' \in SessionRow
    BY <1>7, Deadlines DEF EarlyBegin, SessionRow
  <2> QED
    BY <1>7, <2>1 DEF EarlyBegin
<1>8. CASE EarlyFinalize
  BY <1>5, <1>8 DEF EarlyFinalize
<1> QED
  BY <1>1, <1>2, <1>3, <1>4, <1>6, <1>7, <1>8 DEF Cancel

\* So does the passing of time.
LEMMA TickType ==
  ASSUME TypeOK, Tick
  PROVE  TypeOK'
<1>1. session' \in SessionRow
  BY Countdowns DEF TypeOK, Tick, SessionRow
<1>2. ASSUME NEW r \in Requests
      PROVE  [tx[r] EXCEPT !.window = WindowCountdown(tx[r].window)] \in ClaimTx
  <2>1. tx[r] \in ClaimTx
    BY DEF TypeOK
  <2>2. WindowCountdown(tx[r].window) \in WindowClosed..WindowLen
    BY <2>1, Countdowns DEF ClaimTx
  <2> QED
    BY <2>1, <2>2 DEF ClaimTx
<1>3. caller' \in CallerState
  BY Countdowns DEF TypeOK, Tick, CallerState
<1> QED
  <2>1. tx' \in [Requests -> ClaimTx]
    BY <1>2 DEF Tick
  <2>2. UNCHANGED <<called, cartela, claims, ledger, lock, operator, canceller, early>>
    BY DEF Tick
  <2> QED
    BY <1>1, <1>3, <2>1, <2>2 DEF TypeOK

\* The type invariant is inductive by itself.
LEMMA TypeStep == TypeOK /\ [Next]_vars => TypeOK'
<1> SUFFICES ASSUME TypeOK, [Next]_vars
             PROVE  TypeOK'
  OBVIOUS
<1>1. CASE UNCHANGED vars
  BY <1>1 DEF vars, rows, jobs, TypeOK
<1>2. CASE Next
  BY <1>2, ClaimType, AutoCallType, OperatorType, EndOfRoundType, TickType
  DEF Next
<1> QED
  BY <1>1, <1>2

\* Every row, and everything a request or a job remembers of one, has its type;
\* deadlines stay in their range, however often they are set and counted down.
THEOREM TypeCorrect == Spec => []TypeOK
<1> QED
  BY InitType, TypeStep, PTL DEF Spec

-----------------------------------------------------------------------------
(* Safety.                                                                 *)

\* A round that has just been started has neither winners nor payments.
LEMMA InitSafe == Init => Safe
<1> SUFFICES ASSUME Init PROVE Safe
  OBVIOUS
<1>1. Winners = {} /\ Paid = {}
  BY DEF Init, Winners, Paid
<1> QED
  BY <1>1
  DEF Init, Safe, WinnersOnlyInWonRounds, OpenWindowHasWinner, PrizePaidOnce,
      RefundedIffCancelled, JoinsWonRound, CancelledTogether, VerdictsMatch,
      Reset

\* A step that leaves the status, the cartelas, the claims, the ledger and what
\* the requests have decided alone.
LEMMA SafeFrame ==
  ASSUME Safe,
         session'.status = session.status,
         UNCHANGED <<cartela, claims, ledger>>,
         \A r \in Requests : tx'[r].pc = tx[r].pc /\ tx'[r].status = tx[r].status
  PROVE  Safe'
  BY DEF Safe, WinnersOnlyInWonRounds, OpenWindowHasWinner, PrizePaidOnce,
         RefundedIffCancelled, JoinsWonRound, CancelledTogether, VerdictsMatch,
         Winners, Paid

\* A claim step that writes no row: only what requests have decided changes.
LEMMA SafeTxOnly ==
  ASSUME Safe, UNCHANGED rows, JoinsWonRound'
  PROVE  Safe'
  BY DEF Safe, rows, WinnersOnlyInWonRounds, OpenWindowHasWinner, PrizePaidOnce,
         RefundedIffCancelled, CancelledTogether, VerdictsMatch, Winners, Paid

\* A request that ends has nothing left to join.
LEMMA EndJoins ==
  ASSUME TypeOK, JoinsWonRound, NEW r \in Requests, End(r),
         \/ session'.status = session.status
         \/ session'.status = "WINNER_WINDOW"
  PROVE  JoinsWonRound'
<1>1. \A q \in Requests : tx'[q] = IF q = r THEN Reset("done") ELSE tx[q]
  BY DEF TypeOK, End
<1>2. /\ Reset("done").pc = "done"
      /\ Reset("done").status = "PLAYING"
  BY DEF Reset
<1> QED
  BY <1>1, <1>2 DEF JoinsWonRound

\* A step that marks a registered cartela WINNER and records its claim.
LEMMA WinSafe ==
  ASSUME TypeOK, Safe, NEW r \in Requests, Win(r), StillRegistered(r),
         JoinsWonRound', UNCHANGED ledger,
         \/ session.status = "PLAYING" /\ session'.status = "WINNER_WINDOW"
         \/ /\ session.status \in {"WINNER_WINDOW", "FINISHED"}
            /\ session'.status = session.status
  PROVE  Safe'
<1> DEFINE c == CartelaOf[r]
<1>1. c \in Cartelas
  BY RoundAssumption
<1>2. \A d \in Cartelas : cartela'[d] = IF d = c THEN "WINNER" ELSE cartela[d]
  BY <1>1 DEF TypeOK, Win
<1>3. Winners' = Winners \cup {c} /\ Paid' = Paid
  BY <1>1, <1>2 DEF Winners, Paid
<1>4. PrizePaidOnce'
  BY <1>3 DEF Safe, PrizePaidOnce
<1>5. VerdictsMatch'
  <2>1. \A m \in claims : m.cartela = c => m.verdict \notin {"VALID", "INVALID"}
    BY DEF Safe, VerdictsMatch, StillRegistered
  <2>2. /\ Verdict(r, "VALID").cartela = c
        /\ Verdict(r, "VALID").verdict = "VALID"
    BY DEF Verdict
  <2>3. \A m \in claims : m.cartela \in Cartelas
    BY DEF TypeOK, ClaimRow
  <2>4. claims' = claims \cup {Verdict(r, "VALID")}
    BY DEF Win
  <2> HIDE DEF c
  <2> QED
    BY <1>1, <1>2, <1>3, <2>1, <2>2, <2>3, <2>4 DEF Safe, VerdictsMatch
<1>6. CancelledTogether' /\ RefundedIffCancelled'
  BY <1>2 DEF Safe, CancelledTogether, RefundedIffCancelled
<1> QED
  BY <1>3, <1>4, <1>5, <1>6
  DEF Safe, WinnersOnlyInWonRounds, OpenWindowHasWinner

\* A claim request, at any of its steps, keeps the invariant: only opening or
\* joining the winner window makes a winner.
LEMMA ClaimSafe ==
  ASSUME TypeOK, Safe, NEW r \in Requests, Claim(r)
  PROVE  Safe'
<1>a. CartelaOf[r] \in Cartelas
  BY RoundAssumption
<1>b. JoinsWonRound
  BY DEF Safe
<1>1. CASE ClaimAlreadyResolved(r)
  <2>1. JoinsWonRound'
    BY <1>1, <1>b, EndJoins DEF ClaimAlreadyResolved
  <2>2. VerdictsMatch'
    <3>1. Verdict(r, "ALREADY").verdict = "ALREADY"
      BY DEF Verdict
    <3>2. \A m \in claims' :
            m \in claims \/ m.verdict \notin {"VALID", "INVALID"}
      BY <1>1, <3>1 DEF ClaimAlreadyResolved
    <3>3. claims \subseteq claims' /\ UNCHANGED cartela
      BY <1>1 DEF ClaimAlreadyResolved
    <3> QED
      BY <3>2, <3>3 DEF Safe, VerdictsMatch, Winners
  <2> QED
    BY <1>1, <2>1, <2>2
    DEF ClaimAlreadyResolved, Safe, WinnersOnlyInWonRounds, OpenWindowHasWinner,
        PrizePaidOnce, RefundedIffCancelled, CancelledTogether, Winners, Paid
<1>2. CASE ClaimRefused(r)
  BY <1>2, <1>b, EndJoins, SafeTxOnly DEF ClaimRefused, rows
<1>3. CASE ClaimLoad(r)
  <2>1. /\ tx'[r].pc \in {"pause", "evaluate"}
        /\ tx'[r].status = session.status
        /\ \A q \in Requests \ {r} : tx'[q] = tx[q]
    BY <1>3 DEF ClaimLoad, TypeOK
  <2>2. JoinsWonRound'
    BY <1>3, <1>b, <2>1 DEF ClaimLoad, JoinsWonRound, rows
  <2> QED
    BY <1>3, <2>2, SafeTxOnly DEF ClaimLoad
<1>4. CASE ClaimPause(r)
  <2>1. /\ tx'[r].pc = "evaluate" /\ tx'[r].status = tx[r].status
        /\ \A q \in Requests \ {r} : tx'[q] = tx[q]
    BY <1>4 DEF ClaimPause, TypeOK, ClaimTx
  <2>2. JoinsWonRound'
    BY <1>4, <1>b, <2>1 DEF ClaimPause, JoinsWonRound, rows
  <2> QED
    BY <1>4, <2>2, SafeTxOnly DEF ClaimPause
<1>5. CASE ClaimEvaluate(r)
  <2>1. CASE End(r)
    BY <1>5, <1>b, <2>1, EndJoins, SafeTxOnly DEF ClaimEvaluate, rows
  <2>2. CASE ~End(r)
    <3>1. /\ tx'[r].status = tx[r].status
          /\ tx'[r].pc = "join" => tx[r].status # "PLAYING"
          /\ \A q \in Requests \ {r} : tx'[q] = tx[q]
      BY <1>5, <2>2 DEF ClaimEvaluate, TypeOK, ClaimTx
    <3>2. JoinsWonRound'
      BY <1>5, <1>b, <3>1 DEF ClaimEvaluate, JoinsWonRound, rows
    <3> QED
      BY <1>5, <3>2, SafeTxOnly DEF ClaimEvaluate
  <2> QED
    BY <2>1, <2>2
<1>6. CASE ClaimBlock(r)
  <2>1. session'.status = session.status /\ UNCHANGED ledger /\ End(r)
    BY <1>6 DEF ClaimBlock, TypeOK, SessionRow
  <2>2. JoinsWonRound'
    BY <1>b, <2>1, EndJoins
  <2>3. CASE ~StillRegistered(r)
    BY <1>6, <2>2, <2>3, SafeTxOnly DEF ClaimBlock, rows
  <2>4. CASE StillRegistered(r)
    <3>1. \A d \in Cartelas :
            cartela'[d] = IF d = CartelaOf[r] THEN "BLOCKED" ELSE cartela[d]
      BY <1>6, <2>4, <1>a DEF ClaimBlock, TypeOK
    <3>2. Winners' = Winners /\ Paid' = Paid
      BY <2>1, <2>4, <3>1 DEF Winners, Paid, StillRegistered
    <3>3. VerdictsMatch'
      <4>1. /\ Verdict(r, "INVALID").cartela = CartelaOf[r]
            /\ Verdict(r, "INVALID").verdict = "INVALID"
        BY DEF Verdict
      <4>2. claims' = claims \cup {Verdict(r, "INVALID")}
        BY <1>6, <2>4 DEF ClaimBlock
      <4>3. \A m \in claims : m.cartela \in Cartelas
        BY DEF TypeOK, ClaimRow
      <4>4. \A m \in claims : m.cartela = CartelaOf[r] => m.verdict # "VALID"
        BY <2>4 DEF Safe, VerdictsMatch, StillRegistered
      <4> QED
        BY <1>a, <3>1, <3>2, <4>1, <4>2, <4>3, <4>4 DEF Safe, VerdictsMatch
    <3> QED
      BY <2>1, <2>2, <3>1, <3>2, <3>3
      DEF Safe, WinnersOnlyInWonRounds, OpenWindowHasWinner, PrizePaidOnce,
          RefundedIffCancelled, CancelledTogether
  <2> QED
    BY <2>3, <2>4
<1>7. CASE ClaimOpenWindow(r)
  <2>1. CASE End(r) /\ ~Win(r)
    BY <1>7, <1>b, <2>1, EndJoins, SafeTxOnly DEF ClaimOpenWindow, rows
  <2>2. CASE Win(r) /\ StillRegistered(r) /\ session.status = "PLAYING" /\ End(r)
             /\ session'.status = "WINNER_WINDOW" /\ UNCHANGED ledger
    BY <1>b, <2>2, EndJoins, WinSafe
  <2>3. CASE /\ session.status = "WINNER_WINDOW" /\ UNCHANGED rows
             /\ tx' = [tx EXCEPT ![r].pc = "join",
                                 ![r].window = session.winnerWindowEndsAt]
    <3>1. /\ tx'[r].status = tx[r].status
          /\ \A q \in Requests \ {r} : tx'[q] = tx[q]
      BY <2>3 DEF TypeOK, ClaimTx
    <3>2. JoinsWonRound'
      BY <1>b, <2>3, <3>1 DEF JoinsWonRound, rows
    <3> QED
      BY <2>3, <3>2, SafeTxOnly
  <2> QED
    BY <1>7, <2>1, <2>2, <2>3, SafeTxOnly, EndJoins, <1>b
    DEF ClaimOpenWindow, rows
<1>8. CASE ClaimJoinWindow(r)
  <2>1. session.status \in {"WINNER_WINDOW", "FINISHED"}
    BY <1>8, <1>b DEF ClaimJoinWindow, JoinsWonRound
  <2>2. JoinsWonRound'
    BY <1>8, <1>b, EndJoins DEF ClaimJoinWindow
  <2>3. CASE StillRegistered(r)
    BY <1>8, <2>1, <2>2, <2>3, WinSafe DEF ClaimJoinWindow
  <2>4. CASE ~StillRegistered(r)
    BY <1>8, <2>2, <2>4, SafeTxOnly DEF ClaimJoinWindow, rows
  <2> QED
    BY <2>3, <2>4
<1>9. CASE ClaimAbort(r)
  BY <1>9, <1>b, EndJoins, SafeTxOnly DEF ClaimAbort, rows
<1> QED
  BY <1>1, <1>2, <1>3, <1>4, <1>5, <1>6, <1>7, <1>8, <1>9
  DEF Claim, ClaimStep

\* The steps of the jobs that draw balls and run deadlines down: they write the
\* session row, but never its status.
LEMMA DrawingFrame ==
  ASSUME TypeOK,
         \/ AutoPick \/ AutoRead \/ AutoDraw \/ AutoStartGrace \/ AutoDisable
         \/ AutoFail
         \/ OperatorStart \/ StartAutoCall \/ StopAutoCall
         \/ CallNumberRead \/ CallNumberRefused \/ CallNumberInsert
         \/ CallNumberGrace \/ OperatorFail
         \/ CancelBegin \/ CancelDisable \/ CancelFail
         \/ EarlyBegin
  PROVE  /\ UNCHANGED <<cartela, claims, ledger, tx>>
         /\ session'.status = session.status
<1>1. UNCHANGED <<cartela, claims, ledger, tx>>
  BY DEF AutoPick, AutoRead, AutoDraw, AutoStartGrace, AutoDisable, AutoFail,
         OperatorStart, StartAutoCall, StopAutoCall, CallNumberRead,
         CallNumberRefused, CallNumberInsert, CallNumberGrace, OperatorFail,
         CancelBegin, CancelDisable, CancelFail, EarlyBegin, UnchangedByJobs
<1>a. session \in SessionRow
  BY DEF TypeOK
<1>2. session'.status = session.status
  <2>1. CASE AutoDraw
    BY <1>a, <2>1 DEF AutoDraw, SessionRow
  <2>2. CASE AutoStartGrace \/ AutoDisable \/ StopAutoCall \/ CallNumberGrace
             \/ CancelDisable
    BY <1>a, <2>2, SessionUpdates
    DEF AutoStartGrace, AutoDisable, StopAutoCall, CallNumberGrace,
        CancelDisable
  <2>3. CASE StartAutoCall \/ EarlyBegin
    BY <1>a, <2>3 DEF StartAutoCall, EarlyBegin, SessionRow
  <2>4. CASE \/ AutoPick \/ AutoRead \/ AutoFail \/ OperatorStart
             \/ CallNumberRead \/ CallNumberRefused \/ CallNumberInsert
             \/ OperatorFail \/ CancelBegin \/ CancelFail
    BY <2>4
    DEF AutoPick, AutoRead, AutoFail, OperatorStart, CallNumberRead,
        CallNumberRefused, CallNumberInsert, OperatorFail, CancelBegin,
        CancelFail
  <2> QED
    BY <2>1, <2>2, <2>3, <2>4
<1> QED
  BY <1>1, <1>2

\* Time changes deadlines only, and no decision depends on them in the invariant.
LEMMA TickFrame ==
  ASSUME TypeOK, Tick
  PROVE  /\ UNCHANGED <<cartela, claims, ledger>>
         /\ session'.status = session.status
         /\ \A r \in Requests :
              tx'[r].pc = tx[r].pc /\ tx'[r].status = tx[r].status
<1>1. session'.status = session.status
  BY DEF TypeOK, SessionRow, Tick
<1>2. ASSUME NEW r \in Requests
      PROVE  tx'[r].pc = tx[r].pc /\ tx'[r].status = tx[r].status
  BY DEF TypeOK, ClaimTx, Tick
<1> QED
  BY <1>1, <1>2 DEF Tick

\* finalizeNoWinner: there is no winner, and no request about to become one.
LEMMA NoWinnerSafe ==
  ASSUME TypeOK, Safe, FinalizeNoWinner
  PROVE  Safe'
<1>1. session.status = "PLAYING" /\ session'.status = "NO_WINNER"
  BY DEF FinalizeNoWinner, TypeOK, SessionRow
<1>2. \A c \in Cartelas : cartela'[c] = IF cartela[c] = "REGISTERED"
                                        THEN "BLOCKED" ELSE cartela[c]
  BY DEF FinalizeNoWinner
<1>3. UNCHANGED <<claims, ledger, tx>>
  BY DEF FinalizeNoWinner
<1>4. Winners' = Winners /\ Paid' = Paid
  BY <1>2, <1>3 DEF Winners, Paid
<1>5. VerdictsMatch'
  <2>1. \A m \in claims : m.cartela \in Cartelas
    BY DEF TypeOK, ClaimRow
  <2> QED
    BY <1>2, <1>3, <1>4, <2>1 DEF Safe, VerdictsMatch
<1> QED
  BY <1>1, <1>2, <1>3, <1>4, <1>5
  DEF Safe, WinnersOnlyInWonRounds, OpenWindowHasWinner, PrizePaidOnce,
      RefundedIffCancelled, JoinsWonRound, CancelledTogether

\* cancelSession: nobody has won, nothing was paid, and no cartela was cancelled
\* before, so that the fees of all of them go back.
LEMMA CancelSafe ==
  ASSUME TypeOK, Safe, CancelCommit
  PROVE  Safe'
<1>1. UNCHANGED <<claims, tx>>
  BY DEF CancelCommit
<1>2. CASE ~Cancellable
  BY <1>1, <1>2, SafeFrame DEF CancelCommit
<1>3. CASE Cancellable
  <2>1. session.status = "PLAYING" /\ session'.status = "CANCELLED"
    BY <1>3 DEF CancelCommit, Cancellable, TypeOK, SessionRow
  <2>2. Refundable = Cartelas /\ Winners = {}
    BY <2>1 DEF Safe, CancelledTogether, WinnersOnlyInWonRounds, Refundable
  <2>3. \A c \in Cartelas : cartela'[c] = "CANCELLED"
    BY <1>3 DEF CancelCommit
  <2>4. ledger'.refunded = Cartelas /\ ledger'.paid = ledger.paid
    BY <1>3, <2>2 DEF CancelCommit, TypeOK
  <2>5. Winners' = {} /\ Paid' = Paid
    BY <2>3, <2>4 DEF Winners, Paid
  <2>6. VerdictsMatch'
    <3>1. \A m \in claims : m.cartela \in Cartelas /\ m.verdict # "VALID"
      BY <2>2 DEF Safe, VerdictsMatch, TypeOK, ClaimRow, Winners
    <3> QED
      BY <1>1, <2>3, <2>5, <3>1 DEF VerdictsMatch
  <2> QED
    BY <1>1, <2>1, <2>3, <2>4, <2>5, <2>6
    DEF Safe, WinnersOnlyInWonRounds, OpenWindowHasWinner, PrizePaidOnce,
        RefundedIffCancelled, JoinsWonRound, CancelledTogether
<1> QED
  BY <1>2, <1>3

\* finalizeWinnerWindow: nothing was paid while the window was open, so every
\* winner is paid now, and each gets one of as many shares as there are winners.
LEMMA PaySafe ==
  ASSUME TypeOK, Safe, PayWinners, UNCHANGED <<cartela, claims, tx>>
  PROVE  Safe'
<1>1. session.status = "WINNER_WINDOW" /\ session'.status = "FINISHED"
  BY DEF PayWinners, WindowDue, TypeOK, SessionRow
<1>2. Paid = {}
  BY <1>1 DEF Safe, PrizePaidOnce
<1>3. /\ ledger'.refunded = ledger.refunded
      /\ \A c \in Cartelas : ledger'.paid[c] = IF c \in Winners
                                               THEN Cardinality(Winners) ELSE 0
  BY <1>2 DEF PayWinners, TypeOK, Paid
<1>4. Winners' = Winners /\ Winners # {}
  BY DEF Winners, PayWinners
<1>5. Paid' = Winners
  BY <1>3, <1>4, WinnersFinite DEF Paid, Winners
<1>6. PrizePaidOnce'
  BY <1>1, <1>3, <1>4, <1>5 DEF PrizePaidOnce, Winners
<1> QED
  BY <1>1, <1>3, <1>4, <1>6
  DEF Safe, WinnersOnlyInWonRounds, OpenWindowHasWinner, RefundedIffCancelled,
      JoinsWonRound, CancelledTogether, VerdictsMatch

\* Both calls of finalizeWinnerWindow keep the invariant.
LEMMA FinalizeSafe ==
  ASSUME TypeOK, Safe, FinalizeWindow \/ EarlyFinalize
  PROVE  Safe'
<1>1. CASE FinalizeWindow
  BY <1>1, PaySafe DEF FinalizeWindow
<1>2. CASE EarlyFinalize
  BY <1>2, PaySafe, SafeFrame DEF EarlyFinalize
<1> QED
  BY <1>1, <1>2

\* With the types, the invariant is inductive.
LEMMA SafeStep == TypeOK /\ Safe /\ [Next]_vars => Safe'
<1> SUFFICES ASSUME TypeOK, Safe, [Next]_vars
             PROVE  Safe'
  OBVIOUS
<1>1. CASE UNCHANGED vars
  BY <1>1, SafeFrame DEF vars, rows
<1>2. CASE Next
  BY <1>2, ClaimSafe, DrawingFrame, TickFrame, SafeFrame, NoWinnerSafe,
     CancelSafe, FinalizeSafe
  DEF Next, AutoCall, Cancel
<1> QED
  BY <1>1, <1>2

\* IInv holds at the start and every step keeps it.
THEOREM Invariant == Spec => []IInv
<1>1. Init => IInv
  BY InitType, InitSafe DEF IInv
<1>2. IInv /\ [Next]_vars => IInv'
  BY TypeStep, SafeStep DEF IInv
<1> QED
  BY <1>1, <1>2, PTL DEF Spec

\* Only rounds that are open for winners, or were paid, have winners.
THEOREM WonRounds == Spec => []WinnersOnlyInWonRounds
<1>1. IInv => WinnersOnlyInWonRounds
  BY DEF IInv, Safe
<1> QED
  BY <1>1, Invariant, PTL

\* finalizeWinnerWindow always finds somebody to pay.
THEOREM WindowHasWinner == Spec => []OpenWindowHasWinner
<1>1. IInv => OpenWindowHasWinner
  BY DEF IInv, Safe
<1> QED
  BY <1>1, Invariant, PTL

\* The prize is paid exactly by the end of a won round, once and whole.
THEOREM PaidOnce == Spec => []PrizePaidOnce
<1>1. IInv => PrizePaidOnce
  BY DEF IInv, Safe
<1> QED
  BY <1>1, Invariant, PTL

\* cancelSession gives every entry fee back; nothing else gives one back.
THEOREM Refunds == Spec => []RefundedIffCancelled
<1>1. IInv => RefundedIffCancelled
  BY DEF IInv, Safe
<1> QED
  BY <1>1, Invariant, PTL


\* The claims recorded of a cartela agree with each other and with its status.
THEOREM Verdicts == Spec => []OneVerdict
<1>1. ASSUME IInv, NEW c \in Cartelas
      PROVE  LET verdicts(v) == {m \in claims : m.cartela = c /\ m.verdict = v}
             IN  /\ (cartela[c] = "WINNER") <=> (verdicts("VALID") # {})
                 /\ Cardinality(verdicts("VALID")) <= 1
                 /\ verdicts("VALID") = {} \/ verdicts("INVALID") = {}
  <2> DEFINE verdicts(v) == {m \in claims : m.cartela = c /\ m.verdict = v}
  <2>1. (cartela[c] = "WINNER") <=> (verdicts("VALID") # {})
    BY <1>1 DEF IInv, Safe, VerdictsMatch, Winners
  <2>2. Cardinality(verdicts("VALID")) <= 1
    <3>1. CASE verdicts("VALID") = {}
      BY <3>1, FS_EmptySet
    <3>2. CASE verdicts("VALID") # {}
      <4>1. PICK m \in claims : m.cartela = c /\ m.verdict = "VALID"
        BY <3>2
      <4>2. verdicts("VALID") = {m}
        BY <1>1, <4>1 DEF IInv, Safe, VerdictsMatch
      <4>3. Cardinality({m}) = 1
        BY FS_Singleton
      <4> QED
        BY <4>2, <4>3
    <3> QED
      BY <3>1, <3>2
  <2>3. verdicts("VALID") = {} \/ verdicts("INVALID") = {}
    BY <1>1 DEF IInv, Safe, VerdictsMatch
  <2> QED
    BY <2>1, <2>2, <2>3
<1>2. IInv => OneVerdict
  BY <1>1 DEF OneVerdict
<1> QED
  BY <1>2, Invariant, PTL

\* A step leaves the status of an ended round alone: every write of the status
\* is guarded by the status it replaces.
LEMMA TerminalStep ==
  ASSUME TypeOK, session.status \in Terminal, Next
  PROVE  session'.status = session.status
<1>1. session.status \notin {"PLAYING", "WINNER_WINDOW"}
  BY DEF Terminal
<1>2. ASSUME NEW r \in Requests, Claim(r)
      PROVE  session'.status = session.status
  <2>1. CASE ClaimBlock(r)
    BY <1>1, <2>1 DEF ClaimBlock, TypeOK, SessionRow
  <2>2. CASE ClaimOpenWindow(r)
    BY <1>1, <2>2 DEF ClaimOpenWindow
  <2> QED
    BY <1>2, <2>1, <2>2
    DEF Claim, ClaimStep, ClaimAlreadyResolved, ClaimRefused, ClaimLoad,
        ClaimPause, ClaimEvaluate, ClaimJoinWindow, ClaimAbort, rows
<1>3. CASE FinalizeNoWinner \/ CancelCommit
  BY <1>1, <1>3 DEF FinalizeNoWinner, CancelCommit, Cancellable
<1>4. CASE FinalizeWindow \/ EarlyFinalize
  BY <1>1, <1>4 DEF FinalizeWindow, EarlyFinalize, PayWinners, WindowDue
<1> QED
  BY <1>2, <1>3, <1>4, DrawingFrame, TickFrame DEF Next, AutoCall, Cancel

\* FINISHED, NO_WINNER and CANCELLED are final.
THEOREM Final == Spec => TerminalIsFinal
<1>1. TypeOK /\ [Next]_vars =>
        [session.status \in Terminal => session'.status = session.status]_vars
  <2> SUFFICES ASSUME TypeOK, Next, session.status \in Terminal
               PROVE  session'.status = session.status
    OBVIOUS
  <2> QED
    BY TerminalStep
<1> QED
  BY <1>1, TypeCorrect, PTL DEF Spec, TerminalIsFinal
-----------------------------------------------------------------------------
(* The last ball, in a round that the auto-call job alone calls.           *)

\* Until the start call is over nobody has claimed, and from then on only the
\* job draws: there are no operators.
NobodyInterferes ==
    /\ canceller = "idle" /\ early = "idle"
    /\ operator.pc # "idle" =>
         /\ caller.pc = "idle" /\ claims = {}
         /\ \A r \in Requests : tx[r].pc = "new"

\* No ball can follow: the session is not PLAYING or not auto-called.
CallingOver == session.status # "PLAYING" \/ ~session.autoCallEnabled

\* While a claim is evaluated and decided, the last ball stays the last one:
\* its request has the session's lock, without which the job cannot draw, or
\* there was nothing to pause.
HeldBack ==
    \A r \in Requests :
        /\ tx[r].pc \in {"evaluate", "open", "join"} => lock = r \/ CallingOver
        /\ tx[r].pc \in {"open", "join"} => tx[r].order = Len(called)

LastBall == NobodyInterferes /\ HeldBack /\ WonOnLastBall

\* Once the calling is over, no step but that of the start call resumes it.
LEMMA StaysOver ==
  ASSUME TypeOK, CallingOver, Next, ~StartAutoCall
  PROVE  CallingOver'
<1>a. session \in SessionRow
  BY DEF TypeOK
<1>1. CASE \E r \in Requests : Claim(r)
  <2>1. PICK r \in Requests : Claim(r)
    BY <1>1
  <2>2. CASE ClaimBlock(r)
    BY <1>a, <2>2 DEF ClaimBlock, CallingOver, SessionRow
  <2>3. CASE ClaimOpenWindow(r)
    BY <1>a, <2>3 DEF ClaimOpenWindow, CallingOver, SessionRow
  <2>4. CASE /\ ~ClaimBlock(r)
             /\ ~ClaimOpenWindow(r)
    <3>1. UNCHANGED session
      BY <2>1, <2>4
      DEF Claim, ClaimStep, ClaimAlreadyResolved, ClaimRefused, ClaimLoad,
          ClaimPause, ClaimEvaluate, ClaimJoinWindow, ClaimAbort, rows
    <3> QED
      BY <3>1 DEF CallingOver
  <2> QED
    BY <2>2, <2>3, <2>4
<1>2. CASE AutoDraw \/ AutoStartGrace \/ AutoDisable \/ FinalizeNoWinner
  BY <1>a, <1>2
  DEF AutoDraw, AutoStartGrace, AutoDisable, FinalizeNoWinner, CallingOver,
      SessionRow, Disabled, WithNoWinnerGrace
<1>3. CASE StopAutoCall \/ CallNumberGrace \/ CancelDisable \/ EarlyBegin
  BY <1>a, <1>3
  DEF StopAutoCall, CallNumberGrace, CancelDisable, EarlyBegin, CallingOver,
      SessionRow, Disabled, WithNoWinnerGrace
<1>4. CASE CancelCommit \/ FinalizeWindow \/ EarlyFinalize \/ Tick
  BY <1>a, <1>4
  DEF CancelCommit, FinalizeWindow, EarlyFinalize, PayWinners, Tick,
      CallingOver, SessionRow
<1>5. CASE \/ AutoPick \/ AutoRead \/ AutoFail \/ OperatorStart
           \/ CallNumberRead \/ CallNumberRefused \/ CallNumberInsert
           \/ OperatorFail \/ CancelBegin \/ CancelFail
  <2>1. UNCHANGED session
    BY <1>5
    DEF AutoPick, AutoRead, AutoFail, OperatorStart, CallNumberRead,
        CallNumberRefused, CallNumberInsert, OperatorFail, CancelBegin,
        CancelFail
  <2> QED
    BY <2>1 DEF CallingOver
<1> QED
  BY <1>1, <1>2, <1>3, <1>4, <1>5 DEF Next, AutoCall, Cancel

\* Nobody has claimed when the step is over that begins in the start call.
LEMMA NothingYet ==
  ASSUME TypeOK, NobodyInterferes, Next, StartIsPrompt, operator.pc # "idle"
  PROVE  claims' = {} /\ \A r \in Requests : tx'[r].pc = "new"
<1>1. \A r \in Requests : tx[r].pc = "new" /\ tx'[r].pc = "new"
  BY DEF NobodyInterferes, StartIsPrompt
<1> SUFFICES claims' = {}
  BY <1>1
<1>2. ASSUME NEW r \in Requests, End(r)
      PROVE  FALSE
  <2>1. tx'[r].pc = "done"
    BY <1>2 DEF End, Reset, TypeOK
  <2> QED
    BY <1>1, <2>1
<1>3. ASSUME NEW r \in Requests, Claim(r)
      PROVE  UNCHANGED claims
  BY <1>1, <1>2, <1>3
  DEF Claim, ClaimStep, ClaimAlreadyResolved, ClaimRefused, ClaimLoad,
      ClaimPause, ClaimEvaluate, ClaimBlock, ClaimOpenWindow,
      ClaimJoinWindow, ClaimAbort, rows
<1>4. CASE \E r \in Requests : Claim(r)
  BY <1>3, <1>4 DEF NobodyInterferes
<1>5. CASE FinalizeNoWinner \/ CancelCommit \/ FinalizeWindow \/ EarlyFinalize
           \/ Tick
  BY <1>5
  DEF NobodyInterferes, FinalizeNoWinner, CancelCommit, FinalizeWindow,
      EarlyFinalize, Tick
<1> QED
  BY <1>4, <1>5, DrawingFrame DEF NobodyInterferes, Next, AutoCall, Cancel

\* Without operators, the phases of a round follow each other.
LEMMA PhaseStep ==
  ASSUME AdminOps = {}, TypeOK, NobodyInterferes, Next, StartIsPrompt
  PROVE  NobodyInterferes'
<1>1. canceller' = "idle" /\ early' = "idle"
  <2>1. CASE \E r \in Requests : Claim(r)
    BY <2>1
    DEF NobodyInterferes, Claim, ClaimStep, ClaimAlreadyResolved, ClaimRefused,
        ClaimLoad, ClaimPause, ClaimEvaluate, ClaimBlock, ClaimOpenWindow,
        ClaimJoinWindow, ClaimAbort, jobs
  <2>2. CASE AutoCall \/ AutoFail
    BY <2>2
    DEF NobodyInterferes, AutoCall, AutoPick, AutoRead, AutoDraw,
        AutoStartGrace, AutoDisable, FinalizeNoWinner, AutoFail, jobs
  <2>3. CASE \/ OperatorStart \/ StartAutoCall \/ StopAutoCall
             \/ CallNumberRead \/ CallNumberRefused \/ CallNumberInsert
             \/ CallNumberGrace \/ OperatorFail
    BY <2>3
    DEF NobodyInterferes, OperatorStart, StartAutoCall, StopAutoCall,
        CallNumberRead, CallNumberRefused, CallNumberInsert, CallNumberGrace,
        OperatorFail, jobs
  <2>4. CASE \/ CancelBegin \/ Cancel \/ CancelFail \/ FinalizeWindow
             \/ EarlyBegin \/ EarlyFinalize \/ Tick
    BY <2>4
    DEF NobodyInterferes, CancelBegin, Cancel, CancelDisable, CancelCommit,
        CancelFail, FinalizeWindow, EarlyBegin, EarlyFinalize, Tick, jobs
  <2> QED
    BY <2>1, <2>2, <2>3, <2>4 DEF Next
<1>2. ASSUME operator'.pc # "idle"
      PROVE  operator.pc # "idle"
  <2>1. CASE UNCHANGED operator
    BY <1>2, <2>1
  <2>2. CASE \/ StartAutoCall \/ CallNumberRefused \/ CallNumberInsert
             \/ CallNumberGrace \/ OperatorFail
    BY <2>2
    DEF StartAutoCall, CallNumberRefused, CallNumberInsert, CallNumberGrace,
        OperatorFail
  <2>3. CASE OperatorStart \/ CallNumberRead
    BY <2>3 DEF OperatorStart, CallNumberRead
  <2>4. \/ UNCHANGED operator
        \/ StartAutoCall \/ CallNumberRefused \/ CallNumberInsert
        \/ CallNumberGrace \/ OperatorFail \/ OperatorStart \/ CallNumberRead
    <3>1. CASE \E r \in Requests : Claim(r)
      BY <3>1
      DEF Claim, ClaimStep, ClaimAlreadyResolved, ClaimRefused, ClaimLoad,
          ClaimPause, ClaimEvaluate, ClaimBlock, ClaimOpenWindow,
          ClaimJoinWindow, ClaimAbort, jobs
    <3>2. CASE AutoCall \/ AutoFail \/ StopAutoCall
      BY <3>2
      DEF AutoCall, AutoPick, AutoRead, AutoDraw, AutoStartGrace, AutoDisable,
          FinalizeNoWinner, AutoFail, StopAutoCall, jobs
    <3>3. CASE \/ CancelBegin \/ Cancel \/ CancelFail \/ FinalizeWindow
               \/ EarlyBegin \/ EarlyFinalize \/ Tick
      BY <3>3
      DEF CancelBegin, Cancel, CancelDisable, CancelCommit, CancelFail,
          FinalizeWindow, EarlyBegin, EarlyFinalize, Tick, jobs
    <3> QED
      BY <3>1, <3>2, <3>3 DEF Next
  <2> QED
    BY <2>1, <2>2, <2>3, <2>4
<1> QED
  BY <1>1, <1>2, NothingYet DEF NobodyInterferes, StartIsPrompt

\* A ball is drawn by the start call or, if nothing holds it back, by the job.
LEMMA WhoDraws ==
  ASSUME Next, called' # called
  PROVE  \/ operator.pc # "idle"
         \/ AutoDraw /\ Free /\ ~CallingOver
<1>1. CASE \E r \in Requests : Claim(r)
  BY <1>1
  DEF Claim, ClaimStep, ClaimAlreadyResolved, ClaimRefused, ClaimLoad,
      ClaimPause, ClaimEvaluate, ClaimBlock, ClaimOpenWindow, ClaimJoinWindow,
      ClaimAbort, rows
<1>2. CASE AutoDraw
  BY <1>2 DEF AutoDraw, CallingOver
<1>3. CASE CallNumberInsert
  BY <1>3 DEF CallNumberInsert
<1>4. CASE \/ AutoPick \/ AutoRead \/ AutoStartGrace \/ AutoDisable
           \/ FinalizeNoWinner \/ AutoFail
  BY <1>4
  DEF AutoPick, AutoRead, AutoStartGrace, AutoDisable, FinalizeNoWinner,
      AutoFail
<1>5. CASE \/ OperatorStart \/ StartAutoCall \/ StopAutoCall \/ CallNumberRead
           \/ CallNumberRefused \/ CallNumberGrace \/ OperatorFail
  BY <1>5
  DEF OperatorStart, StartAutoCall, StopAutoCall, CallNumberRead,
      CallNumberRefused, CallNumberGrace, OperatorFail
<1>6. CASE \/ CancelBegin \/ Cancel \/ CancelFail \/ FinalizeWindow
           \/ EarlyBegin \/ EarlyFinalize \/ Tick
  BY <1>6
  DEF CancelBegin, Cancel, CancelDisable, CancelCommit, CancelFail,
      FinalizeWindow, EarlyBegin, EarlyFinalize, Tick
<1> QED
  BY <1>1, <1>2, <1>3, <1>4, <1>5, <1>6 DEF Next, AutoCall

\* The job's draw finds no claim that it would overtake.
LEMMA DrawStep ==
  ASSUME IInv, LastBall, Next, StartIsPrompt, called' # called
  PROVE  HeldBack' /\ WonOnLastBall'
<1>1. CASE operator.pc # "idle"
  BY <1>1, NothingYet DEF IInv, LastBall, HeldBack, WonOnLastBall
<1>2. CASE AutoDraw /\ Free /\ ~CallingOver
  <2>1. \A r \in Requests : tx[r].pc \notin {"evaluate", "open", "join"}
    BY <1>2, RoundAssumption DEF LastBall, HeldBack, Free
  <2>2. UNCHANGED <<claims, tx>>
    BY <1>2 DEF AutoDraw, UnchangedByJobs
  <2>3. \A m \in claims : m.verdict # "VALID"
    <3>1. session.status = "PLAYING"
      BY <1>2 DEF CallingOver
    <3>2. Winners = {}
      BY <3>1 DEF IInv, Safe, WinnersOnlyInWonRounds
    <3>3. \A m \in claims : m.cartela \in Cartelas
      BY DEF IInv, TypeOK, ClaimRow
    <3> QED
      BY <3>2, <3>3 DEF IInv, Safe, VerdictsMatch, Winners
  <2> QED
    BY <2>1, <2>2, <2>3 DEF HeldBack, WonOnLastBall
<1> QED
  BY <1>1, <1>2, WhoDraws

\* A claim, at any of its steps, keeps to the last ball: it is evaluated with
\* the lock or after the calling, and won with the number of balls it saw.
LEMMA ClaimKeepsBall ==
  ASSUME IInv, LastBall, NEW r \in Requests, Claim(r), Next
  PROVE  HeldBack' /\ WonOnLastBall'
<1>a. tx[r] \in ClaimTx /\ called \in Seq(Balls) /\ session \in SessionRow
  BY DEF IInv, TypeOK
<1>b. called' = called /\ ~StartAutoCall
  <2>1. called' = called /\ operator' = operator
    BY DEF Claim, ClaimStep, ClaimAlreadyResolved, ClaimRefused, ClaimLoad,
           ClaimPause, ClaimEvaluate, ClaimBlock, ClaimOpenWindow,
           ClaimJoinWindow, ClaimAbort, rows, jobs
  <2>2. ASSUME StartAutoCall
        PROVE  operator' # operator
    BY <2>2 DEF StartAutoCall, Rest, IInv, TypeOK, OperatorState
  <2> QED
    BY <2>1, <2>2
<1>c. CallingOver => CallingOver'
  BY <1>b, StaysOver DEF IInv
<1>d. \A q \in Requests \ {r} : tx'[q] = tx[q] /\ (lock = q => lock' = q)
  BY RoundAssumption
  DEF IInv, TypeOK, Claim, ClaimStep, ClaimAlreadyResolved, ClaimRefused,
      ClaimLoad, ClaimPause, ClaimEvaluate, ClaimBlock, ClaimOpenWindow,
      ClaimJoinWindow, ClaimAbort, End, Free
<1>e. ASSUME End(r) PROVE tx'[r].pc = "done"
  BY <1>e DEF End, Reset, IInv, TypeOK
<1>1. /\ tx'[r].pc \in {"evaluate", "open", "join"} => lock' = r \/ CallingOver'
      /\ tx'[r].pc \in {"open", "join"} => tx'[r].order = Len(called)
  <2>1. CASE End(r)
    BY <1>e, <2>1
  <2>2. CASE ClaimLoad(r)
    <3>1. tx'[r].pc = "evaluate" => CallingOver
      BY <2>2 DEF ClaimLoad, CallingOver, IInv, TypeOK
    <3>2. tx'[r].pc \in {"pause", "evaluate"}
      BY <2>2 DEF ClaimLoad, IInv, TypeOK
    <3> QED
      BY <1>c, <3>1, <3>2
  <2>3. CASE ClaimPause(r)
    <3>1. tx'[r].pc = "evaluate"
      BY <2>3, <1>a DEF ClaimPause, ClaimTx, IInv, TypeOK
    <3>2. lock' = r \/ CallingOver
      BY <2>3 DEF ClaimPause, CallingOver
    <3> QED
      BY <1>c, <3>1, <3>2
  <2>4. CASE ClaimEvaluate(r) /\ ~End(r)
    <3>1. /\ tx[r].pc = "evaluate"
          /\ tx'[r].order = Len(called) /\ UNCHANGED lock
      BY <2>4, <1>a DEF ClaimEvaluate, ClaimTx, IInv, TypeOK
    <3> QED
      BY <1>c, <3>1 DEF LastBall, HeldBack
  <2>5. CASE ClaimOpenWindow(r) /\ ~End(r)
    <3>1. /\ tx[r].pc = "open"
          /\ tx'[r].order = tx[r].order /\ UNCHANGED lock
      BY <2>5, <1>a DEF ClaimOpenWindow, ClaimTx, IInv, TypeOK
    <3> QED
      BY <1>c, <3>1 DEF LastBall, HeldBack
  <2> QED
    BY <2>1, <2>2, <2>3, <2>4, <2>5
    DEF Claim, ClaimStep, ClaimAlreadyResolved, ClaimRefused, ClaimBlock,
        ClaimJoinWindow, ClaimAbort
<1>2. HeldBack'
  BY <1>b, <1>c, <1>d, <1>1 DEF LastBall, HeldBack
<1>3. \A m \in claims' :
        m \in claims \/ m.verdict # "VALID" \/ m.order = Len(called)
  <2>1. \A v : Verdict(r, v).verdict = v /\ Verdict(r, v).order = tx[r].order
    BY DEF Verdict
  <2>2. CASE Win(r) /\ tx[r].pc \in {"open", "join"}
    BY <2>1, <2>2 DEF Win, LastBall, HeldBack
  <2>3. CASE ClaimAlreadyResolved(r)
    BY <2>1, <2>3 DEF ClaimAlreadyResolved
  <2>4. CASE ClaimBlock(r)
    BY <2>1, <2>4 DEF ClaimBlock
  <2>5. CASE UNCHANGED claims
    BY <2>5
  <2> QED
    BY <2>2, <2>3, <2>4, <2>5
    DEF Claim, ClaimStep, ClaimRefused, ClaimLoad, ClaimPause, ClaimEvaluate,
        ClaimOpenWindow, ClaimJoinWindow, ClaimAbort, rows
<1> QED
  BY <1>b, <1>2, <1>3 DEF LastBall, WonOnLastBall

\* What is neither a claim nor a draw leaves claims alone.
LEMMA OthersKeepBall ==
  ASSUME IInv, LastBall, Next, StartIsPrompt, called' = called,
         ~\E r \in Requests : Claim(r)
  PROVE  HeldBack' /\ WonOnLastBall'
<1>1. /\ UNCHANGED <<claims, lock>>
      /\ \A r \in Requests :
           tx'[r].pc = tx[r].pc /\ tx'[r].order = tx[r].order
  <2>1. CASE Tick
    BY <2>1 DEF Tick, IInv, TypeOK, ClaimTx
  <2>2. CASE \/ AutoPick \/ AutoRead \/ AutoDraw \/ AutoStartGrace
             \/ AutoDisable \/ AutoFail \/ FinalizeNoWinner
    BY <2>2
    DEF AutoPick, AutoRead, AutoDraw, AutoStartGrace, AutoDisable, AutoFail,
        FinalizeNoWinner, UnchangedByJobs
  <2>3. CASE \/ OperatorStart \/ StartAutoCall \/ StopAutoCall
             \/ CallNumberRead \/ CallNumberRefused \/ CallNumberInsert
             \/ CallNumberGrace \/ OperatorFail
    BY <2>3
    DEF OperatorStart, StartAutoCall, StopAutoCall, CallNumberRead,
        CallNumberRefused, CallNumberInsert, CallNumberGrace, OperatorFail,
        UnchangedByJobs
  <2>4. CASE \/ CancelBegin \/ Cancel \/ CancelFail \/ FinalizeWindow
             \/ EarlyBegin \/ EarlyFinalize
    BY <2>4
    DEF CancelBegin, Cancel, CancelDisable, CancelCommit, CancelFail,
        FinalizeWindow, EarlyBegin, EarlyFinalize, UnchangedByJobs
  <2> QED
    BY <2>1, <2>2, <2>3, <2>4 DEF Next, AutoCall
<1>2. CASE operator.pc # "idle"
  BY <1>2, NothingYet DEF IInv, LastBall, HeldBack, WonOnLastBall
<1>3. CASE operator.pc = "idle"
  <2>1. ~StartAutoCall
    BY <1>3 DEF StartAutoCall
  <2>2. CallingOver => CallingOver'
    BY <2>1, StaysOver DEF IInv
  <2> QED
    BY <1>1, <2>2 DEF LastBall, HeldBack, WonOnLastBall
<1> QED
  BY <1>2, <1>3

\* Every step of such a round keeps the invariant.
LEMMA LastBallStep ==
  ASSUME AdminOps = {}, IInv, LastBall, [Next /\ StartIsPrompt]_vars
  PROVE  LastBall'
<1>1. CASE UNCHANGED vars
  BY <1>1 DEF vars, rows, jobs, LastBall, NobodyInterferes, HeldBack,
              CallingOver, WonOnLastBall
<1>2. CASE Next /\ StartIsPrompt
  <2>1. NobodyInterferes'
    BY <1>2, PhaseStep DEF IInv, LastBall
  <2>2. HeldBack' /\ WonOnLastBall'
    BY <1>2, DrawStep, ClaimKeepsBall, OthersKeepBall
  <2> QED
    BY <2>1, <2>2 DEF LastBall
<1> QED
  BY <1>1, <1>2

\* In a round that the auto-call job alone calls, every winner has won on the
\* last ball drawn: between the moment a claim is evaluated and its verdict no
\* ball is drawn, and none follows a valid one.
THEOREM AllWonOnLastBall == AdminOps = {} => (AutoSpec => []WonOnLastBall)
<1> SUFFICES ASSUME AdminOps = {} PROVE AutoSpec => []WonOnLastBall
  OBVIOUS
<1>1. Init => LastBall
  <2> SUFFICES ASSUME Init PROVE LastBall
    OBVIOUS
  <2>1. \A r \in Requests : tx[r].pc = "new"
    BY DEF Init, Reset
  <2> QED
    BY <2>1
    DEF Init, LastBall, NobodyInterferes, HeldBack, WonOnLastBall, Waiting
<1>2. IInv /\ LastBall /\ [Next /\ StartIsPrompt]_vars => LastBall'
  BY LastBallStep
<1>3. AutoSpec => Spec
  <2>1. [Next /\ StartIsPrompt]_vars => [Next]_vars
    OBVIOUS
  <2> QED
    BY <2>1, PTL DEF AutoSpec, Spec
<1>4. LastBall => WonOnLastBall
  BY DEF LastBall
<1> QED
  BY <1>1, <1>2, <1>3, <1>4, Invariant, PTL DEF AutoSpec
=============================================================================
