------------------------------- MODULE Review -------------------------------
(***************************************************************************)
(* The round of a slot with the rule MANUAL, which the seed no longer has  *)
(* but the program still plays: a claim waits for an administrator, who    *)
(* approves or rejects it, while others claim, the balls run out or the    *)
(* session is cancelled.                                                   *)
(*                                                                         *)
(* A transaction reads, decides and commits.  What it tested with a read   *)
(* may have changed when it writes; what it tests in the WHERE of an       *)
(* update holds when it writes, because the row is locked from then on.    *)
(* So a transaction is two steps, one that reads and one that writes, and  *)
(* it may fail between them (a conflict, a deadlock, a crash).             *)
(***************************************************************************)
EXTENDS Naturals, FiniteSets

CONSTANTS
    Cartelas,   \* cartelas registered in the round
    Claims,     \* claims that may be made
    CartelaOf,  \* the cartela of each
    None        \* no cartela

ASSUME ReviewAssumption ==
    /\ CartelaOf \in [Claims -> Cartelas]
    /\ None \notin Cartelas

VARIABLES
    session,    \* the row of the round
    cartela,    \* status of each cartela
    claim,      \* status of each claim, NEW before it is made
    reading,    \* transactions that have read and not yet written
    prizes,     \* prizes credited for each cartela
    refunds     \* entry fees given back for each cartela

vars == <<session, cartela, claim, reading, prizes, refunds>>

SessionStatus == {"PLAYING", "CHECKING", "FINISHED", "NO_WINNER", "CANCELLED"}
Ended == {"FINISHED", "NO_WINNER", "CANCELLED"}
CANCELLABLE_SESSION_STATUSES == {"PLAYING", "CHECKING"}
CartelaStatus == {"REGISTERED", "WINNER", "BLOCKED", "CANCELLED"}
ClaimStatus == {"NEW", "PENDING", "VALID", "INVALID"}

Transactions == {"claim", "approve", "reject"} \X Claims
CancelSession == <<"cancel", None>>

TypeOK ==
    /\ session \in [status : SessionStatus, winnerCartelaId : Cartelas \cup {None}, grace : BOOLEAN]
    /\ cartela \in [Cartelas -> CartelaStatus]
    /\ claim \in [Claims -> ClaimStatus]
    /\ reading \subseteq Transactions \cup {CancelSession}
    /\ prizes \in [Cartelas -> Nat]
    /\ refunds \in [Cartelas -> Nat]

Init ==
    /\ session = [status |-> "PLAYING", winnerCartelaId |-> None, grace |-> FALSE]
    /\ cartela = [c \in Cartelas |-> "REGISTERED"]
    /\ claim = [k \in Claims |-> "NEW"]
    /\ reading = {}
    /\ prizes = [c \in Cartelas |-> 0]
    /\ refunds = [c \in Cartelas |-> 0]

Read(t) ==
    /\ t \notin reading
    /\ reading' = reading \cup {t}
    /\ UNCHANGED <<session, cartela, claim, prizes, refunds>>

Written(t) == t \in reading /\ reading' = reading \ {t}

\* The transaction is rolled back.
Fail(t) == Written(t) /\ UNCHANGED <<session, cartela, claim, prizes, refunds>>

(***************************************************************************)
(* A player claims (createManualPendingClaim).                             *)
(***************************************************************************)
ClaimRead(k) ==
    /\ claim[k] = "NEW"
    /\ cartela[CartelaOf[k]] = "REGISTERED"
    /\ session.status = "PLAYING"
    /\ \A j \in Claims : CartelaOf[j] = CartelaOf[k] => claim[j] # "PENDING"
    /\ Read(<<"claim", k>>)

ClaimWrite(k) ==
    /\ Written(<<"claim", k>>)
    /\ claim' = [claim EXCEPT ![k] = "PENDING"]
    /\ session' = [session EXCEPT !.status = "CHECKING"]
    /\ UNCHANGED <<cartela, prizes, refunds>>

(***************************************************************************)
(* An administrator decides.                                               *)
(***************************************************************************)
ApproveRead(k) ==
    /\ claim[k] = "PENDING"
    /\ session.status \notin {"FINISHED", "NO_WINNER"}
    /\ Read(<<"approve", k>>)

\* Faulty variant: the status alone is tested.
FinishableByStatus == session.status \in {"PLAYING", "CHECKING"}

\* The WHERE of finishGameWithWinner.
Finishable ==
    /\ session.status \in {"PLAYING", "CHECKING"}
    /\ session.winnerCartelaId = None

ApproveWrite(k) ==
    LET c == CartelaOf[k]
    IN  /\ Written(<<"approve", k>>)
        /\ cartela[c] = "REGISTERED"
        /\ Finishable
        /\ cartela' = [cartela EXCEPT ![c] = "WINNER"]
        /\ session' = [status |-> "FINISHED", winnerCartelaId |-> c, grace |-> FALSE]
        /\ prizes' = [prizes EXCEPT ![c] = @ + 1]
        /\ claim' = [claim EXCEPT ![k] = "VALID"]
        /\ UNCHANGED refunds

RejectRead(k) == claim[k] = "PENDING" /\ Read(<<"reject", k>>)

\* Faulty variant: whatever the cartela has become.
BlockableAnyway(c) == TRUE
Blockable(c) == cartela[c] = "REGISTERED"

\* The session returns to PLAYING, wherever it is.
RejectWrite(k) ==
    LET c == CartelaOf[k]
    IN  /\ Written(<<"reject", k>>)
        /\ Blockable(c)
        /\ cartela' = [cartela EXCEPT ![c] = "BLOCKED"]
        /\ claim' = [claim EXCEPT ![k] = "INVALID"]
        /\ session' = [session EXCEPT !.status = "PLAYING"]
        /\ UNCHANGED <<prizes, refunds>>

(***************************************************************************)
(* Somebody cancels the session.                                           *)
(***************************************************************************)
CancelRead ==
    /\ session.status \in CANCELLABLE_SESSION_STATUSES
    /\ Read(CancelSession)

\* Faulty variant: every cartela of the session.
RefundableAll == Cartelas
Refundable == {c \in Cartelas : cartela[c] # "CANCELLED"}

CancelWrite ==
    /\ Written(CancelSession)
    /\ session.status \in CANCELLABLE_SESSION_STATUSES
    /\ session' = [session EXCEPT !.status = "CANCELLED"]
    /\ refunds' = [c \in Cartelas |-> IF c \in Refundable THEN refunds[c] + 1 ELSE refunds[c]]
    /\ cartela' = [c \in Cartelas |-> "CANCELLED"]
    /\ UNCHANGED <<claim, prizes>>

(***************************************************************************)
(* The balls run out.                                                      *)
(***************************************************************************)
StartNoWinnerGrace ==
    /\ session.status = "PLAYING"
    /\ session.winnerCartelaId = None
    /\ ~session.grace
    /\ session' = [session EXCEPT !.grace = TRUE]
    /\ UNCHANGED <<cartela, claim, reading, prizes, refunds>>

\* One transaction that starts with the update of the session.
FinalizeNoWinner ==
    /\ session.status \in {"PLAYING", "CHECKING"}
    /\ session.winnerCartelaId = None
    /\ session.grace
    /\ session' = [session EXCEPT !.status = "NO_WINNER"]
    /\ cartela' = [c \in Cartelas |->
                     IF cartela[c] = "REGISTERED" THEN "BLOCKED" ELSE cartela[c]]
    /\ claim' = [k \in Claims |-> IF claim[k] = "PENDING" THEN "INVALID" ELSE claim[k]]
    /\ UNCHANGED <<reading, prizes, refunds>>

Next ==
    \/ \E k \in Claims :
         \/ ClaimRead(k) \/ ClaimWrite(k)
         \/ ApproveRead(k) \/ ApproveWrite(k)
         \/ RejectRead(k) \/ RejectWrite(k)
    \/ CancelRead \/ CancelWrite
    \/ StartNoWinnerGrace \/ FinalizeNoWinner
    \/ \E t \in reading : Fail(t)

Spec == Init /\ [][Next]_vars

(***************************************************************************)
(* Properties.                                                             *)
(***************************************************************************)
\* However often the round is reopened, and whoever decides its claims, one
\* prize is paid at most, to the cartela the session names as its winner.
PrizePaidOnce ==
    \A c \in Cartelas : prizes[c] = IF c = session.winnerCartelaId THEN 1 ELSE 0

\* A cartela with several claims has one verdict: if one of them was accepted,
\* none was refused, and it is the winner's.
OneVerdict ==
    \A j, k \in Claims :
        claim[j] = "VALID" => /\ CartelaOf[j] = session.winnerCartelaId
                              /\ CartelaOf[k] = CartelaOf[j] => claim[k] # "INVALID"

\* Cancelling gives every entry fee back exactly once, though a session that was
\* cancelled may be reopened by a late claim and be cancelled again.
RefundedOnce ==
    \A c \in Cartelas : refunds[c] = IF cartela[c] = "CANCELLED" THEN 1 ELSE 0

\* A round that ended stays as it ended.  (It does not: an answer to a claim, or a
\* claim that was on its way, reopens it.)
EndedStays ==
    [][session.status \in Ended => session'.status = session.status]_vars

\* Nobody has the prize and the entry fee back.  (A reopened round that is then
\* cancelled refunds its winner.)
PrizeOrRefund == \A c \in Cartelas : prizes[c] = 0 \/ refunds[c] = 0
=============================================================================
