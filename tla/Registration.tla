---------------------------- MODULE Registration ----------------------------
(***************************************************************************)
(* Registration for one session of a NORMAL slot: players hold cartelas    *)
(* for a few seconds, confirm the holds or register directly, and pay with *)
(* a bonus cartela or from their wallet; meanwhile the deadline comes, and *)
(* the scheduler starts the session or cancels it for want of players.     *)
(*                                                                         *)
(* A registering transaction first locks the session row                   *)
(* (getSessionForRegistrationWrite) and keeps the lock until it ends: it   *)
(* is two steps, `lock' being the call that is between them.  What it      *)
(* writes is seen by others at its second step, which commits it.  Holds   *)
(* are not protected by that lock.                                         *)
(***************************************************************************)
EXTENDS Wallet, FiniteSetsExt, SequencesExt

CONSTANTS
    Cartelas,
    Requests,       \* calls of registerCartela and of its bulk form
    Items,          \* the cartelas a request asks for, in order
    Holds,          \* calls of reserveCartela; also the id of the row inserted
    CartelaOf,      \* the cartela of a hold
    PlayerOf,       \* the user of a request or hold
    NoOne,          \* "nobody holds the session lock"
    OperationModes, \* the operationModes an operator gives the slot
    Switches,       \* how often he changes it
    EntryFee, PrizePerCartela,
    Duration,       \* registrationDurationSeconds
    HoldLen,        \* cartelaHoldSeconds
    Others,         \* how many other sessions can still start before this one
    Failures        \* may a step of the scheduler fail?

ASSUME RegistrationAssumption ==
    /\ IsFiniteSet(Cartelas)
    /\ Items \in [Requests -> Seq(Cartelas)]
    /\ \A r \in Requests : \A i, j \in 1..Len(Items[r]) :
         Items[r][i] = Items[r][j] => i = j
    /\ CartelaOf \in [Holds -> Cartelas]
    /\ PlayerOf \in [Requests \cup Holds -> Users]
    /\ Requests \cap Holds = {}
    /\ NoOne \notin Requests \cup Holds
    /\ OperationModes \subseteq {"AUTO", "MANUAL"}
    /\ Switches \in Nat
    /\ EntryFee \in Nat \ {0} /\ PrizePerCartela \in 0..EntryFee
    /\ Duration \in Nat \ {0} /\ HoldLen \in Nat \ {0}
    /\ Others \in Nat
    /\ Failures \in BOOLEAN

VARIABLES
    session,    \* the GameSession row, with the operationMode of its slot;
                \* `startIn' is the time to scheduledStartAt
    live,       \* is another session being played?
    others,     \* how many more can start
    entry,      \* the GameCartela row of each cartela
    hold,       \* the GameCartelaReservation rows
    lock,       \* the call holding the lock on the session row
    register,   \* calls of registerCartela
    reserve,    \* calls of reserveCartela
    confirm,    \* calls of confirmReservation
    expirer,    \* the due holds the expirer has found
    scheduler,  \* where the scheduler's tick is
    operator    \* his call of switchSlotOperationMode, and how many he has left

rows == <<walletVars, session, live, others, entry, hold>>
calls == <<register, reserve, confirm>>
vars == <<rows, lock, calls, expirer, scheduler, operator>>

-----------------------------------------------------------------------------
Null == -1          \* no deadline
NoEntry == [status |-> "none"]
Entry(u, source) == [status |-> "REGISTERED", user |-> u, source |-> source]
Registered == {c \in Cartelas : entry[c].status = "REGISTERED"}
PaidBy(u, source) ==
    {c \in Registered : entry[c].user = u /\ entry[c].source = source}

\* Faulty variant: nobody waits for the lock.
FreeAlways == lock \in Requests \cup Holds \cup {NoOne}

Free == lock = NoOne
AtRest == [pc |-> "new", items |-> <<>>, own |-> {}]

Init ==
    /\ InitWallet
    /\ live \in BOOLEAN
    /\ others = Others
    \* opened with a countdown, or without one behind a live session
    /\ session \in {[status |-> "READY", prize |-> 0, mode |-> m,
                     startIn |-> IF live \/ m = "MANUAL" THEN Null
                                 ELSE Duration] : m \in OperationModes}
    /\ entry = [c \in Cartelas |-> NoEntry]
    /\ hold = [h \in Holds |-> [status |-> "none", left |-> 0]]
    /\ lock = NoOne
    /\ register = [r \in Requests |-> AtRest]
    /\ reserve = [h \in Holds |-> [pc |-> "new", due |-> {}]]
    /\ confirm = [h \in Holds |-> "new"]
    /\ expirer = {}
    /\ scheduler = "idle"
    /\ operator = [pc |-> "idle", to |-> session.mode, wasReady |-> FALSE,
                   left |-> Switches]

\* assertSessionRegistrationAllowed
Accepting ==
    \/ /\ session.status = "READY"
       /\ live \/ session.mode = "MANUAL" \/ session.startIn # 0
    \/ session.status = "PLAYING" /\ session.mode = "MANUAL"

\* The holds of a cartela that are active and not due.
Held(c) == {h \in Holds : /\ CartelaOf[h] = c
                          /\ hold[h].status = "ACTIVE" /\ hold[h].left > 0}
HeldByOther(u, c) == \E h \in Held(c) : PlayerOf[h] # u

-----------------------------------------------------------------------------
(* Registering.                                                            *)

\* resolveRegistrationPaymentPlan: bonus cartelas are used first...
BonusPays(u, n) == Min({n, wallet[u].bonus})

\* ... then money, while it lasts.
MoneyPays(u, n) == Min({n - BonusPays(u, n), wallet[u].balance \div EntryFee})

\* Faulty variant: every row is written from the wallet as it was read first.
EntryRowsSnapshot(u, cartelas) ==
    [i \in 1..Len(cartelas) |->
        Row(wallet[u], "DEBIT", "GAME_ENTRY", cartelas[i], EntryFee)]

Place(c, cartelas) == CHOOSE i \in DOMAIN cartelas : cartelas[i] = c
InOrder(some, all) ==
    \A i, j \in DOMAIN some : i < j => Place(some[i], all) < Place(some[j], all)

\* A run of debitWallet calls in one transaction, one for each cartela.
EntryRows(u, cartelas) ==
    [i \in 1..Len(cartelas) |->
        Row([wallet[u] EXCEPT !.balance = @ - (i - 1) * EntryFee],
            "DEBIT", "GAME_ENTRY", cartelas[i], EntryFee)]

\* Faulty variant: the prize is written from what was read before the loop.
EnterOneShare(u, cartelas) ==
    LET n == BonusPays(u, Len(cartelas))
        m == MoneyPays(u, Len(cartelas))
        paid == SubSeq(cartelas, n + 1, n + m)
    IN  /\ wallet' = [wallet EXCEPT ![u].bonus = @ - n,
                                    ![u].balance = @ - m * EntryFee]
        /\ ledger' = [ledger EXCEPT ![u] = @ \o EntryRows(u, paid)]
        /\ entry' = [c \in Cartelas |->
             IF c \in ToSet(SubSeq(cartelas, 1, n + m))
             THEN Entry(u, IF Place(c, cartelas) <= n THEN "BONUS_CARTELA"
                           ELSE "MONEY_WALLET")
             ELSE entry[c]]
        /\ session' = [session EXCEPT !.prize = @ + PrizePerCartela]

\* Rows are created, paid and added to the prize for as many of the cartelas
\* as the user can pay, in order; the rest fail.
Enter(u, cartelas) ==
    LET n == BonusPays(u, Len(cartelas))
        m == MoneyPays(u, Len(cartelas))
        paid == SubSeq(cartelas, n + 1, n + m)
    IN  /\ wallet' = [wallet EXCEPT ![u].bonus = @ - n,
                                    ![u].balance = @ - m * EntryFee]
        /\ ledger' = [ledger EXCEPT ![u] = @ \o EntryRows(u, paid)]
        /\ entry' = [c \in Cartelas |->
             IF c \in ToSet(SubSeq(cartelas, 1, n + m))
             THEN Entry(u, IF Place(c, cartelas) <= n THEN "BONUS_CARTELA"
                           ELSE "MONEY_WALLET")
             ELSE entry[c]]
        /\ session' = [session EXCEPT !.prize = @ + (n + m) * PrizePerCartela]

\* The session row is locked and tested; the cartelas that are taken, or held
\* by somebody else, are left out; the caller's own holds are remembered.
RegisterLock(r) ==
    LET u == PlayerOf[r]
        wanted == {c \in ToSet(Items[r]) : entry[c] = NoEntry /\ ~HeldByOther(u, c)}
        own == {h \in Holds : PlayerOf[h] = u
                              /\ \E c \in wanted : h \in Held(c)}
    IN  /\ register[r].pc = "new"
        /\ Free
        /\ IF Accepting /\ wanted # {}
           THEN /\ lock' = r
                /\ \E items \in SetToSeqs(wanted) :
                     /\ InOrder(items, Items[r])
                     /\ register' = [register EXCEPT ![r] =
                          [pc |-> "write", items |-> items, own |-> own]]
           ELSE /\ register' = [register EXCEPT ![r].pc = "done"]
                /\ UNCHANGED lock
        /\ UNCHANGED <<rows, reserve, confirm, expirer, scheduler, operator>>

\* The rows are written; the caller's holds become CONFIRMED, whatever they
\* have become since they were read.
RegisterWrite(r) ==
    LET items == register[r].items
    IN  /\ register[r].pc = "write"
        /\ Enter(PlayerOf[r], items)
        /\ hold' = [h \in Holds |->
             IF h \in register[r].own /\ entry'[CartelaOf[h]] # NoEntry
             THEN [hold[h] EXCEPT !.status = "CONFIRMED"] ELSE hold[h]]
        /\ register' = [register EXCEPT ![r] = [AtRest EXCEPT !.pc = "done"]]
        /\ lock' = NoOne
        /\ UNCHANGED <<live, others, reserve, confirm, expirer, scheduler, operator>>

-----------------------------------------------------------------------------
(* Holds.                                                                  *)

\* reserveCartela reads the session, the registrations and the holds, without
\* a lock.  Its first statement expires the due holds of the cartela.
ReserveCheck(h) ==
    LET c == CartelaOf[h]
        due == {g \in Holds : /\ CartelaOf[g] = c
                              /\ hold[g].status = "ACTIVE" /\ hold[g].left = 0}
    IN  /\ reserve[h].pc = "new"
        /\ reserve' = [reserve EXCEPT ![h] =
             IF Accepting /\ c \notin Registered /\ Held(c) = {}
             THEN [pc |-> "insert", due |-> due]
             ELSE [pc |-> "done", due |-> {}]]
        \* a hold of one's own is extended
        /\ hold' = IF Accepting /\ c \notin Registered
                   THEN [g \in Holds |->
                          IF g \in Held(c) /\ PlayerOf[g] = PlayerOf[h]
                          THEN [hold[g] EXCEPT !.left = HoldLen] ELSE hold[g]]
                   ELSE hold
        /\ UNCHANGED <<walletVars, session, live, others, entry, lock, register,
                       confirm, expirer, scheduler, operator>>

\* The partial unique index on the active hold of a cartela.
Holdable(h) ==
    \A g \in Holds \ reserve[h].due :
        CartelaOf[g] = CartelaOf[h] => hold[g].status # "ACTIVE"

\* The hold is inserted, or the transaction fails with the due holds unexpired.
ReserveInsert(h) ==
    /\ reserve[h].pc = "insert"
    /\ reserve' = [reserve EXCEPT ![h] = [pc |-> "done", due |-> {}]]
    /\ hold' = IF Holdable(h)
               THEN [g \in Holds |->
                      CASE g = h -> [status |-> "ACTIVE", left |-> HoldLen]
                        [] g \in reserve[h].due /\ hold[g].status = "ACTIVE" ->
                             [hold[g] EXCEPT !.status = "EXPIRED"]
                        [] OTHER -> hold[g]]
               ELSE hold
    /\ UNCHANGED <<walletVars, session, live, others, entry, lock, register, confirm,
                   expirer, scheduler, operator>>

\* cancelReservation
CancelHold(h) ==
    /\ hold[h].status = "ACTIVE"
    /\ hold' = [hold EXCEPT ![h].status = "CANCELLED"]
    /\ UNCHANGED <<walletVars, session, live, others, entry, lock, calls, expirer,
                   scheduler, operator>>

\* confirmReservation reads the hold before it has the lock.  (That a due hold
\* is marked EXPIRED is undone by the error that follows.)
ConfirmRead(h) ==
    /\ confirm[h] = "new"
    /\ hold[h].status = "ACTIVE" /\ hold[h].left > 0
    /\ confirm' = [confirm EXCEPT ![h] = "lock"]
    /\ UNCHANGED <<rows, lock, register, reserve, expirer, scheduler, operator>>

ConfirmLock(h) ==
    /\ confirm[h] = "lock"
    /\ Free
    /\ IF Accepting
       THEN lock' = h /\ confirm' = [confirm EXCEPT ![h] = "write"]
       ELSE confirm' = [confirm EXCEPT ![h] = "done"] /\ UNCHANGED lock
    /\ UNCHANGED <<rows, register, reserve, expirer, scheduler, operator>>

\* The hold is not read again.  A cartela that is taken, or cannot be paid,
\* fails the transaction.
ConfirmWrite(h) ==
    LET c == CartelaOf[h]
        u == PlayerOf[h]
    IN  /\ confirm[h] = "write"
        /\ IF entry[c] = NoEntry /\ BonusPays(u, 1) + MoneyPays(u, 1) = 1
           THEN /\ Enter(u, <<c>>)
                /\ hold' = [hold EXCEPT ![h].status = "CONFIRMED"]
           ELSE UNCHANGED <<walletVars, session, entry, hold>>
        /\ confirm' = [confirm EXCEPT ![h] = "done"]
        /\ lock' = NoOne
        /\ UNCHANGED <<live, others, register, reserve, expirer, scheduler, operator>>

\* The expirer's tick finds the due holds ...
ExpireFind ==
    LET due == {h \in Holds : hold[h].status = "ACTIVE" /\ hold[h].left = 0}
    IN  /\ expirer = {} /\ due # {}
        /\ expirer' = due
        /\ UNCHANGED <<rows, lock, calls, scheduler, operator>>

\* ... and expires them, whatever they have become.
ExpireWrite ==
    /\ expirer # {}
    /\ hold' = [h \in Holds |-> IF h \in expirer
                                THEN [hold[h] EXCEPT !.status = "EXPIRED"]
                                ELSE hold[h]]
    /\ expirer' = {}
    /\ UNCHANGED <<walletVars, session, live, others, entry, lock, calls, scheduler, operator>>

-----------------------------------------------------------------------------
(* The end of registration.                                                *)

Cancellable == session.status \in {"READY", "PLAYING"}

\* Faulty variant: cartelas paid with a bonus cartela are not given back.
RefundMoneyOnly ==
    LET money(u) == EntryFee * Cardinality(PaidBy(u, "MONEY_WALLET"))
    IN  /\ wallet' = [u \in Users |-> Plan(wallet[u], "CREDIT", money(u))]
        /\ ledger' = [u \in Users |->
             IF money(u) = 0 THEN ledger[u]
             ELSE Append(ledger[u], Row(wallet[u], "CREDIT", "REFUND", "session",
                                        money(u)))]

\* What cancelSession gives back: the fees of each user in one movement, and a
\* bonus cartela for each one used.
Refund ==
    LET money(u) == EntryFee * Cardinality(PaidBy(u, "MONEY_WALLET"))
        bonus(u) == Cardinality(PaidBy(u, "BONUS_CARTELA"))
    IN  /\ wallet' = [u \in Users |->
             [Plan(wallet[u], "CREDIT", money(u)) EXCEPT !.bonus = @ + bonus(u)]]
        /\ ledger' = [u \in Users |->
             IF money(u) = 0 THEN ledger[u]
             ELSE Append(ledger[u], Row(wallet[u], "CREDIT", "REFUND", "session",
                                        money(u)))]

\* The transaction of cancelSession, the cartelas being read after the status
\* was claimed.
CancelCommit ==
    /\ Cancellable
    /\ session' = [session EXCEPT !.status = "CANCELLED", !.startIn = Null]
    /\ Refund
    /\ entry' = [c \in Cartelas |-> IF c \in Registered
                                    THEN [entry[c] EXCEPT !.status = "CANCELLED"]
                                    ELSE entry[c]]

\* An operator cancels the session.
CancelSession ==
    /\ Free
    /\ CancelCommit
    /\ UNCHANGED <<live, others, hold, lock, calls, expirer, scheduler, operator>>

\* startGame, by an operator.
StartGame ==
    /\ Free
    /\ session.status = "READY" /\ ~live
    /\ session' = [session EXCEPT !.status = "PLAYING"]
    /\ UNCHANGED <<walletVars, live, others, entry, hold, lock, calls, expirer,
                   scheduler, operator>>

\* switchSlotOperationMode reads the session before its transaction ...
SwitchRead ==
    /\ operator.pc = "idle" /\ operator.left > 0
    /\ \E m \in OperationModes :
         operator' = [pc |-> "write", to |-> m, left |-> operator.left - 1,
                      wasReady |-> session.status = "READY"]
    /\ UNCHANGED <<rows, lock, calls, expirer, scheduler>>

\* ... which gives a session that was READY a new deadline, or none.
SwitchWrite ==
    /\ operator.pc = "write"
    /\ operator.wasReady => Free
    /\ session' = [session EXCEPT
         !.mode = operator.to,
         !.startIn = CASE ~operator.wasReady -> @
                       [] operator.wasReady /\ operator.to = "AUTO" -> Duration
                       [] OTHER -> Null]
    /\ operator' = [operator EXCEPT !.pc = "idle", !.wasReady = FALSE]
    /\ UNCHANGED <<walletVars, live, others, entry, hold, lock, calls, expirer,
                   scheduler>>

\* The other session ends; its transaction may open this one's countdown.
LiveEnds ==
    /\ live
    /\ Free
    /\ live' = FALSE
    /\ session' \in {session} \cup
         IF session.status = "READY" /\ session.startIn = Null
            /\ session.mode = "AUTO"
         THEN {[session EXCEPT !.startIn = Duration]} ELSE {}
    /\ UNCHANGED <<walletVars, others, entry, hold, lock, calls, expirer,
                   scheduler, operator>>

\* Another session starts; this one is behind it.
LiveStarts ==
    /\ ~live /\ others > 0
    /\ session.status # "PLAYING"
    /\ live' = TRUE
    /\ others' = others - 1
    /\ UNCHANGED <<walletVars, session, entry, hold, lock, calls, expirer,
                   scheduler, operator>>

-----------------------------------------------------------------------------
(* The scheduler's tick.                                                   *)

\* Faulty variant: a countdown that was lost is not given again.
RepairableIfExpired == live /\ session.startIn = 0

\* What AutoReadyCountdownRepairService looks for: a deadline that passed behind
\* a live session, or a session without one.
Repairable ==
    \/ live /\ session.startIn = 0
    \/ ~live /\ session.startIn = Null

RepairCountdown ==
    /\ scheduler = "idle"
    /\ session.mode = "AUTO" /\ session.status = "READY"
    /\ Free
    /\ Repairable
    /\ session' = [session EXCEPT !.startIn = IF live THEN Null ELSE Duration]
    /\ UNCHANGED <<walletVars, live, others, entry, hold, lock, calls, expirer,
                   scheduler, operator>>

\* processDueSession claims the due session by clearing its deadline.
ClaimDue ==
    /\ scheduler = "idle"
    /\ session.status = "READY" /\ session.startIn = 0 /\ ~live
    /\ Free
    /\ session' = [session EXCEPT !.startIn = Null]
    /\ scheduler' = "count"
    /\ UNCHANGED <<walletVars, live, others, entry, hold, lock, calls, expirer, operator>>

CountPlayers ==
    /\ scheduler = "count"
    /\ scheduler' = CASE session.mode # "AUTO" -> "idle"
                      [] session.mode = "AUTO" /\ Registered = {} -> "skip"
                      [] OTHER -> "start"
    /\ UNCHANGED <<rows, lock, calls, expirer, operator>>

\* Faulty variant: the count is not taken again.
SkipAnyway == Cancellable

\* A registration that landed meanwhile makes cancelSession give up.
SkipConfirmed == Cancellable /\ Registered = {}

\* cancelSession with abortIfPlayersRegistered.
SkipSession ==
    /\ scheduler = "skip"
    /\ Free
    /\ IF SkipConfirmed
       THEN CancelCommit /\ scheduler' = "idle"
       ELSE /\ scheduler' = IF Cancellable THEN "start" ELSE "idle"
            /\ UNCHANGED <<walletVars, session, entry>>
    /\ UNCHANGED <<live, others, hold, lock, calls, expirer, operator>>

\* startGame; if another session is live, the deadline is restored.
AutoStart ==
    /\ scheduler = "start"
    /\ Free
    /\ session' =
         CASE session.status = "READY" /\ ~live ->
                [session EXCEPT !.status = "PLAYING"]
           [] session.status = "READY" /\ live /\ session.startIn = Null ->
                [session EXCEPT !.startIn = 0]
           [] OTHER -> session
    /\ scheduler' = "idle"
    /\ UNCHANGED <<walletVars, live, others, entry, hold, lock, calls, expirer, operator>>

\* The tick fails, or the process dies.  Only a failure of startGame itself is
\* caught, and restores the deadline.
SchedulerFail ==
    /\ Failures
    /\ scheduler # "idle"
    /\ Free
    /\ session' \in {session} \cup
         IF /\ scheduler = "start"
            /\ session.status = "READY" /\ session.startIn = Null
         THEN {[session EXCEPT !.startIn = 0]} ELSE {}
    /\ scheduler' = "idle"
    /\ UNCHANGED <<walletVars, live, others, entry, hold, lock, calls, expirer, operator>>

Countdown(left) == IF left > 0 THEN left - 1 ELSE left

Tick ==
    /\ session' = [session EXCEPT !.startIn = Countdown(session.startIn)]
    /\ hold' = [h \in Holds |-> [hold[h] EXCEPT !.left = Countdown(@)]]
    /\ UNCHANGED <<walletVars, live, others, entry, lock, calls, expirer, scheduler, operator>>

-----------------------------------------------------------------------------
Register == \E r \in Requests : RegisterLock(r) \/ RegisterWrite(r)
Hold ==
    \E h \in Holds :
        \/ ReserveCheck(h) \/ ReserveInsert(h) \/ CancelHold(h)
        \/ ConfirmRead(h) \/ ConfirmLock(h) \/ ConfirmWrite(h)
Scheduler ==
    RepairCountdown \/ ClaimDue \/ CountPlayers \/ SkipSession \/ AutoStart

Next ==
    \/ Register \/ Hold
    \/ ExpireFind \/ ExpireWrite
    \/ CancelSession \/ StartGame \/ SwitchRead \/ SwitchWrite
    \/ LiveEnds \/ LiveStarts
    \/ Scheduler \/ SchedulerFail
    \/ Tick

Spec == Init /\ [][Next]_vars

\* Transactions end, jobs tick, other rounds end, and not every tick of the
\* scheduler fails.
Fairness ==
    /\ \A r \in Requests : WF_vars(RegisterWrite(r))
    /\ \A h \in Holds : WF_vars(ConfirmWrite(h))
    /\ WF_vars(ExpireFind \/ ExpireWrite)
    /\ WF_vars(Tick)
    /\ WF_vars(LiveEnds)
    /\ WF_vars(Scheduler)
    /\ SF_vars(CountPlayers)
    /\ SF_vars(SkipSession \/ AutoStart)

FairSpec == Spec /\ Fairness

-----------------------------------------------------------------------------
TypeOK ==
    /\ WalletTypeOK
    /\ session \in [status : {"READY", "PLAYING", "CANCELLED"},
                     prize : Nat, mode : OperationModes, startIn : Null..Duration]
    /\ live \in BOOLEAN /\ others \in 0..Others
    /\ \A c \in Cartelas :
         \/ entry[c] = NoEntry
         \/ entry[c] \in [status : {"REGISTERED", "CANCELLED"}, user : Users,
                          source : {"BONUS_CARTELA", "MONEY_WALLET"}]
    /\ hold \in [Holds -> [status : {"none", "ACTIVE", "EXPIRED", "CANCELLED",
                                     "CONFIRMED"}, left : 0..HoldLen]]
    /\ lock \in Requests \cup Holds \cup {NoOne}
    /\ \A r \in Requests :
         /\ register[r].pc \in {"new", "write", "done"}
         /\ ToSet(register[r].items) \subseteq Cartelas
         /\ register[r].own \subseteq Holds
    /\ reserve \in [Holds -> [pc : {"new", "insert", "done"},
                              due : SUBSET Holds]]
    /\ confirm \in [Holds -> {"new", "lock", "write", "done"}]
    /\ expirer \subseteq Holds
    /\ scheduler \in {"idle", "count", "skip", "start"}
    /\ operator \in [pc : {"idle", "write"}, to : OperationModes, wasReady : BOOLEAN,
                     left : 0..Switches]

\* The prize of a session is the shares of the cartelas registered for it, no
\* registration being counted twice or lost among concurrent ones.
PrizeMatchesEntries ==
    session.status # "CANCELLED" =>
        session.prize = PrizePerCartela * Cardinality(Registered)

\* A player has, in money and bonus cartelas, what he had at first less what his
\* registered cartelas cost: each is paid once, out of what he has, and what was
\* paid comes back in kind when the session is cancelled, after which nobody is
\* or gets registered ("Cartelas are marked CANCELLED so they never count for a
\* future round").
PaidForWhatIsRegistered ==
    \A u \in Users :
        /\ wallet[u].balance + EntryFee * Cardinality(PaidBy(u, "MONEY_WALLET"))
             = Opening[u].balance
        /\ wallet[u].bonus + Cardinality(PaidBy(u, "BONUS_CARTELA"))
             = Opening[u].bonus
        /\ wallet[u].balance >= 0 /\ wallet[u].bonus >= 0
        /\ session.status = "CANCELLED" => Registered = {}

\* A hold is converted to a registration of its cartela by its owner.
ConfirmedOwns ==
    \A h \in Holds : hold[h].status = "CONFIRMED" =>
        /\ entry[CartelaOf[h]] # NoEntry
        /\ entry[CartelaOf[h]].user = PlayerOf[h]

\* The scheduler cancels a session for want of players only if it has none at
\* that moment, however many registered since it counted.
NobodySkipped ==
    [][/\ scheduler = "skip" /\ scheduler' = "idle"
       /\ session.status # "CANCELLED" /\ session'.status = "CANCELLED"
       => Registered = {}]_vars

\* Liveness: a session of an AUTO slot does not stay in registration, whatever
\* round is before it and however often the scheduler fails.
RegistrationEnds == <>(session.status # "READY")

\* "Another player is choosing this cartela": no cartela is registered while
\* another player's hold of it is active.
HoldRespected ==
    [][\A c \in Cartelas : entry[c] = NoEntry /\ entry'[c] # NoEntry =>
         \A h \in Held(c) : PlayerOf[h] = entry'[c].user]_vars

\* "AUTO registration closes the moment the countdown deadline passes, even if
\* the scheduler tick has not yet started/cancelled the session": no call is let
\* in between the deadline and the scheduler's decision.
ClosedAtDeadline ==
    [][scheduler # "idle" => \A r \in Requests :
         ~(register[r].pc = "new" /\ register'[r].pc = "write")]_vars

\* "Converts hold to registration": a hold that was confirmed stays so.
ConfirmedStays ==
    [][\A h \in Holds : hold[h].status = "CONFIRMED" =>
         hold'[h].status = "CONFIRMED"]_vars
=============================================================================
