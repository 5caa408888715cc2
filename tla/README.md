# FriendsBingo in TLA+

FriendsBingo is a NestJS server (`src/src`) with a PostgreSQL database behind
Prisma. Players buy *cartelas* (bingo boards) for a *session* of a *slot*, an
automatic caller draws numbers, players claim bingo, winners are paid into their
wallets. Money comes in as deposits (mobile-money receipts) and goes out as
withdrawals that administrators decide. All paths below are relative to the
repository's root (`src/` here).

The models are about one question: **what do concurrent requests, background
jobs, operators and failures do to rounds, registrations and money, given what
the transactions of this code really lock and really re-read?** The database
runs READ COMMITTED, most services read a row, decide, and write it later, and
only some of those writes repeat the test they rely on. Each model keeps exactly
these steps.

## 1. Inventory

| Component (source under `src/src`) | State | Operations | Talks to | What is hard |
|---|---|---|---|---|
| **Claims and winner window** (`bingo-claims`) | `BingoClaim` rows, status of `GameCartela`, status and `winnerWindowEndsAt` of `GameSession` | `claimBingo`, `approveClaim`, `rejectClaim`, `finalizeWinnerWindow` (job), `finalizeWinnerWindowEarly` | wallet (prizes), auto-call (pause, restore), queue (end of game) | claims of several players in one transaction each, while balls are drawn, the window runs out, or the round is cancelled |
| **Ball calling** (`called-numbers`, `games/auto-call.service.ts`) | `CalledNumber` rows, `autoCallEnabled`, `nextAutoCallAt` | the job's draw, `callNumber`, `startAutoCall`, `stopAutoCall` | engine (no-winner grace) | choices made outside the transaction, unique indexes instead of locks |
| **Game engine** (`game-engine`) | status of `GameSession`, `noWinnerGraceEndsAt` | `startGame`, `startNoWinnerGrace`, `finalizeNoWinner` | queue, calling | who decides that a round is over |
| **Game lifecycle** (`games/game-lifecycle.service.ts`) | status of session and cartelas | `cancelSession` | wallet (refunds), queue | auto-call is switched off outside the transaction; registrations race with it |
| **Registration and holds** (`games/games.service.ts`, `cartela-reservation-expirer.service.ts`) | `GameCartela`, `GameCartelaReservation`, prize of the session, `operationMode` | `registerCartela` (and bulk), `reserveCartela`, `confirmReservation`, `cancelReservation`, the expirer, `switchSlotOperationMode` | wallet | one lock for registering, none for holds |
| **Auto-start scheduler** (`games/game-auto-start-scheduler.service.ts`, `auto-ready-countdown-repair.service.ts`) | `scheduledStartAt` | tick: repair, claim a due session, skip or start it | lifecycle, engine | four steps that any failure can cut |
| **Wallet and ledger** (`wallet`) | `Wallet`, `WalletTransaction` | `applyWalletMutation` (credit, debit, hold, release, consume), bonus cartelas | called by all that moves money | idempotency key, ledger rows worked out backwards |
| **Deposits** (`deposits`) | `Deposit` | `createDeposit` (auto or manual), `approveDeposit`, `rejectDeposit` | receipt verification, wallet | a slow external call between look-up and insert; two administrators |
| **Withdrawals** (`withdrawals`) | `Withdrawal` | `createWithdrawal`, `approveWithdrawal`, `rejectWithdrawal`, `markWithdrawalPaid` | wallet | two administrators; rows from before approving also paid |
| **Queue of slots** (`games/game-queue.service.ts`, `post-game-registration-opener.service.ts`, `game-operation-repair.service.ts`) | `GameSlot` (status, `sortOrder`), one session per slot | move to back, open registration at the head, retire empty sessions, remove, clear, reorder, create, repair | engine, lifecycle, scheduler | several slots, one live session, an advisory lock that is only tried, checks made before a transaction |
| **Manual review of claims** (`bingo-claims`) | `PENDING` claims, `CHECKING` sessions | `createManualPendingClaim`, `approveClaim`, `rejectClaim` | engine, lifecycle, wallet | decisions that set the status of the session whatever it has become |
| **Game rules** (`game-rules`) | none | evaluation of patterns and combinations | claims | a search over shapes that may not overlap |
| **Prize split** (`bingo-claims/prize-split.util.ts`) | none | shares of a prize | claims | cents |
| **Answers to clients** (`games.service.ts`: `getCurrentOperations`, `operations-cache.service.ts`) | two caches in memory | `/games/operations/current` | reads slots and sessions | queries without a transaction, invalidation against a running read |
| **Sessions of users** (`auth`, `device`, `users`) | refresh tokens, one-time codes, bonus of a device | register, login, refresh, reset password | wallet | unique indexes met inside a transaction, rotation outside one |
| **Notifications** (`notifications`) | `PushDevice`, `PushDeliveryLog` | filter, reserve, send, record | external push | counted before recorded, devices that change hands |
| **Realtime, rate limits** | in memory | rooms, batches, windows | everything | none that a model would show |
| **Configuration, reads, reports, infrastructure** | single rows | whole-row reads and writes | | none that a model would show |

Correctness of each, in a sentence: a round has winners only if it was won, and
every one of them is paid one share once; it always ends. A cancelled round
refunds everybody in kind; any other refunds nobody. A cartela has at most one
owner, who paid for it exactly once. Registration ends by itself. The ledger of
a wallet explains its balance. A withdrawal is an escrow. A rejected deposit is not
credited later, and of a receipt one credit at most stands. No slot is played twice at once, the openers have one
registration open between them, and the queue moves on. A cartela wins by its rule and nothing else. An answer shows
the game there is. A device gives its bonus once. Nobody is told a broadcast twice.

Where the documents promise more than this (a receipt credited once, one live session whatever the
administrator does, a personal notification sent once), the code does not keep it: section 3 has the counterexamples.

The hazards, each at its line, with the property that watches it, are listed in
`PROJECT.json`.

## 2. Modules

    Round           a round from PLAYING to its end
      RoundProofs   theorems about it
    Review          the same for a rule whose claims an administrator decides
    Rules           what a claim is judged by
      ClaimsProofs  theorems about what decides a claim: Rules and Review
    Wallet          wallets and ledger (extended by the next two)
      Payments      deposits and withdrawals; implements Escrow
        Escrow      abstract: what users are promised about held money
        PaymentsProofs      theorems about them
      Registration  holds, registrations, scheduler, cancellation of one session
        RegistrationProofs  theorems about it
    Queue           all slots, the scheduler's whole tick, the administrator
      QueueProofs     theorems about it
    Operations      what clients are told of slots and sessions
      OperationsProofs  theorems about it
    Accounts        codes, accounts, welcome bonus, refresh tokens
      AccountsProofs  theorems about it
    Push            notifications
      PushProofs    theorems about it

Each module `M` with runs has an `MCM` that gives TLC its constants. `Queue` sees of a round and of a
registration only what the queue sees; `Round`, `Review` and `Registration` are what happens
inside one of its sessions; `Operations` reads the rows that `Queue` moves.

Conventions shared by all modules:

* *One action is what others cannot observe half of.* A transaction that reads
  without a lock and writes later is several actions; from its first write to a
  contended row it holds that row's lock. Where other transactions wait for this
  lock the module has a variable `lock`, and their writing steps the guard
  `Free`. Uncommitted writes are invisible, so they are applied by the committing
  step. Statements that re-test a row (`updateMany ... where status`) are tests in
  the writing step; those that do not are unconditional there, whatever was
  read before.
* *Deadlines are the time left until them*, and `Tick` lets it run down. A
  deadline that is due stays due, which needs no bound on time.
* *A request is a constant* (`Requests`, `Holds`, `Submissions`, ...): its place
  in the code is a function over this set. Retries are further requests.
* Operators whose comment begins with "Faulty variant" are not part of any
  specification. Each is a plausible mistake in the definition that follows it, kept to show
  which property would notice (`mutants` in `PROJECT.json`).

### Round

| Variable | Code |
|---|---|
| `session` | `GameSession`: status, `autoCallEnabled`, `nextAutoCallAt`, `winnerWindowEndsAt`, `noWinnerGraceEndsAt` |
| `called` | `CalledNumber` rows by `order` |
| `cartela`, `claims` | `GameCartela.status`/`isWinner`, `BingoClaim` |
| `ledger` | prize and refund rows of `WalletTransaction` |
| `tx`, `lock` | `claimBingo`'s transactions; who holds the session row |
| `caller`, `operator`, `canceller`, `early` | the auto-call job, `callNumber`/`startAutoCall`, `cancelSession`, `finalizeWinnerWindowEarly` |

A claim is `ClaimLoad` (cartela and session are read), `ClaimPause` (auto-call is
held back: takes the lock), `ClaimEvaluate`, and one of `ClaimBlock`,
`ClaimOpenWindow`, `ClaimJoinWindow`; `ClaimAlreadyResolved` and `ClaimRefused` are
the early returns, `ClaimAbort` a rollback. The job is `AutoPick` (outside the
transaction), `AutoRead`, `AutoDraw`, then `AutoStartGrace` or `AutoDisable`, and
`FinalizeNoWinner`. Which cartela wins on which balls is the constant `Patterns`;
the code's extra condition that the latest ball completes the pattern is
`CompletedByLatest`.

Left out: claims reviewed by hand (`Review`), boards and pattern evaluators (`Rules`),
amounts of money (each winner gets "one of n shares"), what the end of a round does
to the queue (`Queue`).

### Review

A slot with the rule `MANUAL` lets a claim wait. Every operation is a read and a write:
`ClaimRead`/`ClaimWrite` (`createManualPendingClaim`), `ApproveRead`/`ApproveWrite`
(`approveClaim` with `finishGameWithWinner`), `RejectRead`/`RejectWrite`, `CancelRead`/`CancelWrite`;
`Fail` rolls one back between them. `reading` has the transactions that have tested what they
read and not written yet, so any number of them overlap. What an `updateMany` tests in its WHERE
(`Finishable`, `Blockable`, `Refundable`) is tested by the writing step; the status of the session is
not among it, and that is what reopens rounds that had ended. `StartNoWinnerGrace` and
`FinalizeNoWinner` are the end of the balls.

### Rules

A cell is a pair of coordinates, a shape a set of cells, and a number called is the cell that has
it. `RULE_PATTERN_DEFINITIONS` is the table of rules of the program, `RulePattern` what the parser makes of an
entry, `Evaluate` what `GameRuleEvaluationService.evaluate` returns. The solver of combinations is
`WinningCombinations`: `Selections` extends what was chosen for the earlier requirements by the choices for the next
(`Extend`), with its tests on overlapping (`Fits`, `MixedFits`). The reference it is
checked against, `WinsBy`, does not search: it asks whether the shapes shown, or any set of shapes,
satisfy the rule as its definition reads (`Proves`, over `AllPicks`). A state is one evaluation; a step calls one more
number (`EvaluateSpec`). `Playable` says of a rule that the solver can play it as it is defined: numbers of shapes are not zero, and a
requirement keeps its shapes apart only from those of requirements *before* it.

### Wallet, Payments, Escrow

`Wallet` has the five movements with what each needs (`Covered`), does (`Plan`)
and books (`Row`, `BalanceBefore`), and the idempotency test (`Recorded`).
`Payments` adds rows of `Deposit` and `Withdrawal`: `SubmitDeposit` is the look-up of
the receipt, `CreatePending`, `CreateApproved` and `RefuseReceipt` what follows the
verification, whose answer is a free choice. An administrator's transaction is
`Open` (reads the row) and the operation itself, in which only the tests the code
repeats are repeated: the updates of an approval and of a settlement are conditional, that of `RejectDeposit` is not. Any administrator may
decide any row. `Legacy` withdrawals are those that were APPROVED before
approving also paid, so that `markWithdrawalPaid` has something to do.

`Escrow` knows only free funds and holds that are held, paid or returned. It is
the PROPERTY `EscrowSpec` of `Payments`, by `HeldState` and `wallet[u].balance`.

### Registration

One session of a NORMAL slot, AUTO or MANUAL. `RegisterLock`/`RegisterWrite` is
`registerCartela` (one or several cartelas), `ReserveCheck`/`ReserveInsert`,
`ConfirmRead`/`ConfirmLock`/`ConfirmWrite`, `CancelHold`, `ExpireFind`/`ExpireWrite` are the
holds, `SwitchRead`/`SwitchWrite` is `switchSlotOperationMode`. The scheduler's tick is
`RepairCountdown` or `ClaimDue`, `CountPlayers`, and `SkipSession` (with
`abortIfPlayersRegistered`) or `AutoStart`; `SchedulerFail` cuts it anywhere. Of other
slots only `live` is left: whether one of their sessions is being played.

Left out: BONUS and BIG slots (entry is free, or the prize fixed), several
sessions in the queue (`Queue`), what happens after `startGame` (`Round`).

### Queue

| Variable | Code |
|---|---|
| `slot`, `session` | `GameSlot` (status, `sortOrder`) and the `GameSession` rows; PLAYING stands for CHECKING and WINNER_WINDOW too, players are there or not, a deadline is unset, running or due |
| `tx[a]` | where the transaction of the scheduler, of the jobs that end rounds (`finalizer`) or of the administrator is, and what it has read |
| `opening` | who holds the advisory lock of the opener, and the plan it has made |
| `review` | whether a round ended so recently that its result is still shown, for which the opener waits |
| `asked` | the operations the administrator has begun, which bounds them |
| `opened` | a history: the registrations that openers have opened and that are still open (`StillOpened`); one whose slot was removed no longer counts |

A start is `StartBegin` (the tests outside the transaction, `MayStart`, and the lock of its own
slot), then `StartCommit`, `StartTooLate` or `StartRefused`; an opener is `OpenBegin` (takes the
advisory lock or gives up, counts, plans) and `OpenCommit`; a cancellation is `CancelClaim`, then
`CancelRestore` (its slot goes back, the opener plans) and `CancelCommit`, or `CancelRefused`; an end is `EndBegin` and
`EndCommit`. Two transactions can wait for each other's rows (`Waits`): PostgreSQL fails one, which is `StartTooLate`,
`CancelDeadlock` or `EndDeadlock` (the job that ends rounds tries again). A tick of the scheduler is `TickRepair`, and `TickDue` or `TickNothing`. The administrator starts,
cancels, removes, clears, reorders, creates and repairs; each is cut where the code reads
before it locks. `SlotHeld` and `SessionHeld` are the row locks.

Left out: the order by diversity of rules beyond the test `Diverse`, and `game-operation-invariants.service.ts`,
which only reports (its audit of live sessions is `OneLive`, which `QueueTwoLive.cfg` finds violated; that of open
registrations does not hold either once players open sessions by asking for a slot, without the opener's lock).

### Operations

A request is `Ask` (the cache, or the beginning of a build), `Read` for each query of
`getCurrentOperationsInternal`, in the order the code waits for them, `FindClaimed` and
`FindTerminal` for what it looks for when it found nothing, `Recheck` for its repeated looks, and the
answer with what it writes into the caches: `cache`, the one entry of `OperationsCacheService`, and
`recent`, the answers remembered to bridge the gap between two rounds. Between any two queries
a round may be opened, played, ended or cancelled (`Play`, `Finish`, `Cancel`, ...), and the
invalidation that follows a commit is a step of its own. `Selected` and `Result` choose live game,
registration and queue from what was read.

### Accounts

`RequestOtp`, `CheckCooldown`, `DeliverOtp` and `VerifyOtp` are codes with their limits and attempts;
`Register`, `SignInByCode`, `ResetPassword` consume one. The transaction of a sign-up or sign-in is
`CreateUser`, `ResolveBonus`, `RecordDecision`, `GrantBonus` or `GrantNothing`, `Commit`. Rows of
a transaction under way carry its client (`by`), others do not see them (`Visible`), but an insert waits for
them, and one that collides with a committed row aborts the whole transaction, as PostgreSQL
does (`Collides`; this rule of the database is not in the repository). `Refresh`, `RevokeOld`,
`CreateNew` is the rotation of a token; `Crash` stops everything under way.

### Push

A dispatch goes through `FilterDelivered`, `FilterGlobal`, `FilterMarketing`, `Reserve`, `LookUp`, and `SendToDevice` for
each device found, whoever owns it by then. Personal ones skip the limits and are recorded after they were sent
(`RecordSuccessfulPush`); they may be dispatched again, too, because approving a deposit that is approved already sends its
message anew (`deposits.service.ts:637`). `told` is a history variable: how many dispatches of a notification
have reached a user. Devices are registered and given up meanwhile, `Cut` ends a
dispatch anywhere (a crash, an error of the database), and the messaging service may accept, refuse or fail each message.

## 3. Runs

The runs of `PROJECT.json`, one for each question; each file is a configuration of the
MC module of the same family.

| Run | Shows |
|---|---|
| `RoundAdmin.cfg` | Two claims, two balls, every operator action and a failure of every step: winners only in won rounds, an open window has a winner, the prize is paid once and whole, refunds exactly with cancellation, final statuses are final. |
| `RoundAuto.cfg` | Three claims (one a retry) in a round called by the job, without operators and without failing jobs: all winners won on the last ball drawn, no cartela has two verdicts, and every round ends. With either, rounds may stay open: `RoundCrash.cfg`, `RoundLostGrace.cfg`. |
| `Review.cfg` | Three claims of two cartelas, all decisions, cancellation and the end of the balls overlapping: one prize at most, one verdict a cartela, one refund, and none for a cartela that was not cancelled, even in a round that is reopened. |
| `Rules.cfg` | All rules of the program but two (see `RulesOwnGroup.cfg`), on three boards filled number by number in every order, each rule won and lost: a cartela wins exactly by its definition; the number that wins may be claimed; a win stays; and so may the number that completes a further shape. |
| `Payments.cfg` | Three submissions of one receipt by two users, three withdrawals, two administrators who decide all of them at once: ledger, locked money, settlement, no credit after a rejection, one standing credit of a receipt, and the refinement of `Escrow`. |
| `RegSafety.cfg` | Two players who want three and two of three cartelas, two holds of one cartela, both modes and a switch, scheduler failures, cancellation: ledger, prize and payments match the registrations, nobody is left registered in a cancelled session or pays what he does not have, confirmed holds are the owner's, a session with players is never skipped. |
| `RegEnds.cfg` | Registration ends, although another session starts in front of this one and ticks of the scheduler fail. |
| `Queue.cfg` | Two slots, one of them to be played once, scheduler, ending jobs, players whose first request opens a session, and one operation of the administrator, of any kind but creating (`QueueLive.cfg`): no slot is played twice at once; openers have one registration open between them; what was removed from the queue does not come back. |
| `QueueLive.cfg` | Two slots and a third created meanwhile, no player asked for: every automatic slot gets its turn, and whoever registers is served. |
| `Operations.cfg` | Three slots, three changes: an answer shows a game if one was there throughout, places each slot once if nothing changed, and what is over is gone when the caches expire. |
| `Accounts.cfg` | Two clients on one device, a player and a newcomer, crashes: a device and a player get the bonus once, and the wallet agrees with the decisions. |
| `Push.cfg` | Four notifications, a broadcast dispatched twice or a personal one three times, two dispatches at a time, two users, one device that changes hands: nobody is told a reserved notification twice, nor a personal one more often than dispatches can overlap; limits are passed by less than one for each concurrent dispatch. |

Configurations to run by hand (`tlc -config X.cfg MCY`), each of which finds the program at odds with what its documents,
comments or messages say of it. A file with several properties shows each of them
with `tlc -continue`. The findings of `PROJECT.json` quote the lines.

| Configuration | Counterexample |
|---|---|
| `RoundLateJoin.cfg` | A claim joins the window after the finalizer has read the winners: a winner of a FINISHED round is not paid. |
| `RoundLostGrace.cfg` | An operator's ball lands between the job's count and its insert: nobody notices the last ball, the round stays PLAYING. |
| `RoundCrash.cfg` | The process stops between the last ball and the start of the grace period: the round never ends. |
| `RoundCountdown.cfg` | Two invalid claims: the second restores a countdown it read while the first had paused it. |
| `RoundStrayBall.cfg` | A ball is recorded after a claim has opened the winner window. |
| `RoundEarly.cfg` | `finalizeWinnerWindowEarly` returns without having paid. |
| `ReviewReopened.cfg` | A rejection sets a round that has ended back to PLAYING (`EndedStays`). Such a round is cancelled: its winner has the prize and the entry fee (`PrizeOrRefund`). |
| `RulesOwnGroup.cfg` | Two overlapping squares win a rule whose squares must not overlap. |
| `PayRejectRace.cfg` | A rejection written over an approval frees the receipt, which is credited again. |
| `RegRaces.cfg` | A cartela is registered while somebody else's hold is active (`HoldRespected`); a due session that the scheduler has claimed accepts registrations again (`ClosedAtDeadline`); the expirer overwrites a hold that was confirmed meanwhile (`ConfirmedStays`). |
| `QueueBigGame.cfg` | A due Big Game is claimed, not recognised as due by its own start, released, and so on for ever. |
| `QueueStuck.cfg` | Another slot is put in front of a session with players: it is neither started nor cancelled. |
| `QueueTwoLive.cfg` | A reordering between the test and the commit of a start: two sessions are live. |
| `QueueRetired.cfg` | A player registers between the count and the retirement of an empty session: no refund. |
| `OperationsHandoff.cfg` | A remembered answer is remembered again: a game that is over is shown beyond the grace. |
| `OperationsStale.cfg` | An answer built before a start is written to the cache after its invalidation (`SeesPlaying`); a round starts between two queries: its slot is the live game and in the queue (`ShownOnce`). |
| `AccountsFail.cfg` | A device used before: the refused grant aborts the sign-in (`DenialIsRecorded`). A crash between revoking the old token and storing the new one: the session is lost (`SessionKept`). |
| `PushCap.cfg` | Two broadcasts each find the user below the cap, and pass it together (`MarketingCapKept`); two approvals of one deposit each find that its user was not told, and both tell (`PersonalToldOnce`). |

### Bounds

* `Round`: two cartelas, two or three balls. With two cartelas there are a winner and a
  loser, two winners, a winner and a late joiner. Two balls are enough for "not yet,
  won, exhausted"; the third separates winning before the last ball from winning with it.
  Two requests per cartela at most; the third request of `RoundAuto` is a retry of
  the first. Interference between claims goes through one session row and the claimed
  cartela, so two concurrent claims of each kind meet every test.
* Deadlines of one unit: not yet due, due, and (for the window) past its
  grace. `RoundCountdown` uses two, because a countdown of one cannot be cut.
* `Review`: two claims of one cartela and one of the other, so that a decision meets another
  of the same cartela and of another.
* `Rules`: one starting board lacks a single number, so that every rule is won on it; two lack up to five, with
  shapes of different kinds nearly complete. The lacking numbers are called in every order, and with them a number
  that the cartela does not have.
* `Payments`: three submissions of one receipt, two of one user and one of another, so
  that after a rejection there is one left. Amounts 1 and 2 from a balance of
  2, so that not every withdrawal is covered at every moment.
* `Registration`: one player wants three cartelas and has one bonus cartela and
  money for two, so that one request is paid in both kinds and by several
  ledger rows; the other wants two of the same cartelas and has money for one,
  so that a bulk registration stops in the middle. One switch of mode and one
  other session suffice to take the deadline away at each step of the tick.
* `Queue`: `MaxOperations` = 1 operation of the administrator, of any kind, at any moment, and all that follows
  from it; two slots give a head and one behind it, three identities of
  sessions (used again) one that is played, one that is open, one that is being opened. `Asked` limits
  first registrations for a slot without a session to the first of the queue, the page that shows it. `Queue.cfg` has a VIEW: `Seen` leaves
  out what no action reads before it is written again, the contents of rows that are free and deadlines of sessions
  that do not wait any more, so that states it identifies have the same continuations. Two operations, of which one reorders and one starts, are what makes two
  slots live (`QueueTwoLive.cfg`); `OneLivePerSlot` and `OpenersOpenOne` are proved for any number of operations.
* `Operations`: one request at a time (requests meet only in the caches, which outlive
  them), three changes (an end, an opening and a start fit between its queries), `MaxBuild` = 0: an answer is built within one tick of the
  clock, the times at which something expires being one tick; two ticks are enough for every entry to expire.
* `Accounts`: two clients share the device; `MaxRequests` = 3 allows a sign-up, one by the other client and a
  repetition, `MaxTokens`, `MaxChallenges` = 2 an old and a new one of each. `Bonus` = 10 as in the code.
* `Push`: limits of one, so that two notifications meet them; two dispatches at a time; one device that
  two users may register in turn; one tick, which ends a window. `Loads` bounds how often each notification is dispatched:
  in one load a broadcast twice and all others once, in the other the personal one three times, that is once more than
  dispatches can overlap, beside one broadcast.
* `Failures` fails any step any number of times; nothing else is bounded, and no run uses a state
  constraint. Symmetry is used in `Queue` (identities of sessions), `Accounts` (clients) and `Push` (senders,
  users), where nothing distinguishes them and only safety is checked.

### Fairness

* Weak fairness of a transaction once begun (`ClaimStep`, `RegisterWrite`,
  `ConfirmWrite`, `TransactionStep`): it ends, by a commit or by the database's time-out. Nothing is
  assumed of players, operators or failures.
* Weak fairness of the jobs (`AutoCall`, `FinalizeWindow`, `Scheduler`, the expirer; `TickStep`,
  `EndBegin` and `EndCommit` of `Queue`): they are `setInterval` ticks.
* `AdminStep`: an administrator's request that has begun runs to its end; none need ever begin. Fairness of `Queue`
  is that of the steps that leave `asked` alone, so no player need come either.
* `Tick`, `DeadlinePasses`, `ReviewOver`: time passes. `LiveEnds`: the round of another slot ends (which
  is what `EveryRoundEnds` shows of one round; `EndBegin` assumes the same).
* Strong fairness of `CountPlayers` and of `SkipSession \/ AutoStart`: a tick that
  fails each time at the same point would keep a session for ever; the retries are
  independent, so not all of them fail.
* `AutoSpec` adds to `Spec` that the call that starts a round (milliseconds) is over before
  the job's first draw (seconds later) and before anyone has a pattern to claim.

`CHECK_DEADLOCK FALSE` is set for `Payments`, `Review`, `Operations`, `Accounts` and `Push`: there all requests may
have been decided, or the bound on them reached. It is also set for `Queue`, where the bound is `Sessions`: sessions
of a slot that was removed stay READY for ever and keep their identities, and a transaction that needs another finds
none. Rounds, registrations and `QueueLive`, where identities suffice, are checked for deadlock.

## 4. Proofs

`RoundProofs` proves, for every set of cartelas (finite), balls, patterns, requests,
every duration, every set of operator actions, with and without failures, from
`RoundAssumption` alone:

* `TypeCorrect`: `Spec => []TypeOK`. The type invariant is inductive by itself.
* `Invariant`: `Spec => []IInv`, where `IInv` is `TypeOK` and `Safe`.
* `WonRounds`, `WindowHasWinner`, `PaidOnce`, `Refunds`, `Verdicts`: the safety
  invariants the runs check, from `IInv`.
* `Final`: the action property `TerminalIsFinal`.
* `AllWonOnLastBall` (`WonOnLastBall`): without operators and with a prompt start (`AutoSpec`), also when steps fail. A claim
  has the lock of the session from its pause to its verdict, or found nothing to pause, and then calling never resumes
  (`HeldBack`, `StaysOver`); the job draws only with that lock free (`WhoDraws`). A cancelled or ended round needs no case of
  its own: a round that is being called has no winner, by `WonRounds`.

Why `Safe` is needed: a claim that passed its time test writes WINNER later, whatever the
session has become. That winners exist only in won rounds holds nevertheless,
since a window, once open, can only become FINISHED: neither cancellation nor
the end of the balls touches it. `JoinsWonRound` says so of the claims that are in that
gap. Its conjunct `CancelledTogether` makes the refunds of a cancellation complete, and
`VerdictsMatch` ties the claims to the cartelas, by which a second verdict is seen to
be refused by the conditional update of the cartela. The same gap, in which a join
can still follow the payment, is what `RoundLateJoin.cfg` exhibits: paying *once* is
provable, paying *everybody* is false. One lemma per group of actions (`ClaimSafe`, `DrawingFrame`,
`CancelSafe`, `PaySafe`, `NoWinnerSafe`) has one step per action; `SafeFrame` and `SafeTxOnly` cover all
steps that leave status, cartelas, claims and ledger alone.

`ClaimsProofs` proves, for any catalogue of rules that are `PlayableRules`, any numbers called before and every order of the
next ones, all four properties that `Rules.cfg` checks: `PlayedByTheRule` (`WinsByTheRule`), `WinningNumberIsInTime`
(`WinningNumberCounts`), `WinsAreKept` (`WinStays`) and `LaterShapesCount` (`LaterShapeCounts`).

* `PlayableRules` is a hypothesis because two rules of the program do not satisfy it: they ask for *two* shapes of a group that is to be
  kept apart from itself, and the solver compares new shapes only with those chosen before. For these `RulesOwnGroup.cfg` finds
  `WinsByTheRule` violated. TLC evaluates `MCPlayable`: all other rules of the table satisfy it.
* The solver is a recursion over requirements, and its choices a recursion over their number. The provers have no induction, but
  well-founded relations have least elements: from that come `LeastNumber` and `Upwards`, and by them `Combinations` (the
  choices are the subsets of the size asked for) and `AllSelections` (what the solver finds is the set `Selected`,
  which is written without recursion: one choice for each requirement, each fitting what was chosen before).
* `WinningProves` (what is found satisfies the rule as it reads) and `ProvesWinning` (shapes that satisfy it can be assigned to the
  requirements so that the solver finds them) are the two halves of `WinsByTheRule`. `MinimumRule` is the shortcut of the code: for
  rules without overlap tests, enough shapes of each kind is the same as a combination.
* `WinsMore` (what is found stays findable with a number more) and `NewlyWins` (a combination that was not there before uses the latest number,
  and is then the one preferred) carry the three action properties.

It also proves `PaidOnce`, `Refunds` and `Verdicts` of `Review` for any cartelas and claims, from
`ReviewAssumption`. A round may be reopened here, so its status proves nothing; the invariant rests on what is never
taken back: the winner's id on the session, which the first payment sets and every other one tests, the status of
a cartela, which leaves REGISTERED once, and claims, which are decided once.

`PushProofs` proves `NobodyIsToldTwice`, that is `Spec => []ToldOnce`, for any users, devices, notifications,
limits, windows, loads and number of concurrent dispatches. `ToldOnce` is not inductive: a
dispatch sends long after it has reserved, to devices that may have changed hands.

* Of a reserved notification `IInv` says that a user a
  dispatch may still send to is owned by it alone (`OneOwner`), that owning leaves a row in the log, which no later
  dispatch misses (`OwnersLog`), that an owner who has not sent
  has not told (`NotYetTold`), and that being told leaves the same row (`ToldIsLogged`). `KeepsOwnership` covers every step that
  sends and reserves nothing; `Reserving` and `Sending` are the two that matter.
* A personal one is logged only after it was sent, and nothing bounds how often it is dispatched. What is left is `Counted`: until
  the row is there, every dispatch that has told the user is still under way, to record it (`Holding`); from then on only those
  that had found no row can tell (`Bound`), and these and the times told together are no more than the senders. Every step
  is `Quiet` or `Tells` for a user and a notification (`QuietBefore`, `QuietRecord`, `Telling`), and `Counting` does the sums. A
  dispatch that was cut short between sending and recording leaves no row: of personal ones the theorem speaks
  while none was. That they are told *once* is false (`PushCap.cfg`).

It also proves `LimitsPassedByOneEach`, that is `Spec => []LimitsNearlyKept`, for finitely many concurrent dispatches.
A dispatch that has passed a limit for a user will write one row of the log, and it passes only while there is room; so `Limited`
counts rows of the window and dispatches past the limit *together*: fewer than the limit plus one for each dispatch. `GlobalLimited`, `MarketingLimited` (a dispatch joins) and `Logging` (it turns into a row) are the steps
that matter; the marketing limits, the global one and the kinds of notification are values of one `Limits`.

`PaymentsProofs` proves for any users, receipts, submissions, withdrawals, amounts and administrators:

* `WellTyped`, `LedgerExplains`, `DecidedOnce` (`SettledAsDecided`), from the inductive invariant `IInv`. It adds to these
  that a withdrawal not yet requested has no hold in the ledger, that a deposit exists
  only for a submission that is done, that a receipt has one active deposit, and that an administrator has read a
  row that is there. No movement is repeated because the ledger is unique in
  user, type and reference; what is left to show is that the type of a movement tells what was decided.
* `HeldMoneyIsLocked` (`HeldIsLocked`): the money locked in a wallet is what the user's undecided withdrawals hold. It
  counts the units of these withdrawals, so that a request adds, and a settlement removes, disjoint units of the wallet it moves.
  At the start the locked money is that of withdrawals approved before payment became part of
  approving (`PaymentsAssumption`).
* `RejectionIsFinal` (`RejectionStands`) and `OneCreditStands` (`OneStandingCredit`), for any number of administrators, all of whom may
  decide any deposit. A rejection writes over an approval that came after its read, so that neither "credited if and only if approved" nor
  "a receipt is credited once" holds (`PayRejectRace.cfg`). What holds is what one step may do to one deposit (`Fate`): it is credited in the
  step that makes it APPROVED, from PENDING or new, or not at all. From that come `DInv` (APPROVED is credited, credited
  is APPROVED or was rejected since) and, with the index on active receipts (`IInv`), both properties.
* `ImplementsEscrow`: `Spec => EscrowSpec`. `FundsMove` says what a movement does to the free
  funds of the abstraction and `Held` what its holds are; `DepositEarns`, `RequestHolds` and `SettlePays` map
  the three kinds of steps that it sees, all others stutter.

`RegistrationProofs` proves for any players, cartelas (finitely many), requests, holds, fees, durations, failures:

* `PrizeIsItsShares`, `PaidInFull`, `HoldsBecomeRegistrations` and `LedgerExplains`: all the invariants that
  `RegSafety.cfg` checks, and `SkippedWhenEmpty`, its action property.
* None of them is inductive by itself, because a transaction writes what it has planned when it took the lock. `Locked`
  says what the session's lock keeps: while a transaction has it, the session is not cancelled, the cartelas it will register are
  free, and the holds it will confirm are its caller's. What has become of these holds is *not* kept, which is why
  `ConfirmedStays` fails (`RegRaces.cfg`) and `ConfirmedOwns` is proved.
* `Entering` and `Charging` describe a registration of several cartelas paid in both kinds (`ByBonus`, then `ByMoney`), from
  lemmas that count distinct elements of a sequence; `Balanced` and `Cancelling` carry the sums over; `BookedFees` and `Joined` are the
  rows of the ledger, each written from the balance that the one before it left. `Quiet` covers all steps that move
  neither money nor the lock.

`AccountsProofs` proves `BonusGivenOnce`, that is `Spec => []BonusOnce`, for any phones, clients, devices and limits, and with
restarts between any two steps. A transaction works out an amount, inserts a grant and writes the wallet in
separate steps. The invariant says of every transaction whether it has inserted a grant and of which amount
(`GrantsOwned`), that the phone it signs up is nobody else's (`SignUpsApart`), and that the wallets agree with the
grants *committed* (`WalletAgrees`). A device's second bonus is refused by the unique index on granted devices
(`GrantsUnique`), whatever was read before; the look-up that precedes it plays no part in the proof.

`QueueProofs` proves for any slots, sessions, rules and orders, whatever the administrator uses and players ask for:

* `TypeCorrect` and `NeverBack` (the action property `RemovedStays`), from `IInv`: no two transactions hold the same slot
  (`SlotLocks`), a slot that is being started waits in the queue whatever else is under way (`StartsQueued`), and the
  advisory lock is held only by a transaction about to use it (`PlanOwned`). Twenty actions with their shared helpers would
  mean hundreds of cases; `Footprints` shows once that every step leaves the footprint of one transaction (which slots it writes, which locks it
  takes, how its own place changes) or is one of the few from outside, and each invariant is kept by footprints.
* `OpenersNeverTwice` (`OpenersOpenOne`), with players' first requests and all operations of the administrator. The advisory lock orders the
  openers of ticks, starts, ends and cancellations; whoever has it closes what is open before it opens (`WillClose`), and `OpenedInv` says so
  of the plan under way. The property counts the registrations that *openers* opened (`opened`): a player's first request opens a session without the
  lock, and beside it a second registration may be open. A removal hides the session of the removed slot from the
  openers, and it no longer counts.
* `NoSlotTwice` (`OneLivePerSlot`), with scheduler and administrator starting. A start looks for live sessions with its slot locked, and
  the session it has chosen stays one of that slot (`StartsOwn`); while it is under way nothing else makes a session of that slot live
  (`LiveInv`). Two *slots* can be live: no start locks the queue (`QueueTwoLive.cfg`).

`OperationsProofs` proves all that `Operations.cfg` checks, for any (finitely many) slots, any requests at a time, cache keys and durations:
`GameIsShown` (`ShowsTheGame`), `SlotsPlacedOnce` (`EachSlotOnce`), `StaleBriefly` (`StaleOnlyBriefly`) and `TypeCorrect`.

* An answer is half built most of the time, so the invariant says for every place a request may be in what its reads are still worth:
  `Shows` (a session that was there all the time is in play, or among the open ones already read, or has been found), `Same` (while
  nothing has changed, what was read is what there is, and `Exact` from the moment it is sorted), `Fresh` (what it holds
  was not over before the request began). `CacheFresh` says the last of the cache, whose entry was built at most `MaxBuild` before it was stored.
* Every change of the rows has the shape `RowsChange`: what is open was open, what is in play was open or in play in the same
  session, and what is over since is over now. `Survives` is the one lemma that carries all requests over such a change; `Selecting`, `Spotted`,
  `ClaimedFound`, `TerminalFound` and `Recovering` are the steps of a request.
* That one session is played at a time is part of the invariant (`OneActive`), from the test of `Start` alone.

To check: `tlapm RoundProofs.tla`, and so on.

Every safety invariant and action property of a passing run is also a theorem, within the hypotheses named above. Model-checked only: liveness
(fairness is outside the prover), on the instances named. The
type invariants of modules whose runs do not list `TypeOK` hold in the same instances; they are left
out of the runs because no fault worth considering breaks them first.

## 5. Not modelled

* `Registration`: BONUS and BIG slots, where entry is free or the prize fixed; the limit of cartelas of
  a player; bulk reservations. They change amounts and tests of one request, not its steps.
* `prize-split.util.ts`: the cents of the shares. A function of a few lines without state.
* `operationsVersion` and the other reads of `games.service.ts`: projections of rows; the batch of
  cartela updates in `realtime` groups events and loses none that a client does not ask for again.
* Access tokens, the administration of users and the limits per action: single updates and checks of a request. The
  counter of the limiter itself is in `Accounts`.
* When reminders are due (`big-game-push-reminder.service.ts`): `Push` lets a notification be dispatched at any time, and again.
* Projections and reports, single configuration rows, support messages, leaderboard, retention, seeds,
  logging: no protocol to get wrong. The clients of SMS, push and receipt services: their answers are free
  choices of the models that use them.

One server process is assumed, as the in-memory caches and intervals of the code assume it; the
database's row locks and unique indexes would hold across several, and the models use nothing
else.
