------------------------------ MODULE Payments ------------------------------
(***************************************************************************)
(* Money in and out: deposits (deposits.service.ts) and withdrawals        *)
(* (withdrawals.service.ts) over the wallets.                              *)
(*                                                                         *)
(* A submission is one call of createDeposit: it looks for an active       *)
(* deposit of the same receipt, has the receipt verified (the verification *)
(* service may answer anything), and inserts a row, which the partial      *)
(* unique index on active receipts may refuse.  Administrators decide      *)
(* deposits and withdrawals: each call is a transaction that reads the row *)
(* and then writes it.  Its update takes the row's lock and holds it until *)
(* the commit, so that update, movement of money and commit are one step,  *)
(* while what was read may be stale by then.                               *)
(***************************************************************************)
EXTENDS Wallet, FiniteSets

CONSTANTS
    Submissions,    \* calls of createDeposit; also the id of the row inserted
    Receipts,       \* provider and transactionRef, normalised
    ReceiptOf,      \* the receipt of a submission
    Withdrawals,    \* withdrawal requests
    Legacy,         \* those approved before approving also paid
    OwnerOf,        \* the user of a submission or withdrawal
    AmountOf,       \* the amount of a submission or withdrawal
    Admins          \* administrators, each with one transaction at a time

\* The money of some withdrawals, unit by unit.
Units(ws) == UNION {{w} \X (1..AmountOf[w]) : w \in ws}

ASSUME PaymentsAssumption ==
    /\ ReceiptOf \in [Submissions -> Receipts]
    /\ Legacy \subseteq Withdrawals
    /\ Submissions \cap Withdrawals = {}
    /\ OwnerOf \in [Submissions \cup Withdrawals -> Users]
    /\ AmountOf \in [Submissions \cup Withdrawals -> Nat \ {0}]
    /\ IsFiniteSet(Legacy)
    /\ \A u \in Users :
         Opening[u].locked = Cardinality(Units({w \in Legacy : OwnerOf[w] = u}))

VARIABLES
    submission,     \* where each call of createDeposit is
    deposit,        \* status of each Deposit row
    withdrawal,     \* status of each Withdrawal row
    admin           \* the row each administrator's transaction has read

vars == <<walletVars, submission, deposit, withdrawal, admin>>

-----------------------------------------------------------------------------
DepositStatus == {"PENDING", "APPROVED", "REJECTED"}
WithdrawStatus == {"PENDING", "APPROVED", "PAID", "REJECTED"}

Idle == [op |-> "idle"]
DepositOps == [op : {"approveDeposit", "rejectDeposit"}, id : Submissions]
WithdrawalOps == [op : {"approveWithdrawal", "rejectWithdrawal",
                        "markWithdrawalPaid"}, id : Withdrawals]

Init ==
    /\ InitWallet
    /\ submission = [s \in Submissions |-> "new"]
    /\ deposit = [s \in Submissions |-> "none"]
    /\ withdrawal = [w \in Withdrawals |->
                        IF w \in Legacy THEN "APPROVED" ELSE "none"]
    /\ admin = [a \in Admins |-> Idle]

\* findActiveDepositByReference
Active(receipt) ==
    {s \in Submissions : ReceiptOf[s] = receipt
                         /\ deposit[s] \in {"PENDING", "APPROVED"}}

-----------------------------------------------------------------------------
(* Deposits.                                                               *)

\* ensureReferenceAvailable: the caller gets the active deposit if it is its
\* own, an error if it is another user's.
SubmitDeposit(s) ==
    /\ submission[s] = "new"
    /\ submission' = [submission EXCEPT ![s] =
                        IF Active(ReceiptOf[s]) = {} THEN "verify" ELSE "done"]
    /\ UNCHANGED <<walletVars, deposit, withdrawal, admin>>

\* The receipt is not accepted: no row is inserted.
RefuseReceipt(s) ==
    /\ submission[s] = "verify"
    /\ submission' = [submission EXCEPT ![s] = "done"]
    /\ UNCHANGED <<walletVars, deposit, withdrawal, admin>>

\* Faulty variant: no unique index.
InsertableAnyway(s) == s \in Submissions

\* The unique index on the receipts of active deposits.
Insertable(s) == Active(ReceiptOf[s]) = {}

\* createManualPendingDeposit
CreatePending(s) ==
    /\ submission[s] = "verify"
    /\ submission' = [submission EXCEPT ![s] = "done"]
    /\ deposit' = IF Insertable(s) THEN [deposit EXCEPT ![s] = "PENDING"]
                  ELSE deposit
    /\ UNCHANGED <<walletVars, withdrawal, admin>>

\* createApprovedDeposit: the row and the money, or neither.
CreateApproved(s) ==
    /\ submission[s] = "verify"
    /\ submission' = [submission EXCEPT ![s] = "done"]
    /\ IF Insertable(s)
       THEN /\ deposit' = [deposit EXCEPT ![s] = "APPROVED"]
            /\ Mutate(OwnerOf[s], "CREDIT", "DEPOSIT", s, AmountOf[s])
       ELSE UNCHANGED <<walletVars, deposit>>
    /\ UNCHANGED <<withdrawal, admin>>

-----------------------------------------------------------------------------
(* Withdrawals.                                                            *)

\* createWithdrawal, of an amount the balance covers.
RequestWithdrawal(w) ==
    /\ withdrawal[w] = "none"
    /\ Covered(OwnerOf[w], "HOLD", AmountOf[w])
    /\ withdrawal' = [withdrawal EXCEPT ![w] = "PENDING"]
    /\ Mutate(OwnerOf[w], "HOLD", "WITHDRAW_REQUEST", w, AmountOf[w])
    /\ UNCHANGED <<submission, deposit, admin>>

-----------------------------------------------------------------------------
(* Administrators.                                                         *)

\* Faulty variant: a deposit can still be rejected when it is approved.
AcceptsLateReject(call) ==
    CASE call.op = "approveDeposit" -> deposit[call.id] = "PENDING"
      [] call.op = "rejectDeposit" ->
           deposit[call.id] \in {"PENDING", "APPROVED"}
      [] call.op \in {"approveWithdrawal", "rejectWithdrawal"} ->
           withdrawal[call.id] = "PENDING"
      [] call.op = "markWithdrawalPaid" -> withdrawal[call.id] = "APPROVED"

\* The statuses an operation accepts when it reads the row.
Accepts(call) ==
    CASE call.op \in {"approveDeposit", "rejectDeposit"} ->
           deposit[call.id] = "PENDING"
      [] call.op \in {"approveWithdrawal", "rejectWithdrawal"} ->
           withdrawal[call.id] = "PENDING"
      [] call.op = "markWithdrawalPaid" -> withdrawal[call.id] = "APPROVED"

\* The calls an administrator makes.
Calls == WithdrawalOps \cup DepositOps

\* The transaction reads the row.  A call that finds another status throws, or
\* returns an approved deposit as it is.
Open(a, call) ==
    /\ admin[a] = Idle
    /\ Accepts(call)
    /\ admin' = [admin EXCEPT ![a] = call]
    /\ UNCHANGED <<walletVars, submission, deposit, withdrawal>>

\* The transaction ends, by its commit or by an error.
Close(a) == admin' = [admin EXCEPT ![a] = Idle]

\* Faulty variant: the update of the approval is not conditional either.
ApproveDepositUnguarded(a) ==
    LET s == admin[a].id
    IN  /\ admin[a].op = "approveDeposit"
        /\ deposit' = [deposit EXCEPT ![s] = "APPROVED"]
        /\ Mutate(OwnerOf[s], "CREDIT", "DEPOSIT", s, AmountOf[s])
        /\ Close(a)
        /\ UNCHANGED <<submission, withdrawal>>

\* approveDepositRecord: the update is conditional on what was read.
ApproveDeposit(a) ==
    LET s == admin[a].id
    IN  /\ admin[a].op = "approveDeposit"
        /\ IF Accepts(admin[a])
           THEN /\ deposit' = [deposit EXCEPT ![s] = "APPROVED"]
                /\ Mutate(OwnerOf[s], "CREDIT", "DEPOSIT", s, AmountOf[s])
           ELSE UNCHANGED <<walletVars, deposit>>
        /\ Close(a)
        /\ UNCHANGED <<submission, withdrawal>>

\* rejectDeposit: the update is not.
RejectDeposit(a) ==
    /\ admin[a].op = "rejectDeposit"
    /\ deposit' = [deposit EXCEPT ![admin[a].id] = "REJECTED"]
    /\ Close(a)
    /\ UNCHANGED <<walletVars, submission, withdrawal>>

\* Faulty variant: the update of the withdrawal is not conditional.
SettleUnguarded(a, op, status, mode, type) ==
    LET w == admin[a].id
    IN  /\ admin[a].op = op
        /\ IF Covered(OwnerOf[w], mode, AmountOf[w])
           THEN /\ withdrawal' = [withdrawal EXCEPT ![w] = status]
                /\ Mutate(OwnerOf[w], mode, type, w, AmountOf[w])
           ELSE UNCHANGED <<walletVars, withdrawal>>
        /\ Close(a)
        /\ UNCHANGED <<submission, deposit>>

\* What the three operations on withdrawals have in common: the conditional
\* update of the row, and the movement of the money it holds.
Settle(a, op, status, mode, type) ==
    LET w == admin[a].id
    IN  /\ admin[a].op = op
        /\ IF Accepts(admin[a]) /\ Covered(OwnerOf[w], mode, AmountOf[w])
           THEN /\ withdrawal' = [withdrawal EXCEPT ![w] = status]
                /\ Mutate(OwnerOf[w], mode, type, w, AmountOf[w])
           ELSE UNCHANGED <<walletVars, withdrawal>>
        /\ Close(a)
        /\ UNCHANGED <<submission, deposit>>

ApproveWithdrawal(a) ==
    Settle(a, "approveWithdrawal", "PAID", "CONSUME", "WITHDRAW_PAID")
RejectWithdrawal(a) ==
    Settle(a, "rejectWithdrawal", "REJECTED", "RELEASE", "WITHDRAW_REFUND")
MarkWithdrawalPaid(a) ==
    Settle(a, "markWithdrawalPaid", "PAID", "CONSUME", "WITHDRAW_PAID")

-----------------------------------------------------------------------------
Next ==
    \/ \E s \in Submissions :
         SubmitDeposit(s) \/ RefuseReceipt(s) \/ CreatePending(s)
           \/ CreateApproved(s)
    \/ \E w \in Withdrawals : RequestWithdrawal(w)
    \/ \E a \in Admins :
         \/ \E call \in Calls : Open(a, call)
         \/ ApproveDeposit(a) \/ RejectDeposit(a)
         \/ ApproveWithdrawal(a) \/ RejectWithdrawal(a) \/ MarkWithdrawalPaid(a)

Spec == Init /\ [][Next]_vars

-----------------------------------------------------------------------------
TypeOK ==
    /\ WalletTypeOK
    /\ submission \in [Submissions -> {"new", "verify", "done"}]
    /\ deposit \in [Submissions -> DepositStatus \cup {"none"}]
    /\ withdrawal \in [Withdrawals -> WithdrawStatus \cup {"none"}]
    /\ \A a \in Admins : admin[a] \in {Idle} \cup Calls

HeldOf(u) == {w \in Withdrawals :
                OwnerOf[w] = u /\ withdrawal[w] \in {"PENDING", "APPROVED"}}

\* The money a wallet holds back is the money of its undecided withdrawals,
\* whatever administrators decide at the same time.
HeldIsLocked == \A u \in Users : wallet[u].locked = Cardinality(Units(HeldOf(u)))

\* A withdrawal is settled as it was decided, once: the ledger has its payment
\* exactly if it is PAID, its refund exactly if it is REJECTED.
SettledAsDecided ==
    \A w \in Withdrawals :
        /\ (withdrawal[w] = "PAID") <=> Recorded(OwnerOf[w], "WITHDRAW_PAID", w)
        /\ (withdrawal[w] = "REJECTED") <=>
             Recorded(OwnerOf[w], "WITHDRAW_REFUND", w)

\* The money of a deposit is in its owner's wallet.
Credited(s) == Recorded(OwnerOf[s], "DEPOSIT", s)

\* "Deposit cannot be approved" once it was rejected, not by an administrator
\* either who read it as PENDING before: nothing is credited for it any more
\* (the conditional update of approveDepositRecord).
RejectionStands ==
    [][\A s \in Submissions : deposit[s] = "REJECTED" =>
         /\ deposit'[s] = "REJECTED"
         /\ Credited(s)' => Credited(s)]_vars

\* Of all submissions of a receipt, whoever makes them and however often, one at
\* most is credited and not rejected.  A second one can be credited only when a
\* rejection was written over the approval of the first, which frees the receipt
\* (rejectDeposit).
OneStandingCredit ==
    \A s, t \in Submissions :
        /\ ReceiptOf[s] = ReceiptOf[t]
        /\ Credited(s) /\ Credited(t)
        /\ "REJECTED" \notin {deposit[s], deposit[t]}
        => s = t

\* "This receipt has already been used" promises more, and the code does not
\* keep it: no receipt is credited twice.
ReceiptCreditedOnce ==
    \A s, t \in Submissions :
        ReceiptOf[s] = ReceiptOf[t] /\ Credited(s) /\ Credited(t) => s = t

\* A withdrawal is an escrow of its user's money: it is held once and then
\* either paid or returned.
HeldState(w) ==
    CASE withdrawal[w] = "none" -> "none"
      [] withdrawal[w] \in {"PENDING", "APPROVED"} -> "held"
      [] withdrawal[w] = "PAID" -> "paid"
      [] withdrawal[w] = "REJECTED" -> "returned"
E == INSTANCE Escrow WITH
        Owners <- Users,
        Holds <- Withdrawals,
        OwnerOf <- [w \in Withdrawals |-> OwnerOf[w]],
        AmountOf <- [w \in Withdrawals |-> AmountOf[w]],
        funds <- [u \in Users |-> wallet[u].balance],
        state <- [w \in Withdrawals |-> HeldState(w)]

\* Deposits and withdrawals, however they interleave, implement the escrow.
EscrowSpec == E!Spec
=============================================================================
