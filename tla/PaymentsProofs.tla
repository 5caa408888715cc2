--------------------------- MODULE PaymentsProofs ---------------------------
(***************************************************************************)
(* Proofs about Payments, for any users, receipts, submissions and         *)
(* withdrawals, any amounts and any administrators.                        *)
(*                                                                         *)
(* A movement of money is made at most once because the ledger is unique   *)
(* in user, type and reference: that a decision moves money exactly then   *)
(* needs to be known of the ledger before, so the statuses of the rows and *)
(* what the ledger records of them are proved together.                    *)
(***************************************************************************)
EXTENDS Payments, FiniteSetTheorems, TLAPS

References == Submissions \cup Withdrawals
WalletRow == [balance : Nat, locked : Nat, bonus : Nat]
LedgerRow == [type : TransactionType, ref : References, amount : Nat, before : Int, after : Nat]

MoneyTyped == wallet \in [Users -> WalletRow] /\ ledger \in [Users -> Seq(LedgerRow)]
RowsTyped ==
    /\ submission \in [Submissions -> {"new", "verify", "done"}]
    /\ deposit \in [Submissions -> DepositStatus \cup {"none"}]
    /\ withdrawal \in [Withdrawals -> WithdrawStatus \cup {"none"}]
AdminTyped == admin \in [Admins -> {Idle} \cup WithdrawalOps \cup DepositOps]
Typed == MoneyTyped /\ RowsTyped /\ AdminTyped

\* A withdrawal that was not requested has no hold in the ledger.
RequestRecorded ==
    \A w \in Withdrawals :
        withdrawal[w] = "none" => ~ Recorded(OwnerOf[w], "WITHDRAW_REQUEST", w)

\* The row of a submission is inserted when it is done, and at most one active
\* row has its receipt.
InsertedWhenDone == \A s \in Submissions : submission[s] # "done" => deposit[s] = "none"
OneActive ==
    \A s, t \in Submissions :
        /\ ReceiptOf[s] = ReceiptOf[t]
        /\ {deposit[s], deposit[t]} \subseteq {"PENDING", "APPROVED"}
        => s = t

\* Deposits that administrators have read are there: rows are never deleted.
ReadIsThere ==
    \A a \in Admins : admin[a] \in DepositOps => deposit[admin[a].id] # "none"

IInv == Typed /\ LedgerChains /\ SettledAsDecided /\ RequestRecorded
          /\ InsertedWhenDone /\ OneActive /\ ReadIsThere

-----------------------------------------------------------------------------
(* Movements of money.                                                     *)

Modes == {"CREDIT", "DEBIT", "HOLD", "RELEASE", "CONSUME"}

\* A covered movement leaves a wallet that is not overdrawn, and the balance
\* before is worked out of the balance after.
LEMMA CoveredPlan ==
    ASSUME NEW w \in WalletRow, NEW mode \in Modes, NEW amount \in Nat,
           mode \in {"DEBIT", "HOLD"} => w.balance >= amount,
           mode \in {"RELEASE", "CONSUME"} => w.locked >= amount
    PROVE  /\ Plan(w, mode, amount) \in WalletRow
           /\ BalanceBefore(Plan(w, mode, amount), mode, amount) = w.balance
<1>1. CASE mode = "CREDIT"
  <2>1. Plan(w, mode, amount) = [w EXCEPT !.balance = @ + amount]
    BY <1>1 DEF Plan
  <2> QED
    BY <1>1, <2>1 DEF BalanceBefore, WalletRow
<1>2. CASE mode = "DEBIT"
  <2>1. Plan(w, mode, amount) = [w EXCEPT !.balance = @ - amount]
    BY <1>2 DEF Plan
  <2> QED
    BY <1>2, <2>1 DEF BalanceBefore, WalletRow
<1>3. CASE mode = "HOLD"
  <2>1. Plan(w, mode, amount) = [w EXCEPT !.balance = @ - amount, !.locked = @ + amount]
    BY <1>3 DEF Plan
  <2>2. Plan(w, mode, amount) \in WalletRow /\ Plan(w, mode, amount).balance = w.balance - amount
    <3>1. w.balance - amount \in Nat /\ w.locked + amount \in Nat /\ w.bonus \in Nat
      BY <1>3 DEF WalletRow
    <3>2. Plan(w, mode, amount) = [balance |-> w.balance - amount, locked |-> w.locked + amount,
                                   bonus |-> w.bonus]
      BY <2>1 DEF WalletRow
    <3> QED
      BY <3>1, <3>2 DEF WalletRow
  <2>3. BalanceBefore(Plan(w, mode, amount), mode, amount) = Plan(w, mode, amount).balance + amount
    BY <1>3 DEF BalanceBefore
  <2> QED
    BY <2>2, <2>3 DEF WalletRow
<1>4. CASE mode = "RELEASE"
  <2>1. Plan(w, mode, amount) = [w EXCEPT !.balance = @ + amount, !.locked = @ - amount]
    BY <1>4 DEF Plan
  <2>2. Plan(w, mode, amount) \in WalletRow /\ Plan(w, mode, amount).balance = w.balance + amount
    <3>1. w.balance + amount \in Nat /\ w.locked - amount \in Nat /\ w.bonus \in Nat
      BY <1>4 DEF WalletRow
    <3>2. Plan(w, mode, amount) = [balance |-> w.balance + amount, locked |-> w.locked - amount,
                                   bonus |-> w.bonus]
      BY <2>1 DEF WalletRow
    <3> QED
      BY <3>1, <3>2 DEF WalletRow
  <2>3. BalanceBefore(Plan(w, mode, amount), mode, amount) = Plan(w, mode, amount).balance - amount
    BY <1>4 DEF BalanceBefore
  <2> QED
    BY <2>2, <2>3 DEF WalletRow
<1>5. CASE mode = "CONSUME"
  <2>1. Plan(w, mode, amount) = [w EXCEPT !.locked = @ - amount]
    BY <1>5 DEF Plan
  <2> QED
    BY <1>5, <2>1 DEF BalanceBefore, WalletRow
<1> QED
  BY <1>1, <1>2, <1>3, <1>4, <1>5 DEF Modes

\* What a movement adds to the ledger is one row, unless it is there already.
LEMMA Movement ==
    ASSUME MoneyTyped, NEW u \in Users, NEW mode \in Modes, NEW type \in TransactionType,
           NEW ref \in References, NEW amount \in Nat, Covered(u, mode, amount),
           Mutate(u, mode, type, ref, amount)
    PROVE  /\ MoneyTyped'
           /\ \A v \in Users : \A t, r :
                Recorded(v, t, r)' <=> Recorded(v, t, r) \/ (v = u /\ t = type /\ r = ref)
           /\ LedgerChains => LedgerChains'
<1> DEFINE row == Row(wallet[u], mode, type, ref, amount)
           after == Plan(wallet[u], mode, amount)
<1>1. /\ after \in WalletRow
      /\ row \in LedgerRow /\ row.before = wallet[u].balance /\ row.after = after.balance
      /\ row.type = type /\ row.ref = ref
  <2>1. wallet[u] \in WalletRow
    BY DEF MoneyTyped
  <2>2. after \in WalletRow /\ BalanceBefore(after, mode, amount) = wallet[u].balance
    BY <2>1, CoveredPlan DEF Covered
  <2>3. row = [type |-> type, ref |-> ref, amount |-> amount,
               before |-> wallet[u].balance, after |-> after.balance]
    BY <2>2 DEF Row
  <2> QED
    BY <2>1, <2>2, <2>3 DEF WalletRow, LedgerRow
<1> HIDE DEF row, after
<1>2. /\ wallet \in [Users -> WalletRow]
      /\ ledger \in [Users -> Seq(LedgerRow)]
  BY DEF MoneyTyped
<1>3. CASE Recorded(u, type, ref)
  BY <1>2, <1>3 DEF MoneyTyped, Mutate, walletVars, Recorded, LedgerChains
<1>4. CASE ~ Recorded(u, type, ref)
  <2>1. /\ wallet' = [wallet EXCEPT ![u] = after]
        /\ ledger' = [ledger EXCEPT ![u] = Append(ledger[u], row)]
    BY <1>2, <1>4 DEF Mutate, row, after
  <2>2. /\ Len(ledger'[u]) = Len(ledger[u]) + 1
        /\ \A i \in 1 .. Len(ledger[u]) : ledger'[u][i] = ledger[u][i]
        /\ ledger'[u][Len(ledger[u]) + 1] = row
        /\ ledger'[u] \in Seq(LedgerRow) /\ Len(ledger[u]) \in Nat
    BY <1>1, <1>2, <2>1
  <2>3. \A v \in Users \ {u} : ledger'[v] = ledger[v] /\ wallet'[v] = wallet[v]
    BY <1>2, <2>1
  <2>4. wallet' \in [Users -> WalletRow] /\ wallet'[u] = after
    BY <1>1, <1>2, <2>1
  <2>5. ledger' \in [Users -> Seq(LedgerRow)]
    BY <1>2, <2>1, <2>2
  <2>6. \A t, r : Recorded(u, t, r)' <=> Recorded(u, t, r) \/ (t = type /\ r = ref)
    <3>1. 1 .. Len(ledger'[u]) = 1 .. Len(ledger[u]) \cup {Len(ledger[u]) + 1}
      BY <2>2
    <3>2. ASSUME NEW t, NEW r, Recorded(u, t, r)'
          PROVE  Recorded(u, t, r) \/ (t = type /\ r = ref)
      <4>1. PICK i \in 1 .. Len(ledger'[u]) : ledger'[u][i].type = t /\ ledger'[u][i].ref = r
        BY <3>2 DEF Recorded
      <4> QED
        BY <1>1, <2>2, <3>1, <4>1 DEF Recorded
    <3>3. ASSUME NEW t, NEW r, Recorded(u, t, r) PROVE Recorded(u, t, r)'
      <4>1. PICK i \in 1 .. Len(ledger[u]) : ledger[u][i].type = t /\ ledger[u][i].ref = r
        BY <3>3 DEF Recorded
      <4>2. i \in 1 .. Len(ledger'[u]) /\ ledger'[u][i] = ledger[u][i]
        BY <2>2, <3>1, <4>1
      <4> QED
        BY <4>1, <4>2 DEF Recorded
    <3>4. Recorded(u, type, ref)'
      <4>1. Len(ledger[u]) + 1 \in 1 .. Len(ledger'[u])
        BY <3>1
      <4> QED
        BY <1>1, <2>2, <4>1 DEF Recorded
    <3> QED
      BY <3>2, <3>3, <3>4
  <2>7. \A v \in Users \ {u} : \A t, r : Recorded(v, t, r)' <=> Recorded(v, t, r)
    BY <2>3 DEF Recorded
  <2>8. ASSUME LedgerChains PROVE LedgerChains'
    <3> DEFINE end(i) == IF i = 0 THEN Opening[u].balance ELSE ledger[u][i].after
    <3>1. /\ \A i \in 1 .. Len(ledger[u]) : ledger[u][i].before = end(i - 1)
          /\ wallet[u].balance = end(Len(ledger[u]))
      BY <2>8 DEF LedgerChains
    <3> DEFINE endN(i) == IF i = 0 THEN Opening[u].balance ELSE ledger'[u][i].after
    <3>2. \A i \in 0 .. Len(ledger[u]) : endN(i) = end(i)
      BY <2>2
    <3>3. endN(Len(ledger[u]) + 1) = wallet'[u].balance
      BY <1>1, <2>2, <2>4
    <3>4. \A i \in 1 .. Len(ledger'[u]) : ledger'[u][i].before = endN(i - 1)
      <4> TAKE i \in 1 .. Len(ledger'[u])
      <4>1. CASE i \in 1 .. Len(ledger[u])
        <5>1. ledger'[u][i].before = ledger[u][i].before /\ ledger[u][i].before = end(i - 1)
          BY <2>2, <3>1, <4>1
        <5>2. i - 1 \in 0 .. Len(ledger[u])
          BY <2>2, <4>1
        <5> HIDE DEF end, endN
        <5> QED
          BY <3>2, <5>1, <5>2
      <4>2. CASE i = Len(ledger[u]) + 1
        BY <1>1, <2>2, <3>1, <3>2, <4>2
      <4> QED
        BY <2>2, <4>1, <4>2
    <3> DEFINE Chains(v) ==
          /\ \A i \in 1 .. Len(ledger[v]) :
               ledger[v][i].before = IF i - 1 = 0 THEN Opening[v].balance ELSE ledger[v][i - 1].after
          /\ wallet[v].balance = IF Len(ledger[v]) = 0 THEN Opening[v].balance
                                 ELSE ledger[v][Len(ledger[v])].after
    <3>5. Chains(u)'
      BY <2>2, <3>3, <3>4
    <3>6. \A v \in Users \ {u} : Chains(v)'
      <4>1. \A v \in Users : Chains(v)
        BY <2>8 DEF LedgerChains
      <4> QED
        BY <2>3, <4>1
    <3>7. \A v \in Users : Chains(v)'
      BY <3>5, <3>6
    <3> QED
      BY <3>7 DEF LedgerChains
  <2> QED
    BY <2>4, <2>5, <2>6, <2>7, <2>8 DEF MoneyTyped
<1> QED
  BY <1>3, <1>4
-----------------------------------------------------------------------------
(* The induction.                                                          *)

LEMMA TypedRows == Typed => TypeOK
<1> SUFFICES ASSUME Typed PROVE TypeOK
  OBVIOUS
<1>1. WalletTypeOK
  <2> SUFFICES ASSUME NEW u \in Users, NEW i \in 1 .. Len(ledger[u])
               PROVE  ledger[u][i] \in LedgerRow
    BY DEF WalletTypeOK, Typed, MoneyTyped, WalletRow, LedgerRow
  <2> QED
    BY DEF Typed, MoneyTyped
<1>2. \A a \in Admins : admin[a] \in {Idle} \cup Calls
  BY DEF Typed, AdminTyped, Calls
<1> QED
  BY <1>1, <1>2 DEF TypeOK, Typed, RowsTyped

\* Whose money it is, and how much.
LEMMA Payable ==
    /\ \A x \in References : OwnerOf[x] \in Users /\ AmountOf[x] \in Nat \ {0}
    /\ Submissions \subseteq References /\ Withdrawals \subseteq References
    /\ \A s \in Submissions, w \in Withdrawals : s # w
  BY PaymentsAssumption DEF References

LEMMA InitInvariant == Init => IInv
<1> SUFFICES ASSUME Init PROVE IInv
  OBVIOUS
<1>1. \A u \in Users : \A t, r : ~ Recorded(u, t, r)
  BY DEF Init, InitWallet, Recorded
<1>2. Typed
  BY WalletAssumption, PaymentsAssumption
  DEF Typed, MoneyTyped, RowsTyped, AdminTyped, Init, InitWallet, WalletRow, Idle, DepositOps,
      DepositStatus, WithdrawStatus
<1>3. LedgerChains
  <2>1. \A u \in Users : Len(ledger[u]) = 0 /\ wallet[u].balance = Opening[u].balance
    BY DEF Init, InitWallet
  <2>2. 1 .. 0 = {}
    OBVIOUS
  <2> QED
    BY <2>1, <2>2 DEF LedgerChains
<1>4. SettledAsDecided /\ RequestRecorded
  BY <1>1, Payable DEF Init, SettledAsDecided, RequestRecorded
<1>5. InsertedWhenDone /\ OneActive /\ ReadIsThere
  BY DEF Init, InsertedWhenDone, OneActive, ReadIsThere, Idle, DepositOps
<1> QED
  BY <1>2, <1>3, <1>4, <1>5 DEF IInv

\* No money moves.
LEMMA NothingMoves ==
    ASSUME UNCHANGED walletVars
    PROVE  /\ MoneyTyped => MoneyTyped' 
           /\ \A u, t, r : Recorded(u, t, r)' <=> Recorded(u, t, r)
           /\ LedgerChains => LedgerChains'
  BY DEF walletVars, MoneyTyped, Recorded, LedgerChains

\* What concerns withdrawals only.
LEMMA WithdrawalsStay ==
    ASSUME SettledAsDecided, RequestRecorded, UNCHANGED withdrawal,
           \A u \in Users, w \in Withdrawals : \A t : Recorded(u, t, w)' <=> Recorded(u, t, w)
    PROVE  SettledAsDecided' /\ RequestRecorded'
<1> SUFFICES ASSUME NEW w \in Withdrawals
             PROVE  /\ (withdrawal'[w] = "PAID") <=> Recorded(OwnerOf[w], "WITHDRAW_PAID", w)'
                    /\ (withdrawal'[w] = "REJECTED") <=> Recorded(OwnerOf[w], "WITHDRAW_REFUND", w)'
                    /\ withdrawal'[w] = "none" => ~ Recorded(OwnerOf[w], "WITHDRAW_REQUEST", w)'
  BY DEF SettledAsDecided, RequestRecorded
<1>1. OwnerOf[w] \in Users
  BY Payable
<1>2. \A t : Recorded(OwnerOf[w], t, w)' <=> Recorded(OwnerOf[w], t, w)
  BY <1>1
<1>3. /\ Recorded(OwnerOf[w], "WITHDRAW_PAID", w)' <=> Recorded(OwnerOf[w], "WITHDRAW_PAID", w)
      /\ Recorded(OwnerOf[w], "WITHDRAW_REFUND", w)' <=> Recorded(OwnerOf[w], "WITHDRAW_REFUND", w)
      /\ Recorded(OwnerOf[w], "WITHDRAW_REQUEST", w)' <=> Recorded(OwnerOf[w], "WITHDRAW_REQUEST", w)
  BY <1>2
<1> QED
  BY <1>3 DEF SettledAsDecided, RequestRecorded

LEMMA DepositsStay ==
    ASSUME InsertedWhenDone, OneActive, UNCHANGED <<submission, deposit>>
    PROVE  InsertedWhenDone' /\ OneActive'
  BY DEF InsertedWhenDone, OneActive

\* An administrator's transaction ends.
LEMMA Closing ==
    ASSUME AdminTyped, NEW a \in Admins, Close(a)
    PROVE  /\ AdminTyped' /\ admin'[a] = Idle
           /\ \A b \in Admins \ {a} : admin'[b] = admin[b]
  BY DEF AdminTyped, Close, Idle, DepositOps

\* What an administrator's transaction has read.
LEMMA CallOf ==
    ASSUME AdminTyped, NEW a \in Admins
    PROVE  /\ admin[a].op \in {"approveDeposit", "rejectDeposit"}
                => admin[a] \in DepositOps /\ admin[a].id \in Submissions
           /\ admin[a].op \in {"approveWithdrawal", "rejectWithdrawal", "markWithdrawalPaid"}
                => admin[a] \in WithdrawalOps /\ admin[a].id \in Withdrawals
  BY DEF AdminTyped, Idle, DepositOps, WithdrawalOps

\* The money of a deposit is recorded under its own type.
LEMMA Crediting ==
    ASSUME MoneyTyped, NEW s \in Submissions,
           Mutate(OwnerOf[s], "CREDIT", "DEPOSIT", s, AmountOf[s])
    PROVE  /\ MoneyTyped' /\ (LedgerChains => LedgerChains')
           /\ \A u \in Users : \A t, r :
                Recorded(u, t, r)' <=> Recorded(u, t, r) \/ (u = OwnerOf[s] /\ t = "DEPOSIT" /\ r = s)
<1>1. /\ OwnerOf[s] \in Users /\ AmountOf[s] \in Nat /\ s \in References
      /\ "CREDIT" \in Modes /\ "DEPOSIT" \in TransactionType
      /\ Covered(OwnerOf[s], "CREDIT", AmountOf[s])
  BY Payable DEF Modes, TransactionType, Covered
<1> QED
  BY <1>1, Movement

\* Rows are not deleted, and what is read is read by `Open' only.
LEMMA ReadStays ==
    ASSUME AdminTyped, ReadIsThere,
           \A s \in Submissions : deposit[s] # "none" => deposit'[s] # "none",
           \A a \in Admins : admin'[a] = admin[a] \/ admin'[a] = Idle
    PROVE  ReadIsThere'
  BY DEF AdminTyped, ReadIsThere, Idle, DepositOps

LEMMA Inserting ==
    ASSUME RowsTyped, InsertedWhenDone, OneActive, NEW s \in Submissions,
           submission[s] = "verify", Insertable(s),
           submission' = [submission EXCEPT ![s] = "done"],
           NEW status \in {"PENDING", "APPROVED"},
           deposit' = [deposit EXCEPT ![s] = status]
    PROVE  InsertedWhenDone' /\ OneActive'
<1>1. \A t \in Submissions : ReceiptOf[t] = ReceiptOf[s] => deposit[t] \notin {"PENDING", "APPROVED"}
  BY DEF Insertable, Active
<1>2. /\ deposit'[s] = status /\ submission'[s] = "done"
      /\ \A t \in Submissions \ {s} : deposit'[t] = deposit[t] /\ submission'[t] = submission[t]
  BY DEF RowsTyped
<1> QED
  BY <1>1, <1>2 DEF InsertedWhenDone, OneActive

LEMMA Submitting ==
    ASSUME IInv, NEW s \in Submissions,
           SubmitDeposit(s) \/ RefuseReceipt(s) \/ CreatePending(s) \/ CreateApproved(s)
    PROVE  IInv'
<1>1. RowsTyped' /\ UNCHANGED <<withdrawal, admin>>
  BY DEF IInv, Typed, RowsTyped, DepositStatus, SubmitDeposit, RefuseReceipt, CreatePending,
         CreateApproved
<1>2. AdminTyped'
  BY <1>1 DEF IInv, Typed, AdminTyped
<1>3. \/ UNCHANGED walletVars
      \/ Mutate(OwnerOf[s], "CREDIT", "DEPOSIT", s, AmountOf[s])
  BY DEF SubmitDeposit, RefuseReceipt, CreatePending, CreateApproved
<1>4. MoneyTyped' /\ LedgerChains'
  BY <1>3, NothingMoves, Crediting DEF IInv, Typed
<1>5. \A u \in Users, w \in Withdrawals : \A t : Recorded(u, t, w)' <=> Recorded(u, t, w)
  BY <1>3, NothingMoves, Crediting, Payable DEF IInv, Typed
<1>6. SettledAsDecided' /\ RequestRecorded'
  BY <1>1, <1>5, WithdrawalsStay DEF IInv
<1>7. InsertedWhenDone' /\ OneActive'
  <2>1. CASE UNCHANGED deposit
    BY <2>1 DEF IInv, Typed, RowsTyped, InsertedWhenDone, OneActive, SubmitDeposit, RefuseReceipt,
                CreatePending, CreateApproved
  <2>2. CASE deposit' # deposit
    <3>1. /\ submission[s] = "verify" /\ Insertable(s)
          /\ submission' = [submission EXCEPT ![s] = "done"]
          /\ \/ deposit' = [deposit EXCEPT ![s] = "PENDING"]
             \/ deposit' = [deposit EXCEPT ![s] = "APPROVED"]
      BY <2>2 DEF SubmitDeposit, RefuseReceipt, CreatePending, CreateApproved
    <3> QED
      BY <3>1, Inserting DEF IInv, Typed
  <2> QED
    BY <2>1, <2>2
<1>8. ReadIsThere'
  <2>1. \A t \in Submissions : deposit[t] # "none" => deposit'[t] # "none"
    BY DEF IInv, Typed, RowsTyped, SubmitDeposit, RefuseReceipt, CreatePending, CreateApproved
  <2> QED
    BY <1>1, <2>1, ReadStays DEF IInv, Typed
<1> QED
  BY <1>1, <1>2, <1>4, <1>6, <1>7, <1>8 DEF IInv, Typed

\* The money of a withdrawal moves as its row changes: held when it is
\* requested, and once more when it is decided.
Booked(status, type) ==
    \/ status = "PENDING" /\ type = "WITHDRAW_REQUEST"
    \/ status = "PAID" /\ type = "WITHDRAW_PAID"
    \/ status = "REJECTED" /\ type = "WITHDRAW_REFUND"

LEMMA Deciding ==
    ASSUME MoneyTyped, RowsTyped, SettledAsDecided, RequestRecorded, NEW w \in Withdrawals,
           withdrawal[w] \in {"none", "PENDING", "APPROVED"},
           NEW mode \in Modes, NEW status, NEW type, Booked(status, type),
           Covered(OwnerOf[w], mode, AmountOf[w]),
           Mutate(OwnerOf[w], mode, type, w, AmountOf[w]),
           withdrawal' = [withdrawal EXCEPT ![w] = status]
    PROVE  /\ MoneyTyped' /\ (LedgerChains => LedgerChains')
           /\ SettledAsDecided' /\ RequestRecorded'
           /\ \A u \in Users, s \in Submissions : \A t : Recorded(u, t, s)' <=> Recorded(u, t, s)
<1>1. /\ OwnerOf[w] \in Users /\ AmountOf[w] \in Nat /\ w \in References
      /\ type \in TransactionType
  BY Payable DEF TransactionType, Booked
<1>2. /\ MoneyTyped' /\ (LedgerChains => LedgerChains')
      /\ \A u \in Users : \A t, r :
           Recorded(u, t, r)' <=> Recorded(u, t, r) \/ (u = OwnerOf[w] /\ t = type /\ r = w)
  BY <1>1, Movement
<1>3. /\ withdrawal'[w] = status
      /\ \A x \in Withdrawals \ {w} : withdrawal'[x] = withdrawal[x]
  BY DEF RowsTyped
<1>4. SettledAsDecided' /\ RequestRecorded'
  <2> SUFFICES ASSUME NEW x \in Withdrawals
               PROVE  /\ (withdrawal'[x] = "PAID") <=> Recorded(OwnerOf[x], "WITHDRAW_PAID", x)'
                      /\ (withdrawal'[x] = "REJECTED") <=> Recorded(OwnerOf[x], "WITHDRAW_REFUND", x)'
                      /\ withdrawal'[x] = "none" => ~ Recorded(OwnerOf[x], "WITHDRAW_REQUEST", x)'
    BY DEF SettledAsDecided, RequestRecorded
  <2>1. OwnerOf[x] \in Users
    BY Payable
  <2>2. /\ (withdrawal[x] = "PAID") <=> Recorded(OwnerOf[x], "WITHDRAW_PAID", x)
        /\ (withdrawal[x] = "REJECTED") <=> Recorded(OwnerOf[x], "WITHDRAW_REFUND", x)
        /\ withdrawal[x] = "none" => ~ Recorded(OwnerOf[x], "WITHDRAW_REQUEST", x)
    BY DEF SettledAsDecided, RequestRecorded
  <2>3. \A t \in {"WITHDRAW_PAID", "WITHDRAW_REFUND", "WITHDRAW_REQUEST"} :
          Recorded(OwnerOf[x], t, x)' <=> Recorded(OwnerOf[x], t, x) \/ (x = w /\ t = type)
    BY <1>2, <2>1
  <2>4. CASE x = w
    BY <1>3, <2>2, <2>3, <2>4 DEF Booked
  <2>5. CASE x # w
    BY <1>3, <2>2, <2>3, <2>5
  <2> QED
    BY <2>4, <2>5
<1>5. \A u \in Users, s \in Submissions : \A t : Recorded(u, t, s)' <=> Recorded(u, t, s)
  BY <1>2, Payable
<1> QED
  BY <1>2, <1>4, <1>5

LEMMA Requesting ==
    ASSUME IInv, NEW w \in Withdrawals, RequestWithdrawal(w)
    PROVE  IInv'
<1>1. /\ MoneyTyped' /\ LedgerChains' /\ SettledAsDecided' /\ RequestRecorded'
  <2>1. Booked("PENDING", "WITHDRAW_REQUEST") /\ "HOLD" \in Modes
    BY DEF Booked, Modes
  <2> QED
    BY <2>1, Deciding DEF IInv, Typed, RequestWithdrawal
<1>2. RowsTyped' /\ AdminTyped'
  BY DEF IInv, Typed, RowsTyped, AdminTyped, WithdrawStatus, RequestWithdrawal
<1>3. InsertedWhenDone' /\ OneActive' /\ ReadIsThere'
  BY DepositsStay, ReadStays DEF IInv, Typed, RequestWithdrawal
<1> QED
  BY <1>1, <1>2, <1>3 DEF IInv, Typed

LEMMA Reading ==
    ASSUME IInv, NEW a \in Admins, NEW call \in Calls, Open(a, call)
    PROVE  IInv'
<1>1. AdminTyped'
  BY DEF IInv, Typed, AdminTyped, Open, Calls, DepositOps, WithdrawalOps
<1>2. MoneyTyped' /\ LedgerChains'
  BY NothingMoves DEF IInv, Typed, Open
<1>3. SettledAsDecided' /\ RequestRecorded'
  BY NothingMoves, WithdrawalsStay DEF IInv, Open
<1>4. RowsTyped' /\ InsertedWhenDone' /\ OneActive'
  BY DepositsStay DEF IInv, Typed, RowsTyped, Open
<1>5. ReadIsThere'
  <2>1. call \in DepositOps => deposit[call.id] # "none"
    BY DEF Open, Accepts, DepositOps
  <2>2. admin'[a] = call /\ \A b \in Admins \ {a} : admin'[b] = admin[b]
    BY DEF IInv, Typed, AdminTyped, Open
  <2>3. UNCHANGED deposit
    BY DEF Open
  <2> QED
    BY <2>1, <2>2, <2>3 DEF IInv, ReadIsThere
<1> QED
  BY <1>1, <1>2, <1>3, <1>4, <1>5 DEF IInv, Typed

\* A decision about a deposit changes the status of one row that is there.
LEMMA DecidingDeposit ==
    ASSUME RowsTyped, InsertedWhenDone, OneActive, NEW s \in Submissions, UNCHANGED submission,
           \/ deposit[s] = "PENDING" /\ deposit' = [deposit EXCEPT ![s] = "APPROVED"]
           \/ deposit[s] # "none" /\ deposit' = [deposit EXCEPT ![s] = "REJECTED"]
           \/ UNCHANGED deposit
    PROVE  InsertedWhenDone' /\ OneActive'
<1>1. \A t \in Submissions \ {s} : deposit'[t] = deposit[t]
  BY DEF RowsTyped
<1>2. \/ deposit[s] = "PENDING" /\ deposit'[s] = "APPROVED"
      \/ deposit[s] # "none" /\ deposit'[s] = "REJECTED"
      \/ deposit'[s] = deposit[s]
  BY DEF RowsTyped
<1> QED
  BY <1>1, <1>2 DEF InsertedWhenDone, OneActive

LEMMA ApprovingDeposit ==
    ASSUME IInv, NEW a \in Admins, ApproveDeposit(a)
    PROVE  IInv'
<1>1. PICK s \in Submissions : s = admin[a].id
  BY CallOf DEF IInv, Typed, ApproveDeposit
<1>2. AdminTyped'
  BY Closing DEF IInv, Typed, ApproveDeposit
<1>3. \/ /\ deposit[s] = "PENDING" /\ deposit' = [deposit EXCEPT ![s] = "APPROVED"]
         /\ Mutate(OwnerOf[s], "CREDIT", "DEPOSIT", s, AmountOf[s])
      \/ UNCHANGED <<walletVars, deposit>>
  <2>1. Accepts(admin[a]) => deposit[s] = "PENDING"
    BY <1>1 DEF ApproveDeposit, Accepts
  <2> QED
    BY <1>1, <2>1 DEF ApproveDeposit
<1>4. MoneyTyped' /\ LedgerChains'
  BY <1>3, NothingMoves, Crediting DEF IInv, Typed
<1>5. \A u \in Users, w \in Withdrawals : \A t : Recorded(u, t, w)' <=> Recorded(u, t, w)
  BY <1>3, NothingMoves, Crediting, Payable DEF IInv, Typed
<1>6. SettledAsDecided' /\ RequestRecorded'
  BY <1>5, WithdrawalsStay DEF IInv, ApproveDeposit
<1>7. InsertedWhenDone' /\ OneActive'
  BY <1>3, DecidingDeposit DEF IInv, Typed, ApproveDeposit
<1>8. RowsTyped'
  BY <1>3 DEF IInv, Typed, RowsTyped, DepositStatus, ApproveDeposit
<1>9. ReadIsThere'
  <2>1. \A t \in Submissions : deposit[t] # "none" => deposit'[t] # "none"
    BY <1>3 DEF IInv, Typed, RowsTyped
  <2>2. \A b \in Admins : admin'[b] = admin[b] \/ admin'[b] = Idle
    BY <1>3, Closing DEF IInv, Typed, ApproveDeposit
  <2> QED
    BY <2>1, <2>2, ReadStays DEF IInv, Typed
<1> QED
  BY <1>2, <1>4, <1>6, <1>7, <1>8, <1>9 DEF IInv, Typed

LEMMA RejectingDeposit ==
    ASSUME IInv, NEW a \in Admins, RejectDeposit(a)
    PROVE  IInv'
<1>1. PICK s \in Submissions : s = admin[a].id
  BY CallOf DEF IInv, Typed, RejectDeposit
<1>2. deposit[s] # "none" /\ deposit' = [deposit EXCEPT ![s] = "REJECTED"]
  BY <1>1, CallOf DEF IInv, Typed, ReadIsThere, RejectDeposit
<1>3. AdminTyped' /\ MoneyTyped' /\ LedgerChains'
  BY Closing, NothingMoves DEF IInv, Typed, RejectDeposit
<1>4. SettledAsDecided' /\ RequestRecorded'
  BY NothingMoves, WithdrawalsStay DEF IInv, RejectDeposit
<1>5. InsertedWhenDone' /\ OneActive'
  BY <1>2, DecidingDeposit DEF IInv, Typed, RejectDeposit
<1>6. RowsTyped'
  BY <1>2 DEF IInv, Typed, RowsTyped, DepositStatus, RejectDeposit
<1>7. ReadIsThere'
  <2>1. \A t \in Submissions : deposit[t] # "none" => deposit'[t] # "none"
    BY <1>2 DEF IInv, Typed, RowsTyped
  <2>2. \A b \in Admins : admin'[b] = admin[b] \/ admin'[b] = Idle
    BY <1>2, Closing DEF IInv, Typed, RejectDeposit
  <2> QED
    BY <2>1, <2>2, ReadStays DEF IInv, Typed
<1> QED
  BY <1>3, <1>4, <1>5, <1>6, <1>7 DEF IInv, Typed

LEMMA Settling ==
    ASSUME IInv, NEW a \in Admins,
           ApproveWithdrawal(a) \/ RejectWithdrawal(a) \/ MarkWithdrawalPaid(a)
    PROVE  IInv'
<1>1. PICK op \in {"approveWithdrawal", "rejectWithdrawal", "markWithdrawalPaid"},
           status \in {"PAID", "REJECTED"}, mode \in {"CONSUME", "RELEASE"},
           type \in {"WITHDRAW_PAID", "WITHDRAW_REFUND"} :
        Settle(a, op, status, mode, type) /\ Booked(status, type)
  BY DEF ApproveWithdrawal, RejectWithdrawal, MarkWithdrawalPaid, Booked
<1>2. PICK w \in Withdrawals : w = admin[a].id
  BY <1>1, CallOf DEF IInv, Typed, Settle
<1>3. \/ /\ withdrawal[w] \in {"PENDING", "APPROVED"}
         /\ Covered(OwnerOf[w], mode, AmountOf[w])
         /\ withdrawal' = [withdrawal EXCEPT ![w] = status]
         /\ Mutate(OwnerOf[w], mode, type, w, AmountOf[w])
      \/ UNCHANGED <<walletVars, withdrawal>>
  <2>1. Accepts(admin[a]) => withdrawal[w] \in {"PENDING", "APPROVED"}
    BY <1>1, <1>2 DEF Settle, Accepts
  <2> QED
    BY <1>1, <1>2, <2>1 DEF Settle
<1>4. MoneyTyped' /\ LedgerChains' /\ SettledAsDecided' /\ RequestRecorded'
  <2>1. mode \in Modes
    BY DEF Modes
  <2>2. CASE UNCHANGED <<walletVars, withdrawal>>
    BY <2>2, NothingMoves, WithdrawalsStay DEF IInv, Typed
  <2> QED
    BY <1>1, <1>3, <2>1, <2>2, Deciding DEF IInv, Typed
<1>5. AdminTyped' /\ UNCHANGED <<submission, deposit>>
  BY <1>1, Closing DEF IInv, Typed, Settle
<1>6. InsertedWhenDone' /\ OneActive'
  BY <1>5, DepositsStay DEF IInv
<1>7. RowsTyped'
  BY <1>3, <1>5 DEF IInv, Typed, RowsTyped, WithdrawStatus
<1>8. ReadIsThere'
  <2>1. \A t \in Submissions : deposit[t] # "none" => deposit'[t] # "none"
    BY <1>1, <1>5 DEF IInv, Typed, RowsTyped
  <2>2. \A b \in Admins : admin'[b] = admin[b] \/ admin'[b] = Idle
    BY <1>1, <1>5, Closing DEF IInv, Typed, Settle
  <2> QED
    BY <2>1, <2>2, ReadStays DEF IInv, Typed
<1> QED
  BY <1>4, <1>5, <1>6, <1>7, <1>8 DEF IInv, Typed

LEMMA Stuttering == IInv /\ UNCHANGED vars => IInv'
<1> SUFFICES ASSUME IInv, UNCHANGED vars PROVE IInv'
  OBVIOUS
<1>1. MoneyTyped' /\ LedgerChains' /\ SettledAsDecided' /\ RequestRecorded'
  BY NothingMoves, WithdrawalsStay DEF IInv, Typed, vars
<1>2. RowsTyped' /\ AdminTyped' /\ InsertedWhenDone' /\ OneActive' /\ ReadIsThere'
  BY DepositsStay, ReadStays DEF IInv, Typed, RowsTyped, AdminTyped, vars
<1> QED
  BY <1>1, <1>2 DEF IInv, Typed

LEMMA NextInvariant == IInv /\ [Next]_vars => IInv'
<1> SUFFICES ASSUME IInv, Next PROVE IInv'
  BY Stuttering
<1>1. ASSUME NEW s \in Submissions,
             SubmitDeposit(s) \/ RefuseReceipt(s) \/ CreatePending(s) \/ CreateApproved(s)
      PROVE  IInv'
  BY <1>1, Submitting
<1>2. ASSUME NEW w \in Withdrawals, RequestWithdrawal(w) PROVE IInv'
  BY <1>2, Requesting
<1>3. ASSUME NEW a \in Admins, NEW call \in Calls, Open(a, call) PROVE IInv'
  BY <1>3, Reading
<1>4. ASSUME NEW a \in Admins, ApproveDeposit(a) \/ RejectDeposit(a) PROVE IInv'
  BY <1>4, ApprovingDeposit, RejectingDeposit
<1>5. ASSUME NEW a \in Admins,
             ApproveWithdrawal(a) \/ RejectWithdrawal(a) \/ MarkWithdrawalPaid(a)
      PROVE  IInv'
  BY <1>5, Settling
<1> QED
  BY <1>1, <1>2, <1>3, <1>4, <1>5 DEF Next

\* Everything the proofs know of the statuses of rows and of the ledger.
THEOREM Invariant == Spec => []IInv
  BY InitInvariant, NextInvariant, PTL DEF Spec

\* No wallet is overdrawn, in available or in held money, whatever is
\* submitted, requested and decided.
THEOREM WellTyped == Spec => []TypeOK
<1>1. IInv => TypeOK
  BY TypedRows DEF IInv
<1> QED
  BY <1>1, Invariant, PTL

\* The ledger explains every balance, from the opening one to the last.
THEOREM LedgerExplains == Spec => []LedgerChains
<1>1. IInv => LedgerChains
  BY DEF IInv
<1> QED
  BY <1>1, Invariant, PTL

\* However many administrators decide a withdrawal at the same time, it is paid
\* or refunded as the row says, and not both.
THEOREM DecidedOnce == Spec => []SettledAsDecided
<1>1. IInv => SettledAsDecided
  BY DEF IInv
<1> QED
  BY <1>1, Invariant, PTL

-----------------------------------------------------------------------------
(* Deposits.  `rejectDeposit' writes over whatever has become of the row   *)
(* it read as PENDING, so that a credited deposit may be REJECTED.  What   *)
(* remains is said by what one step does to one deposit.                   *)

DInv ==
    \A s \in Submissions :
        /\ deposit[s] = "APPROVED" => Credited(s)
        /\ Credited(s) => deposit[s] \in {"APPROVED", "REJECTED"}

\* A step credits a new or pending deposit and makes it APPROVED, or credits
\* nothing; then the row stays, is inserted, or is rejected.
Fate(s) ==
    \/ /\ deposit[s] \in {"none", "PENDING"} /\ deposit'[s] = "APPROVED"
       /\ Credited(s)'
    \/ /\ Credited(s)' <=> Credited(s)
       /\ \/ deposit'[s] = deposit[s]
          \/ deposit[s] = "none" /\ deposit'[s] = "PENDING"
          \/ deposit[s] # "none" /\ deposit'[s] = "REJECTED"

LEMMA InitDeposits == Init => DInv
  BY Payable DEF Init, InitWallet, DInv, Credited, Recorded

\* No deposit is credited.
LEMMA CreditStays ==
    ASSUME \A u \in Users, s \in Submissions : \A t : Recorded(u, t, s)' <=> Recorded(u, t, s)
    PROVE  \A s \in Submissions : Credited(s)' <=> Credited(s)
<1> SUFFICES ASSUME NEW s \in Submissions PROVE Credited(s)' <=> Credited(s)
  OBVIOUS
<1>1. OwnerOf[s] \in Users
  BY Payable
<1>2. \A t : Recorded(OwnerOf[s], t, s)' <=> Recorded(OwnerOf[s], t, s)
  BY <1>1
<1>3. Recorded(OwnerOf[s], "DEPOSIT", s)' <=> Recorded(OwnerOf[s], "DEPOSIT", s)
  BY <1>2
<1> QED
  BY <1>3 DEF Credited

\* One deposit is.
LEMMA CreditMoves ==
    ASSUME IInv, NEW s \in Submissions, deposit[s] \in {"none", "PENDING"},
           deposit' = [deposit EXCEPT ![s] = "APPROVED"],
           Mutate(OwnerOf[s], "CREDIT", "DEPOSIT", s, AmountOf[s])
    PROVE  \A t \in Submissions : Fate(t)
<1> SUFFICES ASSUME NEW t \in Submissions PROVE Fate(t)
  OBVIOUS
<1>1. OwnerOf[t] \in Users
  BY Payable
<1>2. Recorded(OwnerOf[t], "DEPOSIT", t)' <=> Recorded(OwnerOf[t], "DEPOSIT", t) \/ t = s
  BY <1>1, Crediting DEF IInv, Typed
<1>3. deposit'[t] = IF t = s THEN "APPROVED" ELSE deposit[t]
  BY DEF IInv, Typed, RowsTyped
<1> QED
  BY <1>2, <1>3 DEF Fate, Credited

LEMMA SubmittingDeposits ==
    ASSUME IInv, NEW s \in Submissions,
           SubmitDeposit(s) \/ RefuseReceipt(s) \/ CreatePending(s) \/ CreateApproved(s)
    PROVE  \A t \in Submissions : Fate(t)
<1>1. submission[s] = "verify" => deposit[s] = "none"
  BY DEF IInv, InsertedWhenDone
<1>2. CASE UNCHANGED walletVars /\ (UNCHANGED deposit \/ CreatePending(s))
  <2>1. \A t \in Submissions : Credited(t)' <=> Credited(t)
    BY <1>2, NothingMoves, CreditStays
  <2>2. \A t \in Submissions :
          deposit'[t] = deposit[t] \/ (deposit[t] = "none" /\ deposit'[t] = "PENDING")
    BY <1>1, <1>2 DEF IInv, Typed, RowsTyped, CreatePending
  <2> QED
    BY <2>1, <2>2 DEF Fate
<1>3. CASE CreateApproved(s) /\ Insertable(s)
  BY <1>1, <1>3, CreditMoves DEF CreateApproved
<1> QED
  BY <1>2, <1>3 DEF SubmitDeposit, RefuseReceipt, CreatePending, CreateApproved

LEMMA DecidingDeposits ==
    ASSUME IInv, NEW a \in Admins, ApproveDeposit(a) \/ RejectDeposit(a)
    PROVE  \A t \in Submissions : Fate(t)
<1>1. admin[a] \in DepositOps
  BY CallOf DEF IInv, Typed, ApproveDeposit, RejectDeposit
<1>2. PICK s \in Submissions : s = admin[a].id
  BY <1>1 DEF DepositOps
<1>3. CASE UNCHANGED <<walletVars, deposit>>
  BY <1>3, NothingMoves, CreditStays DEF Fate
<1>4. CASE ApproveDeposit(a) /\ Accepts(admin[a])
  <2>1. /\ deposit' = [deposit EXCEPT ![s] = "APPROVED"]
        /\ Mutate(OwnerOf[s], "CREDIT", "DEPOSIT", s, AmountOf[s])
    BY <1>2, <1>4 DEF ApproveDeposit
  <2>2. deposit[s] = "PENDING"
    BY <1>1, <1>2, <1>4 DEF Accepts, DepositOps
  <2> QED
    BY <2>1, <2>2, CreditMoves
<1>5. CASE RejectDeposit(a)
  <2>1. deposit' = [deposit EXCEPT ![s] = "REJECTED"] /\ UNCHANGED walletVars
    BY <1>2, <1>5 DEF RejectDeposit
  <2>2. \A t \in Submissions : Credited(t)' <=> Credited(t)
    BY <2>1, NothingMoves, CreditStays
  <2>3. deposit[s] # "none"
    BY <1>1, <1>2 DEF IInv, ReadIsThere
  <2> QED
    BY <2>1, <2>2, <2>3 DEF Fate, IInv, Typed, RowsTyped
<1> QED
  BY <1>3, <1>4, <1>5 DEF ApproveDeposit

\* What every step does to every deposit.
LEMMA Fates == IInv /\ [Next]_vars => \A s \in Submissions : Fate(s)
<1> SUFFICES ASSUME IInv, [Next]_vars PROVE \A s \in Submissions : Fate(s)
  OBVIOUS
<1>1. CASE UNCHANGED <<walletVars, deposit>>
  BY <1>1, NothingMoves, CreditStays DEF Fate
<1>2. ASSUME NEW s \in Submissions,
             SubmitDeposit(s) \/ RefuseReceipt(s) \/ CreatePending(s) \/ CreateApproved(s)
      PROVE  \A t \in Submissions : Fate(t)
  BY <1>2, SubmittingDeposits
<1>3. ASSUME NEW w \in Withdrawals, RequestWithdrawal(w)
      PROVE  \A s \in Submissions : Fate(s)
  <2>1. Booked("PENDING", "WITHDRAW_REQUEST") /\ "HOLD" \in Modes
    BY DEF Booked, Modes
  <2>2. \A u \in Users, s \in Submissions : \A t : Recorded(u, t, s)' <=> Recorded(u, t, s)
    BY <1>3, <2>1, Deciding DEF IInv, Typed, RequestWithdrawal
  <2> QED
    BY <1>3, <2>2, CreditStays DEF RequestWithdrawal, Fate
<1>4. ASSUME NEW a \in Admins, NEW call \in Calls, Open(a, call)
      PROVE  \A s \in Submissions : Fate(s)
  BY <1>1, <1>4 DEF Open
<1>5. ASSUME NEW a \in Admins, ApproveDeposit(a) \/ RejectDeposit(a)
      PROVE  \A s \in Submissions : Fate(s)
  BY <1>5, DecidingDeposits
<1>6. ASSUME NEW a \in Admins,
             ApproveWithdrawal(a) \/ RejectWithdrawal(a) \/ MarkWithdrawalPaid(a)
      PROVE  \A s \in Submissions : Fate(s)
  <2>1. PICK op, status, mode, type :
          /\ Settle(a, op, status, mode, type) /\ Booked(status, type)
          /\ mode \in {"CONSUME", "RELEASE"}
          /\ op \in {"approveWithdrawal", "rejectWithdrawal", "markWithdrawalPaid"}
    BY <1>6 DEF ApproveWithdrawal, RejectWithdrawal, MarkWithdrawalPaid, Booked
  <2>2. PICK w \in Withdrawals : w = admin[a].id
    BY <2>1, CallOf DEF IInv, Typed, Settle
  <2>3. Accepts(admin[a]) => withdrawal[w] \in {"PENDING", "APPROVED"}
    BY <2>1, <2>2 DEF Settle, Accepts
  <2>4. \A u \in Users, s \in Submissions : \A t : Recorded(u, t, s)' <=> Recorded(u, t, s)
    <3>1. mode \in Modes
      BY <2>1 DEF Modes
    <3>2. CASE UNCHANGED walletVars
      BY <3>2, NothingMoves
    <3> QED
      BY <2>1, <2>2, <2>3, <3>1, <3>2, Deciding DEF IInv, Typed, Settle
  <2> QED
    BY <2>1, <2>4, CreditStays DEF Settle, Fate
<1> QED
  BY <1>1, <1>2, <1>3, <1>4, <1>5, <1>6 DEF Next, vars

LEMMA DepositInvariant == Spec => []DInv
<1>1. DInv /\ (\A s \in Submissions : Fate(s)) => DInv'
  BY DEF DInv, Fate
<1>2. IInv /\ DInv /\ [Next]_vars => DInv'
  BY <1>1, Fates
<1> QED
  BY <1>2, InitDeposits, Invariant, PTL DEF Spec

\* Whichever administrators approve and reject a deposit at the same time, once
\* it is REJECTED it stays so and no money is credited for it any more.
THEOREM RejectionIsFinal == Spec => RejectionStands
<1>1. IInv /\ [Next]_vars =>
        [\A s \in Submissions : deposit[s] = "REJECTED" =>
             /\ deposit'[s] = "REJECTED"
             /\ Credited(s)' => Credited(s)]_vars
  BY Fates DEF Fate
<1> QED
  BY <1>1, Invariant, PTL DEF Spec, RejectionStands

\* Of all submissions of a receipt one stands credited: the index on active
\* receipts admits one approved deposit of it, and a credited deposit that is
\* not approved has a rejection written over its approval.
THEOREM OneCreditStands == Spec => []OneStandingCredit
<1>1. IInv /\ DInv => OneStandingCredit
  BY DEF IInv, DInv, OneActive, OneStandingCredit
<1> QED
  BY <1>1, Invariant, DepositInvariant, PTL

-----------------------------------------------------------------------------
(* Refinement: the free funds of a user are the balance of the wallet, and *)
(* a withdrawal is a hold.                                                 *)

LEMMA InitEscrow == Init => E!Init
  BY WalletAssumption, PaymentsAssumption DEF Init, InitWallet, E!Init, HeldState

Funds == [u \in Users |-> wallet[u].balance]
States == [w \in Withdrawals |-> HeldState(w)]

\* What a movement does to the balance.
Change(mode, amount) ==
    CASE mode \in {"CREDIT", "RELEASE"} -> amount
      [] mode = "HOLD" -> -amount
      [] mode = "CONSUME" -> 0

LEMMA PlanChanges ==
    ASSUME NEW w \in WalletRow, NEW mode \in {"CREDIT", "HOLD", "RELEASE", "CONSUME"},
           NEW amount \in Nat
    PROVE  Plan(w, mode, amount).balance = w.balance + Change(mode, amount)
<1>1. CASE mode = "CREDIT"
  BY <1>1 DEF Plan, Change, WalletRow
<1>2. CASE mode = "HOLD"
  <2>1. Plan(w, mode, amount) = [w EXCEPT !.balance = @ - amount, !.locked = @ + amount]
    BY <1>2 DEF Plan
  <2>2. Plan(w, mode, amount).balance = w.balance - amount
    BY <2>1 DEF WalletRow
  <2> QED
    BY <1>2, <2>2 DEF Change, WalletRow
<1>3. CASE mode = "RELEASE"
  <2>1. Plan(w, mode, amount) = [w EXCEPT !.balance = @ + amount, !.locked = @ - amount]
    BY <1>3 DEF Plan
  <2>2. Plan(w, mode, amount).balance = w.balance + amount
    BY <2>1 DEF WalletRow
  <2> QED
    BY <1>3, <2>2 DEF Change, WalletRow
<1>4. CASE mode = "CONSUME"
  BY <1>4 DEF Plan, Change, WalletRow
<1> QED
  BY <1>1, <1>2, <1>3, <1>4

\* A movement changes the funds of one user, unless it was made before.
LEMMA FundsMove ==
    ASSUME MoneyTyped, NEW u \in Users, NEW mode \in {"CREDIT", "HOLD", "RELEASE", "CONSUME"},
           NEW type, NEW ref, NEW amount \in Nat, Mutate(u, mode, type, ref, amount)
    PROVE  IF Recorded(u, type, ref) THEN Funds' = Funds
           ELSE Funds' = [Funds EXCEPT ![u] = @ + Change(mode, amount)]
<1>1. CASE Recorded(u, type, ref)
  BY <1>1 DEF Funds, Mutate, walletVars
<1>2. CASE ~ Recorded(u, type, ref)
  <2>1. wallet' = [wallet EXCEPT ![u] = Plan(wallet[u], mode, amount)]
    BY <1>2 DEF Mutate
  <2>2. wallet'[u].balance = wallet[u].balance + Change(mode, amount)
    BY <2>1, PlanChanges DEF MoneyTyped
  <2>3. \A v \in Users \ {u} : wallet'[v] = wallet[v]
    BY <2>1 DEF MoneyTyped
  <2> QED
    BY <1>2, <2>2, <2>3 DEF Funds
<1> QED
  BY <1>1, <1>2

\* The changes of a withdrawal's row are those of its hold.
LEMMA Held ==
    ASSUME MoneyTyped, RowsTyped, NEW w \in Withdrawals, NEW status, NEW change \in Int,
           withdrawal' = [withdrawal EXCEPT ![w] = status],
           Funds' = [Funds EXCEPT ![OwnerOf[w]] = @ + change]
    PROVE  /\ withdrawal[w] = "none" /\ status = "PENDING" => E!Move(w, "none", "held", change)
           /\ withdrawal[w] \in {"PENDING", "APPROVED"} /\ status = "PAID"
                => E!Move(w, "held", "paid", change)
           /\ withdrawal[w] \in {"PENDING", "APPROVED"} /\ status = "REJECTED"
                => E!Move(w, "held", "returned", change)
<1>1. \A x \in Withdrawals \ {w} : HeldState(x)' = HeldState(x)
  BY DEF RowsTyped, HeldState
<1>2. /\ status = "PENDING" => HeldState(w)' = "held"
      /\ status = "PAID" => HeldState(w)' = "paid"
      /\ status = "REJECTED" => HeldState(w)' = "returned"
  BY DEF RowsTyped, HeldState
<1>3. /\ withdrawal[w] = "none" => HeldState(w) = "none"
      /\ withdrawal[w] \in {"PENDING", "APPROVED"} => HeldState(w) = "held"
  BY DEF HeldState
<1>4. States' = [States EXCEPT ![w] = HeldState(w)']
  BY <1>1 DEF States
<1> QED
  BY <1>2, <1>3, <1>4 DEF E!Move, Funds, States

\* Steps that leave balances and withdrawals alone are stutters of the escrow.
LEMMA EscrowStutters ==
    ASSUME UNCHANGED <<Funds, withdrawal>>
    PROVE  UNCHANGED E!vars
<1>1. States' = States
  BY DEF States, HeldState
<1> QED
  BY <1>1 DEF E!vars, Funds, States

\* A credited deposit is earned.
LEMMA DepositEarns ==
    ASSUME MoneyTyped, NEW s \in Submissions, UNCHANGED withdrawal,
           Mutate(OwnerOf[s], "CREDIT", "DEPOSIT", s, AmountOf[s])
    PROVE  [E!Next]_(E!vars)
<1>1. OwnerOf[s] \in Users /\ AmountOf[s] \in Nat \ {0}
  BY Payable
<1>2. CASE Recorded(OwnerOf[s], "DEPOSIT", s)
  BY <1>1, <1>2, FundsMove, EscrowStutters
<1>3. CASE ~ Recorded(OwnerOf[s], "DEPOSIT", s)
  <2>1. Funds' = [Funds EXCEPT ![OwnerOf[s]] = @ + AmountOf[s]]
    BY <1>1, <1>3, FundsMove DEF Change
  <2>2. Funds[OwnerOf[s]] \in Nat /\ DOMAIN Funds = Users
    BY <1>1 DEF Funds, MoneyTyped, WalletRow
  <2>3. Funds'[OwnerOf[s]] = Funds[OwnerOf[s]] + AmountOf[s]
    BY <1>1, <2>1, <2>2
  <2>4. Funds' = [Funds EXCEPT ![OwnerOf[s]] = Funds'[OwnerOf[s]]]
    BY <2>1, <2>3
  <2>5. Funds'[OwnerOf[s]] > Funds[OwnerOf[s]]
    BY <1>1, <2>2, <2>3
  <2>6. States' = States
    BY DEF States, HeldState
  <2>7. E!Earn(OwnerOf[s])
    BY <2>4, <2>5, <2>6 DEF E!Earn, Funds, States
  <2> QED
    BY <1>1, <2>7 DEF E!Next
<1> QED
  BY <1>2, <1>3

LEMMA RequestHolds ==
    ASSUME IInv, NEW w \in Withdrawals, RequestWithdrawal(w)
    PROVE  E!Hold(w)
<1>1. OwnerOf[w] \in Users /\ AmountOf[w] \in Nat
  BY Payable
<1>2. /\ withdrawal[w] = "none" /\ withdrawal' = [withdrawal EXCEPT ![w] = "PENDING"]
      /\ Mutate(OwnerOf[w], "HOLD", "WITHDRAW_REQUEST", w, AmountOf[w])
      /\ wallet[OwnerOf[w]].balance >= AmountOf[w]
  BY DEF RequestWithdrawal, Covered
<1>3. ~ Recorded(OwnerOf[w], "WITHDRAW_REQUEST", w)
  BY <1>2 DEF IInv, RequestRecorded
<1>4. Funds' = [Funds EXCEPT ![OwnerOf[w]] = @ + (-AmountOf[w])]
  <2>1. Change("HOLD", AmountOf[w]) = -AmountOf[w]
    BY DEF Change
  <2> QED
    BY <1>1, <1>2, <1>3, <2>1, FundsMove DEF IInv, Typed
<1>5. E!Move(w, "none", "held", -AmountOf[w])
  <2>1. -AmountOf[w] \in Int
    BY <1>1
  <2> QED
    BY <1>2, <1>4, <2>1, Held DEF IInv, Typed
<1> QED
  BY <1>1, <1>2, <1>5 DEF E!Hold, Funds

LEMMA SettlePays ==
    ASSUME IInv, NEW a \in Admins,
           ApproveWithdrawal(a) \/ RejectWithdrawal(a) \/ MarkWithdrawalPaid(a)
    PROVE  [E!Next]_(E!vars)
<1>1. PICK w \in Withdrawals : w = admin[a].id
  BY CallOf DEF IInv, Typed, ApproveWithdrawal, RejectWithdrawal, MarkWithdrawalPaid, Settle
<1>2. OwnerOf[w] \in Users /\ AmountOf[w] \in Nat
  BY Payable
<1>3. Accepts(admin[a]) => withdrawal[w] \in {"PENDING", "APPROVED"}
  BY <1>1 DEF ApproveWithdrawal, RejectWithdrawal, MarkWithdrawalPaid, Settle, Accepts
<1>4. CASE UNCHANGED <<walletVars, withdrawal>>
  BY <1>4, EscrowStutters DEF walletVars, Funds
<1>5. CASE /\ withdrawal[w] \in {"PENDING", "APPROVED"}
           /\ withdrawal' = [withdrawal EXCEPT ![w] = "PAID"]
           /\ Mutate(OwnerOf[w], "CONSUME", "WITHDRAW_PAID", w, AmountOf[w])
  <2>1. ~ Recorded(OwnerOf[w], "WITHDRAW_PAID", w)
    BY <1>5 DEF IInv, SettledAsDecided
  <2>2. Change("CONSUME", AmountOf[w]) = 0
    BY DEF Change
  <2>3. Funds' = [Funds EXCEPT ![OwnerOf[w]] = @ + 0]
    BY <1>2, <1>5, <2>1, <2>2, FundsMove DEF IInv, Typed
  <2>4. 0 \in Int /\ MoneyTyped /\ RowsTyped
    BY DEF IInv, Typed
  <2>5. E!Move(w, "held", "paid", 0)
    BY <1>5, <2>3, <2>4, Held
  <2> QED
    BY <2>5 DEF E!Pay, E!Next
<1>6. CASE /\ withdrawal[w] \in {"PENDING", "APPROVED"}
           /\ withdrawal' = [withdrawal EXCEPT ![w] = "REJECTED"]
           /\ Mutate(OwnerOf[w], "RELEASE", "WITHDRAW_REFUND", w, AmountOf[w])
  <2>1. ~ Recorded(OwnerOf[w], "WITHDRAW_REFUND", w)
    BY <1>6 DEF IInv, SettledAsDecided
  <2>2. Change("RELEASE", AmountOf[w]) = AmountOf[w]
    BY DEF Change
  <2>3. Funds' = [Funds EXCEPT ![OwnerOf[w]] = @ + AmountOf[w]]
    BY <1>2, <1>6, <2>1, <2>2, FundsMove DEF IInv, Typed
  <2>4. AmountOf[w] \in Int /\ MoneyTyped /\ RowsTyped
    BY <1>2 DEF IInv, Typed
  <2>5. E!Move(w, "held", "returned", AmountOf[w])
    BY <1>6, <2>3, <2>4, Held
  <2> QED
    BY <2>5 DEF E!Return, E!Next
<1> QED
  BY <1>1, <1>3, <1>4, <1>5, <1>6 DEF ApproveWithdrawal, RejectWithdrawal, MarkWithdrawalPaid, Settle

LEMMA NextEscrow == IInv /\ [Next]_vars => [E!Next]_(E!vars)
<1> SUFFICES ASSUME IInv, [Next]_vars PROVE [E!Next]_(E!vars)
  OBVIOUS
<1>1. CASE UNCHANGED vars
  BY <1>1, EscrowStutters DEF vars, walletVars, Funds
<1>2. ASSUME NEW s \in Submissions,
             SubmitDeposit(s) \/ RefuseReceipt(s) \/ CreatePending(s) \/ CreateApproved(s)
      PROVE  [E!Next]_(E!vars)
  <2>1. UNCHANGED withdrawal
    BY <1>2 DEF SubmitDeposit, RefuseReceipt, CreatePending, CreateApproved
  <2>2. CASE UNCHANGED walletVars
    BY <2>1, <2>2, EscrowStutters DEF walletVars, Funds
  <2>3. CASE Mutate(OwnerOf[s], "CREDIT", "DEPOSIT", s, AmountOf[s])
    BY <2>1, <2>3, DepositEarns DEF IInv, Typed
  <2> QED
    BY <1>2, <2>2, <2>3 DEF SubmitDeposit, RefuseReceipt, CreatePending, CreateApproved
<1>3. ASSUME NEW w \in Withdrawals, RequestWithdrawal(w) PROVE [E!Next]_(E!vars)
  BY <1>3, RequestHolds DEF E!Next
<1>4. ASSUME NEW a \in Admins, NEW call \in Calls, Open(a, call) PROVE [E!Next]_(E!vars)
  BY <1>4, EscrowStutters DEF Open, walletVars, Funds
<1>5. ASSUME NEW a \in Admins, ApproveDeposit(a) PROVE [E!Next]_(E!vars)
  <2>1. PICK s \in Submissions : s = admin[a].id
    BY <1>5, CallOf DEF IInv, Typed, ApproveDeposit
  <2>2. CASE UNCHANGED walletVars
    BY <1>5, <2>2, EscrowStutters DEF ApproveDeposit, walletVars, Funds
  <2>3. CASE Mutate(OwnerOf[s], "CREDIT", "DEPOSIT", s, AmountOf[s])
    BY <1>5, <2>3, DepositEarns DEF IInv, Typed, ApproveDeposit
  <2> QED
    BY <1>5, <2>1, <2>2, <2>3 DEF ApproveDeposit
<1>6. ASSUME NEW a \in Admins, RejectDeposit(a) PROVE [E!Next]_(E!vars)
  BY <1>6, EscrowStutters DEF RejectDeposit, walletVars, Funds
<1>7. ASSUME NEW a \in Admins,
             ApproveWithdrawal(a) \/ RejectWithdrawal(a) \/ MarkWithdrawalPaid(a)
      PROVE  [E!Next]_(E!vars)
  BY <1>7, SettlePays
<1> QED
  BY <1>1, <1>2, <1>3, <1>4, <1>5, <1>6, <1>7 DEF Next

\* Deposits and withdrawals, however they interleave, implement the escrow: a
\* withdrawal holds its money once, and then pays or returns it once, and nothing
\* else takes money from a balance.
THEOREM ImplementsEscrow == Spec => EscrowSpec
  BY InitEscrow, NextEscrow, Invariant, PTL DEF Spec, EscrowSpec, E!Spec

-----------------------------------------------------------------------------
(* What the wallets hold back.  A hold adds the money of one withdrawal to  *)
(* it, a decision takes it away, and nothing else touches it.               *)

HeldFinite == \A u \in Users : IsFiniteSet(Units(HeldOf(u)))

\* One withdrawal more.
LEMMA UnitsAdded ==
    ASSUME NEW ws \in SUBSET Withdrawals, NEW w \in Withdrawals \ ws, IsFiniteSet(Units(ws))
    PROVE  /\ IsFiniteSet(Units(ws \cup {w})) /\ Cardinality(Units(ws)) \in Nat
           /\ Cardinality(Units(ws \cup {w})) = Cardinality(Units(ws)) + AmountOf[w]
<1> DEFINE new == {w} \X (1..AmountOf[w])
<1>1. AmountOf[w] \in Nat
  BY Payable
<1>2. IsFiniteSet(new) /\ Cardinality(new) = AmountOf[w]
  <2>1. IsFiniteSet({w}) /\ Cardinality({w}) = 1
    BY FS_Singleton
  <2>2. IsFiniteSet(1..AmountOf[w]) /\ Cardinality(1..AmountOf[w]) = AmountOf[w]
    BY <1>1, FS_Interval
  <2>3. IsFiniteSet(new) /\ Cardinality(new) = Cardinality({w}) * Cardinality(1..AmountOf[w])
    BY <2>1, <2>2, FS_Product
  <2> QED
    BY <1>1, <2>1, <2>2, <2>3
<1>3. Units(ws \cup {w}) = Units(ws) \cup new
  BY DEF Units
<1>4. Units(ws) \cap new = {}
  BY DEF Units
<1> HIDE DEF new
<1>5. Cardinality(Units(ws)) \in Nat
  BY FS_CardinalityType
<1>6. /\ IsFiniteSet(Units(ws) \cup new)
      /\ Cardinality(Units(ws) \cup new)
           = Cardinality(Units(ws)) + Cardinality(new) - Cardinality(Units(ws) \cap new)
  BY <1>2, FS_Union
<1>7. Cardinality(Units(ws) \cap new) = 0
  BY <1>4, FS_EmptySet
<1>8. Cardinality(Units(ws) \cup new) = Cardinality(Units(ws)) + AmountOf[w]
  BY <1>1, <1>2, <1>5, <1>6, <1>7
<1> QED
  BY <1>3, <1>5, <1>6, <1>8

\* One withdrawal less.
LEMMA UnitsRemoved ==
    ASSUME NEW ws \in SUBSET Withdrawals, NEW w \in ws, IsFiniteSet(Units(ws))
    PROVE  /\ IsFiniteSet(Units(ws \ {w})) /\ Cardinality(Units(ws \ {w})) \in Nat
           /\ Cardinality(Units(ws)) = Cardinality(Units(ws \ {w})) + AmountOf[w]
<1>1. Units(ws \ {w}) \subseteq Units(ws)
  BY DEF Units
<1>2. IsFiniteSet(Units(ws \ {w}))
  BY <1>1, FS_Subset
<1>3. (ws \ {w}) \cup {w} = ws /\ ws \ {w} \in SUBSET Withdrawals /\ w \in Withdrawals \ (ws \ {w})
  OBVIOUS
<1> QED
  BY <1>2, <1>3, UnitsAdded

LEMMA InitHeld == Init => HeldIsLocked /\ HeldFinite
<1> SUFFICES ASSUME Init, NEW u \in Users
             PROVE  wallet[u].locked = Cardinality(Units(HeldOf(u))) /\ IsFiniteSet(Units(HeldOf(u)))
  BY DEF HeldIsLocked, HeldFinite
<1> DEFINE ws == {w \in Legacy : OwnerOf[w] = u}
<1>1. HeldOf(u) = ws
  BY PaymentsAssumption DEF HeldOf, Init
<1>2. wallet[u].locked = Cardinality(Units(ws))
  BY PaymentsAssumption DEF Init, InitWallet
<1>3. IsFiniteSet(ws)
  BY FS_Subset, PaymentsAssumption
<1>4. IsFiniteSet(Units(ws))
  <2> DEFINE f == [w \in ws |-> {w} \X (1..AmountOf[w])]
             parts == {f[w] : w \in ws}
  <2>1. f \in Surjection(ws, parts)
    BY DEF Surjection
  <2>2. IsFiniteSet(parts)
    BY <1>3, <2>1, FS_Surjection
  <2>3. \A x \in parts : IsFiniteSet(x)
    <3> SUFFICES ASSUME NEW w \in ws PROVE IsFiniteSet({w} \X (1..AmountOf[w]))
      OBVIOUS
    <3>1. AmountOf[w] \in Int /\ 1 \in Int
      <4>1. w \in Withdrawals
        BY PaymentsAssumption
      <4> QED
        BY <4>1, Payable
    <3>2. IsFiniteSet({w})
      BY FS_Singleton
    <3>3. IsFiniteSet(1..AmountOf[w])
      BY <3>1, FS_Interval
    <3> QED
      BY <3>2, <3>3, FS_Product
  <2>4. Units(ws) = UNION parts
    BY DEF Units
  <2> HIDE DEF parts
  <2> QED
    BY <2>2, <2>3, <2>4, FS_UNION
<1> QED
  BY <1>1, <1>2, <1>4

\* What a movement adds to the money held.
Holds(mode, amount) ==
    IF mode = "HOLD" THEN amount
    ELSE IF mode \in {"RELEASE", "CONSUME"} THEN -amount ELSE 0

LEMMA PlanHolds ==
    ASSUME NEW w \in WalletRow, NEW mode \in {"CREDIT", "HOLD", "RELEASE", "CONSUME"}, NEW amount \in Nat
    PROVE  Plan(w, mode, amount).locked = w.locked + Holds(mode, amount)
<1>1. CASE mode = "CREDIT"
  <2>1. Plan(w, mode, amount) = [w EXCEPT !.balance = @ + amount]
    BY <1>1 DEF Plan
  <2> QED
    BY <1>1, <2>1 DEF Holds, WalletRow
<1>2. CASE mode = "HOLD"
  <2>1. Plan(w, mode, amount) = [w EXCEPT !.balance = @ - amount, !.locked = @ + amount]
    BY <1>2 DEF Plan
  <2> QED
    BY <1>2, <2>1 DEF Holds, WalletRow
<1>3. CASE mode = "RELEASE"
  <2>1. Plan(w, mode, amount) = [w EXCEPT !.balance = @ + amount, !.locked = @ - amount]
    BY <1>3 DEF Plan
  <2> QED
    BY <1>3, <2>1 DEF Holds, WalletRow
<1>4. CASE mode = "CONSUME"
  <2>1. Plan(w, mode, amount) = [w EXCEPT !.locked = @ - amount]
    BY <1>4 DEF Plan
  <2> QED
    BY <1>4, <2>1 DEF Holds, WalletRow
<1> QED
  BY <1>1, <1>2, <1>3, <1>4

\* A movement that was not made before.
LEMMA LockedMoves ==
    ASSUME MoneyTyped, NEW u \in Users, NEW mode \in {"CREDIT", "HOLD", "RELEASE", "CONSUME"},
           NEW type, NEW ref, NEW amount \in Nat, Mutate(u, mode, type, ref, amount),
           ~ Recorded(u, type, ref)
    PROVE  /\ wallet'[u].locked = wallet[u].locked + Holds(mode, amount)
           /\ \A v \in Users \ {u} : wallet'[v].locked = wallet[v].locked
<1>1. wallet' = [wallet EXCEPT ![u] = Plan(wallet[u], mode, amount)]
  BY DEF Mutate
<1>2. wallet'[u].locked = wallet[u].locked + Holds(mode, amount)
  BY <1>1, PlanHolds DEF MoneyTyped
<1>3. \A v \in Users \ {u} : wallet'[v] = wallet[v]
  BY <1>1 DEF MoneyTyped
<1> QED
  BY <1>2, <1>3

\* Money that is credited is not held.
LEMMA CreditsHoldNothing ==
    ASSUME MoneyTyped, HeldIsLocked, HeldFinite, NEW s \in Submissions, UNCHANGED withdrawal,
           Mutate(OwnerOf[s], "CREDIT", "DEPOSIT", s, AmountOf[s])
    PROVE  HeldIsLocked' /\ HeldFinite'
<1>1. OwnerOf[s] \in Users /\ AmountOf[s] \in Nat
  BY Payable
<1>2. \A u \in Users : wallet'[u].locked = wallet[u].locked
  <2>1. CASE Recorded(OwnerOf[s], "DEPOSIT", s)
    BY <2>1 DEF Mutate, walletVars
  <2>2. CASE ~ Recorded(OwnerOf[s], "DEPOSIT", s)
    <3>1. /\ wallet'[OwnerOf[s]].locked = wallet[OwnerOf[s]].locked + Holds("CREDIT", AmountOf[s])
          /\ \A v \in Users \ {OwnerOf[s]} : wallet'[v].locked = wallet[v].locked
      BY <1>1, <2>2, LockedMoves
    <3>2. Holds("CREDIT", AmountOf[s]) = 0 /\ wallet[OwnerOf[s]].locked \in Nat
      BY <1>1 DEF Holds, MoneyTyped, WalletRow
    <3> QED
      BY <3>1, <3>2
  <2> QED
    BY <2>1, <2>2
<1>3. \A u \in Users : HeldOf(u)' = HeldOf(u)
  BY DEF HeldOf
<1> QED
  BY <1>2, <1>3 DEF HeldIsLocked, HeldFinite, Units

LEMMA HeldStays ==
    ASSUME HeldIsLocked, HeldFinite, UNCHANGED <<walletVars, withdrawal>>
    PROVE  HeldIsLocked' /\ HeldFinite'
<1>1. wallet' = wallet /\ \A u \in Users : HeldOf(u)' = HeldOf(u)
  BY DEF walletVars, HeldOf
<1> QED
  BY <1>1 DEF HeldIsLocked, HeldFinite, Units

\* A withdrawal is requested.
LEMMA RequestLocks ==
    ASSUME IInv, HeldIsLocked, HeldFinite, NEW w \in Withdrawals, RequestWithdrawal(w)
    PROVE  HeldIsLocked' /\ HeldFinite'
<1> DEFINE o == OwnerOf[w]
<1>1. o \in Users /\ AmountOf[w] \in Nat /\ MoneyTyped
  BY Payable DEF IInv, Typed
<1>2. /\ withdrawal[w] = "none" /\ withdrawal' = [withdrawal EXCEPT ![w] = "PENDING"]
      /\ Mutate(o, "HOLD", "WITHDRAW_REQUEST", w, AmountOf[w])
  BY DEF RequestWithdrawal
<1>3. ~ Recorded(o, "WITHDRAW_REQUEST", w)
  BY <1>2 DEF IInv, RequestRecorded
<1>4. /\ wallet'[o].locked = wallet[o].locked + AmountOf[w]
      /\ \A v \in Users \ {o} : wallet'[v].locked = wallet[v].locked
  BY <1>1, <1>2, <1>3, LockedMoves DEF Holds
<1>5. /\ HeldOf(o)' = HeldOf(o) \cup {w} /\ HeldOf(o) \in SUBSET Withdrawals /\ w \notin HeldOf(o)
      /\ \A v \in Users \ {o} : HeldOf(v)' = HeldOf(v)
  BY <1>2 DEF HeldOf, IInv, Typed, RowsTyped
<1>6. \A ws : Units(ws)' = Units(ws)
  BY DEF Units
<1>7. IsFiniteSet(Units(HeldOf(o))) /\ wallet[o].locked = Cardinality(Units(HeldOf(o)))
  BY <1>1 DEF HeldIsLocked, HeldFinite
<1>8. /\ IsFiniteSet(Units(HeldOf(o) \cup {w}))
      /\ Cardinality(Units(HeldOf(o) \cup {w})) = Cardinality(Units(HeldOf(o))) + AmountOf[w]
  BY <1>5, <1>7, UnitsAdded
<1>9. ASSUME NEW u \in Users
      PROVE  wallet'[u].locked = Cardinality(Units(HeldOf(u)')) /\ IsFiniteSet(Units(HeldOf(u)'))
  <2>1. CASE u = o
    BY <1>4, <1>5, <1>7, <1>8, <2>1
  <2>2. CASE u # o
    BY <1>4, <1>5, <2>2 DEF HeldIsLocked, HeldFinite
  <2> QED
    BY <2>1, <2>2
<1> QED
  BY <1>9 DEF HeldIsLocked, HeldFinite, Units

\* A withdrawal is paid or rejected.
LEMMA DecisionUnlocks ==
    ASSUME IInv, HeldIsLocked, HeldFinite, NEW w \in Withdrawals,
           withdrawal[w] \in {"PENDING", "APPROVED"}, NEW status \in {"PAID", "REJECTED"},
           withdrawal' = [withdrawal EXCEPT ![w] = status],
           NEW mode \in {"RELEASE", "CONSUME"}, NEW type \in {"WITHDRAW_PAID", "WITHDRAW_REFUND"},
           Mutate(OwnerOf[w], mode, type, w, AmountOf[w])
    PROVE  HeldIsLocked' /\ HeldFinite'
<1> DEFINE o == OwnerOf[w]
<1>1. o \in Users /\ AmountOf[w] \in Nat /\ MoneyTyped
  BY Payable DEF IInv, Typed
<1>2. ~ Recorded(o, type, w)
  BY DEF IInv, SettledAsDecided
<1>3. /\ wallet'[o].locked = wallet[o].locked + (-AmountOf[w])
      /\ \A v \in Users \ {o} : wallet'[v].locked = wallet[v].locked
  <2>1. Holds(mode, AmountOf[w]) = -AmountOf[w]
    BY DEF Holds
  <2> QED
    BY <1>1, <1>2, <2>1, LockedMoves
<1>4. /\ HeldOf(o)' = HeldOf(o) \ {w} /\ HeldOf(o) \in SUBSET Withdrawals /\ w \in HeldOf(o)
      /\ \A v \in Users \ {o} : HeldOf(v)' = HeldOf(v)
  BY DEF HeldOf, IInv, Typed, RowsTyped
<1>5. IsFiniteSet(Units(HeldOf(o))) /\ wallet[o].locked = Cardinality(Units(HeldOf(o)))
  BY <1>1 DEF HeldIsLocked, HeldFinite
<1>6. /\ IsFiniteSet(Units(HeldOf(o) \ {w})) /\ Cardinality(Units(HeldOf(o) \ {w})) \in Nat
      /\ Cardinality(Units(HeldOf(o))) = Cardinality(Units(HeldOf(o) \ {w})) + AmountOf[w]
  BY <1>4, <1>5, UnitsRemoved
<1>7. ASSUME NEW u \in Users
      PROVE  wallet'[u].locked = Cardinality(Units(HeldOf(u)')) /\ IsFiniteSet(Units(HeldOf(u)'))
  <2>1. CASE u = o
    <3>1. wallet'[o].locked = Cardinality(Units(HeldOf(o) \ {w}))
      BY <1>1, <1>3, <1>5, <1>6
    <3> QED
      BY <1>4, <1>6, <2>1, <3>1
  <2>2. CASE u # o
    BY <1>3, <1>4, <2>2 DEF HeldIsLocked, HeldFinite
  <2> QED
    BY <2>1, <2>2
<1> QED
  BY <1>7 DEF HeldIsLocked, HeldFinite, Units

LEMMA NextHeld == IInv /\ HeldIsLocked /\ HeldFinite /\ [Next]_vars => HeldIsLocked' /\ HeldFinite'
<1> SUFFICES ASSUME IInv, HeldIsLocked, HeldFinite, [Next]_vars
             PROVE  HeldIsLocked' /\ HeldFinite'
  OBVIOUS
<1>1. CASE UNCHANGED vars
  BY <1>1, HeldStays DEF vars
<1>2. ASSUME NEW s \in Submissions,
             SubmitDeposit(s) \/ RefuseReceipt(s) \/ CreatePending(s) \/ CreateApproved(s)
      PROVE  HeldIsLocked' /\ HeldFinite'
  <2>1. UNCHANGED withdrawal /\ MoneyTyped
    BY <1>2 DEF SubmitDeposit, RefuseReceipt, CreatePending, CreateApproved, IInv, Typed
  <2>2. UNCHANGED walletVars \/ Mutate(OwnerOf[s], "CREDIT", "DEPOSIT", s, AmountOf[s])
    BY <1>2 DEF SubmitDeposit, RefuseReceipt, CreatePending, CreateApproved, walletVars
  <2> QED
    BY <2>1, <2>2, HeldStays, CreditsHoldNothing
<1>3. ASSUME NEW w \in Withdrawals, RequestWithdrawal(w)
      PROVE  HeldIsLocked' /\ HeldFinite'
  BY <1>3, RequestLocks
<1>4. ASSUME NEW a \in Admins, NEW call \in Calls, Open(a, call)
      PROVE  HeldIsLocked' /\ HeldFinite'
  BY <1>4, HeldStays DEF Open
<1>5. ASSUME NEW a \in Admins, ApproveDeposit(a) \/ RejectDeposit(a)
      PROVE  HeldIsLocked' /\ HeldFinite'
  <2>1. PICK s \in Submissions : s = admin[a].id
    BY <1>5, CallOf DEF IInv, Typed, ApproveDeposit, RejectDeposit
  <2>2. UNCHANGED withdrawal /\ MoneyTyped
    BY <1>5 DEF ApproveDeposit, RejectDeposit, IInv, Typed
  <2>3. UNCHANGED walletVars \/ Mutate(OwnerOf[s], "CREDIT", "DEPOSIT", s, AmountOf[s])
    BY <1>5, <2>1 DEF ApproveDeposit, RejectDeposit, walletVars
  <2> QED
    BY <2>2, <2>3, HeldStays, CreditsHoldNothing
<1>6. ASSUME NEW a \in Admins,
             ApproveWithdrawal(a) \/ RejectWithdrawal(a) \/ MarkWithdrawalPaid(a)
      PROVE  HeldIsLocked' /\ HeldFinite'
  <2>1. PICK w \in Withdrawals : w = admin[a].id
    BY <1>6, CallOf DEF IInv, Typed, ApproveWithdrawal, RejectWithdrawal, MarkWithdrawalPaid, Settle
  <2>2. Accepts(admin[a]) => withdrawal[w] \in {"PENDING", "APPROVED"}
    BY <1>6, <2>1 DEF ApproveWithdrawal, RejectWithdrawal, MarkWithdrawalPaid, Settle, Accepts
  <2>3. CASE UNCHANGED <<walletVars, withdrawal>>
    BY <2>3, HeldStays
  <2>4. CASE /\ Accepts(admin[a]) /\ withdrawal' = [withdrawal EXCEPT ![w] = "PAID"]
             /\ Mutate(OwnerOf[w], "CONSUME", "WITHDRAW_PAID", w, AmountOf[w])
    BY <2>2, <2>4, DecisionUnlocks
  <2>5. CASE /\ Accepts(admin[a]) /\ withdrawal' = [withdrawal EXCEPT ![w] = "REJECTED"]
             /\ Mutate(OwnerOf[w], "RELEASE", "WITHDRAW_REFUND", w, AmountOf[w])
    BY <2>2, <2>5, DecisionUnlocks
  <2> QED
    BY <1>6, <2>1, <2>3, <2>4, <2>5
    DEF ApproveWithdrawal, RejectWithdrawal, MarkWithdrawalPaid, Settle
<1> QED
  BY <1>1, <1>2, <1>3, <1>4, <1>5, <1>6 DEF Next

\* The money a wallet holds back is exactly the money of its user's undecided
\* withdrawals, for any amounts, although administrators decide at the same
\* time: none is released twice, spent while it is held, or forgotten.
THEOREM HeldMoneyIsLocked == Spec => []HeldIsLocked
<1>1. Init => HeldIsLocked /\ HeldFinite
  BY InitHeld
<1>2. IInv /\ HeldIsLocked /\ HeldFinite /\ [Next]_vars => HeldIsLocked' /\ HeldFinite'
  BY NextHeld
<1> QED
  BY <1>1, <1>2, Invariant, PTL DEF Spec
=============================================================================
