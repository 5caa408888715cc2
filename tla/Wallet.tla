------------------------------- MODULE Wallet -------------------------------
(***************************************************************************)
(* The wallets and their ledger (wallet.service.ts).  Every movement of    *)
(* money is one call of applyWalletMutation inside its caller's database   *)
(* transaction: the conditional update of the wallet row takes that row's  *)
(* lock and keeps it until the transaction commits, so that a movement,    *)
(* with the rest of its transaction, is one step here.  A movement that is *)
(* not covered makes the caller's transaction fail: callers test `Covered' *)
(* and change nothing when it does not hold.                               *)
(***************************************************************************)
EXTENDS Integers, Sequences

CONSTANTS
    Users,      \* the owners of the wallets
    Opening     \* what each wallet holds at the start

ASSUME WalletAssumption ==
    Opening \in [Users -> [balance : Nat, locked : Nat, bonus : Nat]]

VARIABLES
    wallet,     \* the Wallet row of each user
    ledger      \* the WalletTransaction rows of each user, in order

walletVars == <<wallet, ledger>>

-----------------------------------------------------------------------------
TransactionType ==
    {"DEPOSIT", "WITHDRAW_REQUEST", "WITHDRAW_PAID", "WITHDRAW_REFUND",
     "GAME_ENTRY", "REFUND"}

InitWallet ==
    /\ wallet = Opening
    /\ ledger = [u \in Users |-> <<>>]

\* The ledger is unique in user, type and reference.
Recorded(u, type, ref) ==
    \E i \in 1..Len(ledger[u]) :
        ledger[u][i].type = type /\ ledger[u][i].ref = ref

\* Faulty variant: money that is held already can be spent again.
CoveredByTotal(u, mode, amount) ==
    LET total == wallet[u].balance + wallet[u].locked
    IN  /\ mode \in {"DEBIT", "HOLD"} => total >= amount
        /\ mode \in {"RELEASE", "CONSUME"} => wallet[u].locked >= amount

\* resolveMutationPlan: what a movement needs.
Covered(u, mode, amount) ==
    /\ mode \in {"DEBIT", "HOLD"} => wallet[u].balance >= amount
    /\ mode \in {"RELEASE", "CONSUME"} => wallet[u].locked >= amount

\* Faulty variant: releasing held money leaves it held.
PlanKeepsHold(w, mode, amount) ==
    CASE mode \in {"CREDIT", "RELEASE"} -> [w EXCEPT !.balance = @ + amount]
      [] mode = "DEBIT"   -> [w EXCEPT !.balance = @ - amount]
      [] mode = "HOLD"    -> [w EXCEPT !.balance = @ - amount,
                                       !.locked = @ + amount]
      [] mode = "CONSUME" -> [w EXCEPT !.locked = @ - amount]

\* resolveMutationPlan: what a movement does to the wallet.
Plan(w, mode, amount) ==
    CASE mode = "CREDIT"  -> [w EXCEPT !.balance = @ + amount]
      [] mode = "DEBIT"   -> [w EXCEPT !.balance = @ - amount]
      [] mode = "HOLD"    -> [w EXCEPT !.balance = @ - amount,
                                       !.locked = @ + amount]
      [] mode = "RELEASE" -> [w EXCEPT !.balance = @ + amount,
                                       !.locked = @ - amount]
      [] mode = "CONSUME" -> [w EXCEPT !.locked = @ - amount]

\* Faulty variant: consuming held money is booked as if it left the balance.
BalanceBeforeAnyDebit(w, mode, amount) ==
    IF mode \in {"CREDIT", "RELEASE"} THEN w.balance - amount
    ELSE w.balance + amount

\* resolveLedgerBalances works the balance before out of the balance after.
BalanceBefore(w, mode, amount) ==
    CASE mode \in {"CREDIT", "RELEASE"} -> w.balance - amount
      [] mode \in {"DEBIT", "HOLD"}     -> w.balance + amount
      [] mode = "CONSUME"               -> w.balance

\* The ledger row of a movement, `w' being the wallet before it.
Row(w, mode, type, ref, amount) ==
    LET after == Plan(w, mode, amount)
    IN  [type |-> type, ref |-> ref, amount |-> amount,
         before |-> BalanceBefore(after, mode, amount), after |-> after.balance]

\* applyWalletMutation, of a movement that is covered.  A movement that is
\* recorded already is not made again.
Mutate(u, mode, type, ref, amount) ==
    IF Recorded(u, type, ref)
    THEN UNCHANGED walletVars
    ELSE /\ wallet' = [wallet EXCEPT ![u] = Plan(@, mode, amount)]
         /\ ledger' = [ledger EXCEPT
                         ![u] = Append(@, Row(wallet[u], mode, type, ref, amount))]

-----------------------------------------------------------------------------
\* Amounts are natural numbers: no wallet is overdrawn, in available or in held
\* money (the CHECK constraints of the wallet table say the same).
WalletTypeOK ==
    /\ wallet \in [Users -> [balance : Nat, locked : Nat, bonus : Nat]]
    /\ \A u \in Users : \A i \in 1..Len(ledger[u]) :
         /\ ledger[u][i].type \in TransactionType
         /\ ledger[u][i].amount \in Nat /\ ledger[u][i].before \in Int
         /\ ledger[u][i].after \in Nat

\* The ledger explains the balance: it starts at the opening balance, every row
\* starts where the one before it ended, and the last ends at the balance.
LedgerChains ==
    \A u \in Users :
        LET rows == ledger[u]
            end(i) == IF i = 0 THEN Opening[u].balance ELSE rows[i].after
        IN  /\ \A i \in 1..Len(rows) : rows[i].before = end(i - 1)
            /\ wallet[u].balance = end(Len(rows))
=============================================================================
