------------------------- MODULE RegistrationProofs -------------------------
(***************************************************************************)
(* Proofs about Registration, for any users, cartelas, requests and holds, *)
(* any fees and durations, with and without failures.                      *)
(*                                                                         *)
(* What a registering transaction has read of the session and of the       *)
(* cartelas stays so until it writes, because it holds the session's lock  *)
(* (`Locked'); what it has read of the holds need not.                     *)
(***************************************************************************)
EXTENDS Registration, FiniteSetTheorems, FunctionTheorems, SequenceTheorems, TLAPS

WalletRow == [balance : Nat, locked : Nat, bonus : Nat]
EntryRow == [status : {"REGISTERED", "CANCELLED"}, user : Users,
             source : {"BONUS_CARTELA", "MONEY_WALLET"}]
SessionRow == [status : {"READY", "PLAYING", "CANCELLED"}, prize : Nat,
               mode : {"AUTO", "MANUAL"}, startIn : Int]
HoldRow == [status : {"none", "ACTIVE", "EXPIRED", "CANCELLED", "CONFIRMED"}, left : Int]

Typed ==
    /\ wallet \in [Users -> WalletRow]
    /\ session \in SessionRow
    /\ entry \in [Cartelas -> {NoEntry} \cup EntryRow]
    /\ hold \in [Holds -> HoldRow]
    /\ register \in [Requests -> [pc : {"new", "write", "done"}, items : Seq(Cartelas),
                                  own : SUBSET Holds]]
    /\ confirm \in [Holds -> {"new", "lock", "write", "done"}]
    /\ operator.to \in {"AUTO", "MANUAL"}

Distinct(s) == \A i, j \in 1 .. Len(s) : s[i] = s[j] => i = j

\* The transaction that writes holds the lock of a session that is not
\* cancelled; the cartelas it will register are free, and the holds it will
\* confirm are its caller's.
Locked ==
    /\ \A r \in Requests : register[r].pc = "write" => lock = r
    /\ \A h \in Holds : confirm[h] = "write" => lock = h
    /\ lock # NoOne => session.status # "CANCELLED"
    /\ \A r \in Requests : register[r].pc = "write" =>
         /\ Distinct(register[r].items)
         /\ \A i \in 1 .. Len(register[r].items) : entry[register[r].items[i]] = NoEntry
         /\ \A h \in register[r].own :
              PlayerOf[h] = PlayerOf[r] /\ entry[CartelaOf[h]] = NoEntry

CancelledEmpty == session.status = "CANCELLED" => Registered = {}

IInv ==
    /\ Typed /\ Locked /\ CancelledEmpty
    /\ ConfirmedOwns /\ PrizeMatchesEntries /\ PaidForWhatIsRegistered

-----------------------------------------------------------------------------
(* Numbers and sets.                                                       *)

LEMMA LesserOf ==
    ASSUME NEW a \in Nat, NEW b \in Nat
    PROVE  Min({a, b}) = IF a <= b THEN a ELSE b
<1>1. \E x \in {a, b} : \A y \in {a, b} : x <= y
  OBVIOUS
<1> QED
  BY <1>1 DEF Min

\* Distinct cartelas at the positions from a to b are b - a + 1.
LEMMA CountPositions ==
    ASSUME NEW s \in Seq(Cartelas), Distinct(s), NEW a \in Nat \ {0}, NEW b \in Nat,
           a <= b + 1, b <= Len(s)
    PROVE  LET T == {s[i] : i \in a .. b}
           IN  IsFiniteSet(T) /\ Cardinality(T) = b - a + 1
<1> DEFINE T == {s[i] : i \in a .. b}
           f == [i \in a .. b |-> s[i]]
<1>1. IsFiniteSet(a .. b) /\ Cardinality(a .. b) = b - a + 1
  <2>1. a \in Int /\ b \in Int
    OBVIOUS
  <2>2. IsFiniteSet(a .. b) /\ Cardinality(a .. b) = IF a > b THEN 0 ELSE b - a + 1
    BY <2>1, FS_Interval, ZenonT(20)
  <2> QED
    BY <2>2
<1>2. \A i \in a .. b : i \in 1 .. Len(s)
  OBVIOUS
<1>3. f \in Bijection(a .. b, T)
  BY <1>2 DEF Bijection, Injection, Surjection, IsInjective, Distinct
<1>4. ExistsBijection(a .. b, T)
  BY <1>3 DEF ExistsBijection
<1> QED
  BY <1>1, <1>4, FS_Bijection

LEMMA CountTogether ==
    ASSUME NEW S, IsFiniteSet(S), NEW T, IsFiniteSet(T), S \cap T = {}
    PROVE  IsFiniteSet(S \cup T) /\ Cardinality(S \cup T) = Cardinality(S) + Cardinality(T)
<1>1. Cardinality(S) \in Nat /\ Cardinality(T) \in Nat /\ Cardinality(S \cap T) = 0
  BY FS_CardinalityType, FS_EmptySet
<1>2. /\ IsFiniteSet(S \cup T)
      /\ Cardinality(S \cup T) = Cardinality(S) + Cardinality(T) - Cardinality(S \cap T)
  BY FS_Union, ZenonT(20)
<1> QED
  BY <1>1, <1>2

\* What a user pays: as many as there are, no more than he can.
LEMMA PaysWhatHeCan ==
    ASSUME Typed, NEW u \in Users, NEW n \in Nat
    PROVE  /\ BonusPays(u, n) \in Nat /\ BonusPays(u, n) <= n
           /\ BonusPays(u, n) <= wallet[u].bonus
           /\ MoneyPays(u, n) \in Nat /\ BonusPays(u, n) + MoneyPays(u, n) <= n
           /\ MoneyPays(u, n) * EntryFee <= wallet[u].balance
<1>1. wallet[u].bonus \in Nat /\ wallet[u].balance \in Nat /\ EntryFee \in Nat \ {0}
  BY RegistrationAssumption DEF Typed, WalletRow
<1>2. BonusPays(u, n) \in Nat /\ BonusPays(u, n) <= n /\ BonusPays(u, n) <= wallet[u].bonus
  BY <1>1, LesserOf DEF BonusPays
<1> DEFINE q == wallet[u].balance \div EntryFee
<1>3. q \in Nat /\ q * EntryFee <= wallet[u].balance
  BY <1>1
<1>4. n - BonusPays(u, n) \in Nat
  BY <1>2
<1>5. MoneyPays(u, n) = IF n - BonusPays(u, n) <= q THEN n - BonusPays(u, n) ELSE q
  BY <1>3, <1>4, LesserOf DEF MoneyPays
<1> HIDE DEF q
<1>6. MoneyPays(u, n) \in Nat /\ MoneyPays(u, n) <= q /\ BonusPays(u, n) + MoneyPays(u, n) <= n
  BY <1>2, <1>3, <1>4, <1>5
<1>7. MoneyPays(u, n) * EntryFee <= q * EntryFee
  BY <1>1, <1>3, <1>6
<1>8. MoneyPays(u, n) * EntryFee \in Nat /\ q * EntryFee \in Nat
  BY <1>1, <1>3, <1>6
<1> QED
  BY <1>1, <1>2, <1>3, <1>6, <1>7, <1>8

LEMMA PlaceOf ==
    ASSUME NEW s \in Seq(Cartelas), Distinct(s), NEW i \in 1 .. Len(s)
    PROVE  Place(s[i], s) = i
<1>1. DOMAIN s = 1 .. Len(s)
  OBVIOUS
<1>2. \A j \in DOMAIN s : s[j] = s[i] => j = i
  BY <1>1 DEF Distinct
<1> QED
  BY <1>1, <1>2 DEF Place

LEMMA FirstOnes ==
    ASSUME NEW s \in Seq(Cartelas), NEW k \in 0 .. Len(s)
    PROVE  ToSet(SubSeq(s, 1, k)) = {s[i] : i \in 1 .. k}
<1>1. SubSeq(s, 1, k) = [i \in 1 .. k |-> s[i]]
  BY SubSeqProperties
<1> QED
  BY <1>1 DEF ToSet

LEMMA RowsOf ==
    ASSUME NEW u \in Users, NEW source \in {"BONUS_CARTELA", "MONEY_WALLET"}
    PROVE  /\ Entry(u, source) \in EntryRow /\ Entry(u, source) # NoEntry
           /\ Entry(u, source).user = u /\ Entry(u, source).source = source
           /\ Entry(u, source).status = "REGISTERED" /\ NoEntry.status = "none"
  BY DEF Entry, EntryRow, NoEntry

\* The first cartelas are paid with bonus cartelas, those that follow with money.
ByBonus(u, s) == {s[i] : i \in 1 .. BonusPays(u, Len(s))}
ByMoney(u, s) == {s[i] : i \in BonusPays(u, Len(s)) + 1 ..
                                 BonusPays(u, Len(s)) + MoneyPays(u, Len(s))}

LEMMA EnteredRows ==
    ASSUME Typed, NEW u \in Users, NEW s \in Seq(Cartelas), Distinct(s), Enter(u, s)
    PROVE  /\ ByBonus(u, s) \cap ByMoney(u, s) = {}
           /\ ByBonus(u, s) \cup ByMoney(u, s) \subseteq {s[i] : i \in 1 .. Len(s)}
           /\ entry' = [c \in Cartelas |->
                IF c \in ByBonus(u, s) THEN Entry(u, "BONUS_CARTELA")
                ELSE IF c \in ByMoney(u, s) THEN Entry(u, "MONEY_WALLET")
                ELSE entry[c]]
<1> DEFINE n == BonusPays(u, Len(s))
           m == MoneyPays(u, Len(s))
<1>1. Len(s) \in Nat
  OBVIOUS
<1>2. n \in Nat /\ m \in Nat /\ n + m <= Len(s)
  BY <1>1, PaysWhatHeCan
<1>3. ByBonus(u, s) = {s[i] : i \in 1 .. n} /\ ByMoney(u, s) = {s[i] : i \in n + 1 .. n + m}
  BY DEF ByBonus, ByMoney
<1>4. entry' = [c \in Cartelas |->
         IF c \in ToSet(SubSeq(s, 1, n + m))
         THEN Entry(u, IF Place(c, s) <= n THEN "BONUS_CARTELA" ELSE "MONEY_WALLET")
         ELSE entry[c]]
  BY DEF Enter
<1> HIDE DEF n, m
<1>5. ToSet(SubSeq(s, 1, n + m)) = {s[i] : i \in 1 .. n + m}
  BY <1>2, FirstOnes
<1>6. \A i \in 1 .. n + m : i \in 1 .. Len(s) /\ Place(s[i], s) = i
  BY <1>1, <1>2, PlaceOf
<1>7. /\ ByBonus(u, s) \cap ByMoney(u, s) = {}
      /\ ByBonus(u, s) \cup ByMoney(u, s) \subseteq {s[i] : i \in 1 .. Len(s)}
  BY <1>2, <1>3, <1>6
<1>8. ASSUME NEW c \in Cartelas
      PROVE  /\ c \in {s[i] : i \in 1 .. n + m} <=> c \in ByBonus(u, s) \/ c \in ByMoney(u, s)
             /\ c \in ByBonus(u, s) => Place(c, s) <= n
             /\ c \in ByMoney(u, s) => ~ (Place(c, s) <= n)
  BY <1>2, <1>3, <1>6
<1> QED
  BY <1>4, <1>5, <1>7, <1>8

LEMMA ByEach ==
    ASSUME Typed, NEW u \in Users, NEW s \in Seq(Cartelas), Distinct(s)
    PROVE  /\ IsFiniteSet(ByBonus(u, s)) /\ IsFiniteSet(ByMoney(u, s))
           /\ Cardinality(ByBonus(u, s)) = BonusPays(u, Len(s))
           /\ Cardinality(ByMoney(u, s)) = MoneyPays(u, Len(s))
<1> DEFINE n == BonusPays(u, Len(s))
           m == MoneyPays(u, Len(s))
<1>1. n \in Nat /\ m \in Nat /\ n + m <= Len(s) /\ Len(s) \in Nat
  BY PaysWhatHeCan
<1>2. ByBonus(u, s) = {s[i] : i \in 1 .. n} /\ ByMoney(u, s) = {s[i] : i \in n + 1 .. n + m}
  BY DEF ByBonus, ByMoney
<1> HIDE DEF n, m
<1>3. 1 \in Nat \ {0} /\ 1 <= n + 1 /\ n <= Len(s) /\ n - 1 + 1 = n
  BY <1>1
<1>4. IsFiniteSet(ByBonus(u, s)) /\ Cardinality(ByBonus(u, s)) = n
  BY <1>1, <1>2, <1>3, CountPositions
<1>5. /\ n + 1 \in Nat \ {0} /\ n + m \in Nat /\ n + 1 <= n + m + 1 /\ n + m <= Len(s)
      /\ n + m - (n + 1) + 1 = m
  BY <1>1
<1>6. IsFiniteSet(ByMoney(u, s)) /\ Cardinality(ByMoney(u, s)) = m
  <2> DEFINE a == n + 1
             b == n + m
  <2>1. ByMoney(u, s) = {s[i] : i \in a .. b}
    BY <1>2, Zenon
  <2>2. b - a + 1 = m
    BY <1>1
  <2>3. a \in Nat \ {0} /\ b \in Nat /\ a <= b + 1 /\ b <= Len(s)
    BY <1>5
  <2> HIDE DEF a, b
  <2> QED
    BY <2>1, <2>2, <2>3, CountPositions
<1> QED
  BY <1>4, <1>6 DEF n, m

LEMMA FiniteSets ==
    ASSUME Typed
    PROVE  /\ IsFiniteSet(Registered)
           /\ \A u, source : IsFiniteSet(PaidBy(u, source))
<1>1. IsFiniteSet(Registered)
  BY RegistrationAssumption, FS_Subset DEF Registered
<1> QED
  BY <1>1, FS_Subset DEF PaidBy

AllFree(s) == \A i \in 1 .. Len(s) : entry[s[i]] = NoEntry

\* What Enter changes and what it leaves.
LEMMA Entering ==
    ASSUME Typed, NEW u \in Users, NEW s \in Seq(Cartelas), Distinct(s), AllFree(s),
           Enter(u, s)
    PROVE  /\ entry' \in [Cartelas -> {NoEntry} \cup EntryRow]
           /\ \A c \in Cartelas : entry[c] # NoEntry => entry'[c] = entry[c]
           /\ \A c \in Cartelas : entry[c] = NoEntry /\ entry'[c] # NoEntry =>
                entry'[c].user = u
           /\ Registered' = Registered \cup (ByBonus(u, s) \cup ByMoney(u, s))
           /\ Registered \cap (ByBonus(u, s) \cup ByMoney(u, s)) = {}
           /\ PaidBy(u, "BONUS_CARTELA")' = PaidBy(u, "BONUS_CARTELA") \cup ByBonus(u, s)
           /\ PaidBy(u, "MONEY_WALLET")' = PaidBy(u, "MONEY_WALLET") \cup ByMoney(u, s)
           /\ \A v \in Users \ {u} : \A source \in {"BONUS_CARTELA", "MONEY_WALLET"} :
                PaidBy(v, source)' = PaidBy(v, source)
<1> DEFINE B == ByBonus(u, s)
           M == ByMoney(u, s)
<1>1. /\ B \cap M = {} /\ B \cup M \subseteq {s[i] : i \in 1 .. Len(s)}
      /\ entry' = [c \in Cartelas |-> IF c \in B THEN Entry(u, "BONUS_CARTELA")
                                      ELSE IF c \in M THEN Entry(u, "MONEY_WALLET")
                                      ELSE entry[c]]
  BY EnteredRows
<1>2. \A c \in B \cup M : c \in Cartelas /\ entry[c] = NoEntry
  BY <1>1 DEF AllFree
<1> HIDE DEF B, M
<1>3. /\ Entry(u, "BONUS_CARTELA") \in EntryRow /\ Entry(u, "BONUS_CARTELA") # NoEntry
      /\ Entry(u, "BONUS_CARTELA").user = u
      /\ Entry(u, "BONUS_CARTELA").source = "BONUS_CARTELA"
      /\ Entry(u, "BONUS_CARTELA").status = "REGISTERED"
      /\ Entry(u, "MONEY_WALLET") \in EntryRow /\ Entry(u, "MONEY_WALLET") # NoEntry
      /\ Entry(u, "MONEY_WALLET").user = u
      /\ Entry(u, "MONEY_WALLET").source = "MONEY_WALLET"
      /\ Entry(u, "MONEY_WALLET").status = "REGISTERED"
      /\ NoEntry.status # "REGISTERED"
  BY RowsOf
<1>4. \A c \in Cartelas :
        /\ c \in B => entry'[c] = Entry(u, "BONUS_CARTELA")
        /\ c \in M => entry'[c] = Entry(u, "MONEY_WALLET")
        /\ c \notin B \cup M => entry'[c] = entry[c]
  BY <1>1
<1>5. entry' \in [Cartelas -> {NoEntry} \cup EntryRow]
  BY <1>1, <1>3 DEF Typed
<1>6. /\ \A c \in Cartelas : entry[c] # NoEntry => entry'[c] = entry[c]
      /\ \A c \in Cartelas : entry[c] = NoEntry /\ entry'[c] # NoEntry => entry'[c].user = u
  BY <1>2, <1>3, <1>4
<1>7. Registered' = Registered \cup (B \cup M) /\ Registered \cap (B \cup M) = {}
  BY <1>2, <1>3, <1>4 DEF Registered
<1>8. PaidBy(u, "BONUS_CARTELA")' = PaidBy(u, "BONUS_CARTELA") \cup B
  BY <1>1, <1>2, <1>3, <1>4 DEF Registered, PaidBy
<1>9. PaidBy(u, "MONEY_WALLET")' = PaidBy(u, "MONEY_WALLET") \cup M
  BY <1>1, <1>2, <1>3, <1>4 DEF Registered, PaidBy
<1>10. ASSUME NEW v \in Users \ {u}, NEW source \in {"BONUS_CARTELA", "MONEY_WALLET"}
       PROVE  PaidBy(v, source)' = PaidBy(v, source)
  BY <1>2, <1>3, <1>4 DEF Registered, PaidBy
<1> QED
  BY <1>5, <1>6, <1>7, <1>8, <1>9, <1>10 DEF B, M

\* What it takes from the player and adds to the prize.
LEMMA Charging ==
    ASSUME Typed, NEW u \in Users, NEW s \in Seq(Cartelas), Distinct(s), Enter(u, s)
    PROVE  /\ wallet' \in [Users -> WalletRow]
           /\ wallet'[u].bonus = wallet[u].bonus - Cardinality(ByBonus(u, s))
           /\ wallet'[u].balance = wallet[u].balance - EntryFee * Cardinality(ByMoney(u, s))
           /\ \A v \in Users \ {u} : wallet'[v] = wallet[v]
           /\ session' \in SessionRow
           /\ session'.status = session.status
           /\ session'.prize = session.prize + PrizePerCartela *
                (Cardinality(ByBonus(u, s)) + Cardinality(ByMoney(u, s)))
<1> DEFINE n == BonusPays(u, Len(s))
           m == MoneyPays(u, Len(s))
           w == [balance |-> wallet[u].balance - m * EntryFee,
                 locked |-> wallet[u].locked, bonus |-> wallet[u].bonus - n]
<1>1. /\ n \in Nat /\ n <= wallet[u].bonus
      /\ m \in Nat /\ m * EntryFee <= wallet[u].balance
  BY PaysWhatHeCan
<1>2. Cardinality(ByBonus(u, s)) = n /\ Cardinality(ByMoney(u, s)) = m
  BY ByEach
<1>3. wallet[u] \in WalletRow /\ EntryFee \in Nat /\ PrizePerCartela \in Nat
  BY RegistrationAssumption DEF Typed
<1>4. wallet[u] = [balance |-> wallet[u].balance, locked |-> wallet[u].locked,
                   bonus |-> wallet[u].bonus]
  BY <1>3 DEF WalletRow
<1>5. wallet' = [wallet EXCEPT ![u].bonus = @ - n, ![u].balance = @ - m * EntryFee]
  BY DEF Enter
<1>6. session' = [session EXCEPT !.prize = @ + (n + m) * PrizePerCartela]
  BY DEF Enter
<1> HIDE DEF n, m
<1>7. /\ DOMAIN wallet' = Users
      /\ \A v \in Users \ {u} : wallet'[v] = wallet[v]
      /\ wallet'[u] = w
  BY <1>4, <1>5 DEF Typed
<1>8. wallet' = [wallet EXCEPT ![u] = w]
  BY <1>5, <1>7 DEF Typed
<1>9. m * EntryFee \in Nat /\ m * EntryFee = EntryFee * m
  BY <1>1, <1>3
<1>10. wallet[u].balance \in Nat /\ wallet[u].locked \in Nat /\ wallet[u].bonus \in Nat
  BY <1>3 DEF WalletRow
<1>11. w \in WalletRow
  BY <1>1, <1>9, <1>10 DEF WalletRow
<1>12. /\ wallet' \in [Users -> WalletRow] /\ wallet'[u] = w
       /\ \A v \in Users \ {u} : wallet'[v] = wallet[v]
  BY <1>8, <1>11 DEF Typed
<1>13. (n + m) * PrizePerCartela \in Nat
       /\ (n + m) * PrizePerCartela = PrizePerCartela * (n + m)
  BY <1>1, <1>3
<1>14. /\ session' \in SessionRow
       /\ session'.status = session.status
       /\ session'.prize = session.prize + PrizePerCartela * (n + m)
  <2> DEFINE k == (n + m) * PrizePerCartela
  <2>1. k \in Nat /\ k = PrizePerCartela * (n + m) /\ session' = [session EXCEPT !.prize = @ + k]
    BY <1>6, <1>13
  <2> HIDE DEF k
  <2> QED
    BY <2>1 DEF Typed, SessionRow
<1> QED
  BY <1>2, <1>9, <1>12, <1>14

-----------------------------------------------------------------------------
(* The steps.                                                              *)

\* Two sums over a set that grows.
LEMMA Growing ==
    ASSUME NEW S, IsFiniteSet(S), NEW T, IsFiniteSet(T), S \cap T = {}, NEW a \in Nat
    PROVE  a * Cardinality(S \cup T) = a * Cardinality(S) + a * Cardinality(T)
<1>1. /\ Cardinality(S \cup T) = Cardinality(S) + Cardinality(T)
      /\ Cardinality(S) \in Nat /\ Cardinality(T) \in Nat
  BY CountTogether, FS_CardinalityType
<1> QED
  BY <1>1

\* Registering keeps the prize and the wallets in step with the registrations.
LEMMA Balanced ==
    ASSUME Typed, PrizeMatchesEntries, PaidForWhatIsRegistered,
           session.status # "CANCELLED",
           NEW u \in Users, NEW s \in Seq(Cartelas), Distinct(s), AllFree(s), Enter(u, s)
    PROVE  CancelledEmpty' /\ PrizeMatchesEntries' /\ PaidForWhatIsRegistered'
<1> DEFINE B == ByBonus(u, s)
           M == ByMoney(u, s)
<1>1. /\ Registered' = Registered \cup (B \cup M) /\ Registered \cap (B \cup M) = {}
      /\ PaidBy(u, "BONUS_CARTELA")' = PaidBy(u, "BONUS_CARTELA") \cup B
      /\ PaidBy(u, "MONEY_WALLET")' = PaidBy(u, "MONEY_WALLET") \cup M
      /\ \A v \in Users \ {u} : \A source \in {"BONUS_CARTELA", "MONEY_WALLET"} :
           PaidBy(v, source)' = PaidBy(v, source)
  BY Entering
<1>2. /\ wallet' \in [Users -> WalletRow]
      /\ wallet'[u].bonus = wallet[u].bonus - Cardinality(B)
      /\ wallet'[u].balance = wallet[u].balance - EntryFee * Cardinality(M)
      /\ \A v \in Users \ {u} : wallet'[v] = wallet[v]
      /\ session'.status = session.status
      /\ session'.prize = session.prize
           + PrizePerCartela * (Cardinality(B) + Cardinality(M))
  BY Charging
<1>3. IsFiniteSet(B) /\ IsFiniteSet(M) /\ B \cap M = {}
  BY ByEach, EnteredRows
<1> HIDE DEF B, M
<1>4. /\ IsFiniteSet(Registered)
      /\ IsFiniteSet(PaidBy(u, "BONUS_CARTELA")) /\ IsFiniteSet(PaidBy(u, "MONEY_WALLET"))
      /\ PaidBy(u, "BONUS_CARTELA") \cap B = {} /\ PaidBy(u, "MONEY_WALLET") \cap M = {}
  <2>1. \A source : PaidBy(u, source) \subseteq Registered
    BY DEF PaidBy
  <2>2. /\ PaidBy(u, "BONUS_CARTELA") \cap B = {} /\ PaidBy(u, "MONEY_WALLET") \cap M = {}
    BY <1>1, <2>1
  <2> QED
    BY <2>2, FiniteSets
<1>5. /\ Cardinality(B) \in Nat /\ Cardinality(M) \in Nat /\ Cardinality(Registered) \in Nat
      /\ Cardinality(PaidBy(u, "BONUS_CARTELA")) \in Nat
      /\ Cardinality(PaidBy(u, "MONEY_WALLET")) \in Nat
      /\ EntryFee \in Nat /\ PrizePerCartela \in Nat
  BY <1>3, <1>4, FS_CardinalityType, RegistrationAssumption
<1>6. PrizeMatchesEntries'
  <2>1. session.prize = PrizePerCartela * Cardinality(Registered)
    BY DEF PrizeMatchesEntries
  <2>2. IsFiniteSet(B \cup M) /\ Cardinality(B \cup M) = Cardinality(B) + Cardinality(M)
    BY <1>3, CountTogether
  <2>3. PrizePerCartela * Cardinality(Registered \cup (B \cup M))
          = PrizePerCartela * Cardinality(Registered) + PrizePerCartela * Cardinality(B \cup M)
    BY <1>1, <1>4, <1>5, <2>2, Growing
  <2> QED
    BY <1>1, <1>2, <2>1, <2>2, <2>3 DEF PrizeMatchesEntries
<1>7. ASSUME NEW v \in Users
      PROVE  /\ wallet'[v].balance + EntryFee * Cardinality(PaidBy(v, "MONEY_WALLET")')
                  = Opening[v].balance
             /\ wallet'[v].bonus + Cardinality(PaidBy(v, "BONUS_CARTELA")')
                  = Opening[v].bonus
             /\ wallet'[v].balance >= 0 /\ wallet'[v].bonus >= 0
  <2>1. wallet'[v].balance >= 0 /\ wallet'[v].bonus >= 0
    BY <1>2 DEF WalletRow
  <2>2. /\ wallet[v].balance + EntryFee * Cardinality(PaidBy(v, "MONEY_WALLET"))
             = Opening[v].balance
        /\ wallet[v].bonus + Cardinality(PaidBy(v, "BONUS_CARTELA")) = Opening[v].bonus
    BY DEF PaidForWhatIsRegistered
  <2>3. CASE v # u
    BY <1>1, <1>2, <2>1, <2>2, <2>3
  <2>4. CASE v = u
    <3>1. EntryFee * Cardinality(PaidBy(u, "MONEY_WALLET") \cup M)
            = EntryFee * Cardinality(PaidBy(u, "MONEY_WALLET")) + EntryFee * Cardinality(M)
      BY <1>3, <1>4, <1>5, Growing
    <3>2. Cardinality(PaidBy(u, "BONUS_CARTELA") \cup B)
            = Cardinality(PaidBy(u, "BONUS_CARTELA")) + Cardinality(B)
      BY <1>3, <1>4, CountTogether
    <3>3. /\ wallet[u].balance \in Nat /\ wallet[u].bonus \in Nat
          /\ EntryFee * Cardinality(PaidBy(u, "MONEY_WALLET")) \in Nat
          /\ EntryFee * Cardinality(M) \in Nat
          /\ Cardinality(B) \in Nat /\ Cardinality(PaidBy(u, "BONUS_CARTELA")) \in Nat
      BY <1>5 DEF Typed, WalletRow
    <3>4. /\ wallet[u].balance + EntryFee * Cardinality(PaidBy(u, "MONEY_WALLET"))
               = Opening[u].balance
          /\ wallet[u].bonus + Cardinality(PaidBy(u, "BONUS_CARTELA")) = Opening[u].bonus
      BY <2>2, <2>4
    <3>5. wallet'[u].balance + EntryFee * Cardinality(PaidBy(u, "MONEY_WALLET") \cup M)
            = Opening[u].balance
      BY <1>2, <3>1, <3>3, <3>4
    <3>6. wallet'[u].bonus + Cardinality(PaidBy(u, "BONUS_CARTELA") \cup B)
            = Opening[u].bonus
      BY <1>2, <3>2, <3>3, <3>4
    <3> QED
      BY <1>1, <2>1, <2>4, <3>5, <3>6
  <2> QED
    BY <2>3, <2>4
<1> QED
  BY <1>2, <1>6, <1>7 DEF CancelledEmpty, PaidForWhatIsRegistered

\* Steps that move no money, no lock and no call.
LEMMA Quiet ==
    ASSUME IInv, UNCHANGED <<wallet, entry, lock, register, confirm>>,
           session' \in SessionRow, session'.prize = session.prize,
           session'.status = "CANCELLED" <=> session.status = "CANCELLED",
           hold' \in [Holds -> HoldRow],
           \A h \in Holds : hold'[h].status = "CONFIRMED" => hold[h].status = "CONFIRMED",
           operator'.to \in {"AUTO", "MANUAL"}
    PROVE  IInv'
<1>1. Typed'
  BY DEF IInv, Typed
<1>2. Locked'
  BY DEF IInv, Locked, Distinct
<1>3. ConfirmedOwns'
  BY DEF IInv, ConfirmedOwns
<1>4. /\ Registered' = Registered
      /\ \A u, source : PaidBy(u, source)' = PaidBy(u, source)
  BY DEF Registered, PaidBy
<1>5. CancelledEmpty' /\ PrizeMatchesEntries' /\ PaidForWhatIsRegistered'
  BY <1>4 DEF IInv, CancelledEmpty, PrizeMatchesEntries, PaidForWhatIsRegistered
<1> QED
  BY <1>1, <1>2, <1>3, <1>5 DEF IInv

LEMMA Listed ==
    ASSUME NEW S \in SUBSET Cartelas, NEW s \in SetToSeqs(S)
    PROVE  /\ s \in Seq(Cartelas) /\ Distinct(s)
           /\ \A i \in 1 .. Len(s) : s[i] \in S
<1>1. Cardinality(S) \in Nat
  BY RegistrationAssumption, FS_Subset, FS_CardinalityType
<1>2. /\ s \in [1 .. Cardinality(S) -> S]
      /\ \A i, j \in 1 .. Cardinality(S) : i # j => s[i] # s[j]
  BY DEF SetToSeqs
<1>3. s \in Seq(Cartelas) /\ Len(s) = Cardinality(S)
  BY <1>1, <1>2
<1> QED
  BY <1>2, <1>3 DEF Distinct

\* Registrations and holds that keep their owner.
LEMMA OwnersKept ==
    ASSUME ConfirmedOwns,
           \A h \in Holds : hold'[h].status = "CONFIRMED" => hold[h].status = "CONFIRMED",
           \A c \in Cartelas : entry[c] # NoEntry =>
             entry'[c] # NoEntry /\ entry'[c].user = entry[c].user
    PROVE  ConfirmedOwns'
  BY RegistrationAssumption DEF ConfirmedOwns

LEMMA StepRegisterLock ==
    ASSUME IInv, NEW r \in Requests, RegisterLock(r)
    PROVE  IInv'
<1> DEFINE u == PlayerOf[r]
           wanted == {c \in ToSet(Items[r]) : entry[c] = NoEntry /\ ~HeldByOther(u, c)}
           own == {h \in Holds : PlayerOf[h] = u /\ \E c \in wanted : h \in Held(c)}
<1>1. UNCHANGED <<wallet, session, entry, hold, confirm, operator>> /\ Free
  BY DEF RegisterLock, rows, walletVars
<1>2. ToSet(Items[r]) \subseteq Cartelas
  BY RegistrationAssumption DEF ToSet
<1>3. \A h \in own : /\ h \in Holds /\ PlayerOf[h] = PlayerOf[r]
                     /\ entry[CartelaOf[h]] = NoEntry
  BY DEF Held
<1>4. wanted \in SUBSET Cartelas /\ \A c \in wanted : entry[c] = NoEntry
  BY <1>2
<1>5. \/ /\ Accepting /\ lock' = r
         /\ \E items \in SetToSeqs(wanted) : register' = [register EXCEPT ![r] =
              [pc |-> "write", items |-> items, own |-> own]]
      \/ lock' = lock /\ register' = [register EXCEPT ![r].pc = "done"]
  BY DEF RegisterLock
<1> HIDE DEF u, wanted, own
<1>6. CASE lock' = lock /\ register' = [register EXCEPT ![r].pc = "done"]
  <2>1. Typed'
    BY <1>1, <1>6 DEF IInv, Typed
  <2>2. Locked'
    BY <1>1, <1>6 DEF IInv, Typed, Locked, Distinct
  <2> QED
    BY <1>1, <2>1, <2>2 DEF IInv, CancelledEmpty, ConfirmedOwns, PrizeMatchesEntries,
       PaidForWhatIsRegistered, Registered, PaidBy
<1>7. ASSUME Accepting, lock' = r, NEW items \in SetToSeqs(wanted),
             register' = [register EXCEPT ![r] =
                            [pc |-> "write", items |-> items, own |-> own]]
      PROVE  IInv'
  <2>1. /\ items \in Seq(Cartelas) /\ Distinct(items)
        /\ \A i \in 1 .. Len(items) : entry[items[i]] = NoEntry
    BY <1>4, Listed
  <2>2. own \subseteq Holds
    BY <1>3
  <2>3. Typed'
    BY <1>1, <1>7, <2>1, <2>2 DEF IInv, Typed
  <2>4. \A q \in Requests \ {r} : register'[q] = register[q] /\ register[q].pc # "write"
    BY <1>1, <1>7, RegistrationAssumption DEF IInv, Typed, Locked, Free
  <2>5. register'[r] = [pc |-> "write", items |-> items, own |-> own]
    BY <1>7 DEF IInv, Typed
  <2>6. \A h \in Holds : confirm[h] # "write"
    BY <1>1, RegistrationAssumption DEF IInv, Locked, Free
  <2>7. session.status # "CANCELLED"
    BY <1>7 DEF Accepting
  <2>8. Locked'
    BY <1>1, <1>3, <1>7, <2>1, <2>4, <2>5, <2>6, <2>7 DEF Locked, Distinct
  <2> QED
    BY <1>1, <2>3, <2>8 DEF IInv, CancelledEmpty, ConfirmedOwns, PrizeMatchesEntries,
       PaidForWhatIsRegistered, Registered, PaidBy
<1> QED
  BY <1>5, <1>6, <1>7

LEMMA StepRegisterWrite ==
    ASSUME IInv, NEW r \in Requests, RegisterWrite(r)
    PROVE  IInv'
<1> DEFINE u == PlayerOf[r]
           items == register[r].items
<1>1. /\ register[r].pc = "write" /\ Enter(u, items)
      /\ hold' = [h \in Holds |->
           IF h \in register[r].own /\ entry'[CartelaOf[h]] # NoEntry
           THEN [hold[h] EXCEPT !.status = "CONFIRMED"] ELSE hold[h]]
      /\ register' = [register EXCEPT ![r] = [AtRest EXCEPT !.pc = "done"]]
      /\ lock' = NoOne /\ UNCHANGED <<confirm, operator>>
  BY DEF RegisterWrite
<1>2. /\ u \in Users /\ items \in Seq(Cartelas) /\ Distinct(items) /\ AllFree(items)
      /\ lock = r /\ session.status # "CANCELLED"
  <2>1. u \in Users /\ items \in Seq(Cartelas)
    BY RegistrationAssumption DEF IInv, Typed
  <2>2. lock = r /\ session.status # "CANCELLED"
    BY <1>1, RegistrationAssumption DEF IInv, Locked
  <2>3. Distinct(items) /\ AllFree(items)
    BY <1>1 DEF IInv, Locked, AllFree
  <2> QED
    BY <2>1, <2>2, <2>3
<1> HIDE DEF u, items
<1>3. /\ entry' \in [Cartelas -> {NoEntry} \cup EntryRow]
      /\ \A c \in Cartelas : entry[c] # NoEntry => entry'[c] = entry[c]
      /\ \A c \in Cartelas : entry[c] = NoEntry /\ entry'[c] # NoEntry => entry'[c].user = u
  BY <1>1, <1>2, Entering DEF IInv
<1>4. wallet' \in [Users -> WalletRow] /\ session' \in SessionRow
  BY <1>1, <1>2, Charging DEF IInv
<1>5. CancelledEmpty' /\ PrizeMatchesEntries' /\ PaidForWhatIsRegistered'
  BY <1>1, <1>2, Balanced DEF IInv
<1>6. hold' \in [Holds -> HoldRow]
  BY <1>1 DEF IInv, Typed, HoldRow
<1>7. [AtRest EXCEPT !.pc = "done"] = [pc |-> "done", items |-> <<>>, own |-> {}]
  BY DEF AtRest
<1>8. register' \in [Requests -> [pc : {"new", "write", "done"}, items : Seq(Cartelas),
                                  own : SUBSET Holds]]
  <2>1. register' = [register EXCEPT ![r] = [pc |-> "done", items |-> <<>>, own |-> {}]]
    BY <1>1, <1>7
  <2>2. <<>> \in Seq(Cartelas)
    OBVIOUS
  <2> QED
    BY <2>1, <2>2 DEF IInv, Typed
<1>9. Typed'
  BY <1>1, <1>3, <1>4, <1>6, <1>8 DEF IInv, Typed
<1>10. /\ \A q \in Requests : register'[q].pc # "write"
       /\ \A h \in Holds : confirm[h] # "write"
  BY <1>1, <1>2, <1>7, RegistrationAssumption DEF IInv, Typed, Locked
<1>11. Locked'
  BY <1>1, <1>10 DEF Locked
<1>12. ConfirmedOwns'
  <2> SUFFICES ASSUME NEW h \in Holds, hold'[h].status = "CONFIRMED"
               PROVE  entry'[CartelaOf[h]] # NoEntry /\ entry'[CartelaOf[h]].user = PlayerOf[h]
    BY DEF ConfirmedOwns
  <2>1. CartelaOf[h] \in Cartelas
    BY RegistrationAssumption
  <2>2. CASE h \in register[r].own /\ entry'[CartelaOf[h]] # NoEntry
    <3>1. entry[CartelaOf[h]] = NoEntry /\ PlayerOf[h] = u
      BY <1>1, <2>2 DEF IInv, Locked, u
    <3> QED
      BY <1>3, <2>1, <2>2, <3>1
  <2>3. CASE ~ (h \in register[r].own /\ entry'[CartelaOf[h]] # NoEntry)
    <3>1. hold[h].status = "CONFIRMED"
      BY <1>1, <2>3
    <3> QED
      BY <1>3, <2>1, <3>1 DEF IInv, ConfirmedOwns
  <2> QED
    BY <2>2, <2>3
<1> QED
  BY <1>5, <1>9, <1>11, <1>12 DEF IInv

LEMMA StepConfirmRead ==
    ASSUME IInv, NEW h \in Holds, ConfirmRead(h)
    PROVE  IInv'
<1>1. /\ UNCHANGED <<wallet, session, entry, hold, lock, register, operator>>
      /\ confirm' = [confirm EXCEPT ![h] = "lock"]
  BY DEF ConfirmRead, rows, walletVars
<1>2. Typed'
  BY <1>1 DEF IInv, Typed
<1>3. Locked'
  BY <1>1 DEF IInv, Typed, Locked, Distinct
<1> QED
  BY <1>1, <1>2, <1>3 DEF IInv, CancelledEmpty, ConfirmedOwns, PrizeMatchesEntries,
     PaidForWhatIsRegistered, Registered, PaidBy

LEMMA StepConfirmLock ==
    ASSUME IInv, NEW h \in Holds, ConfirmLock(h)
    PROVE  IInv'
<1>1. UNCHANGED <<wallet, session, entry, hold, register, operator>> /\ lock = NoOne
  BY DEF ConfirmLock, rows, walletVars, Free
<1>2. \/ Accepting /\ lock' = h /\ confirm' = [confirm EXCEPT ![h] = "write"]
      \/ lock' = lock /\ confirm' = [confirm EXCEPT ![h] = "done"]
  BY DEF ConfirmLock
<1>3. Typed'
  BY <1>1, <1>2 DEF IInv, Typed
<1>4. /\ \A r \in Requests : register[r].pc # "write"
      /\ \A g \in Holds : confirm[g] # "write"
  BY <1>1, RegistrationAssumption DEF IInv, Locked
<1>5. Locked'
  BY <1>1, <1>2, <1>4 DEF IInv, Typed, Locked, Accepting
<1> QED
  BY <1>1, <1>3, <1>5 DEF IInv, CancelledEmpty, ConfirmedOwns, PrizeMatchesEntries,
     PaidForWhatIsRegistered, Registered, PaidBy

LEMMA StepConfirmWrite ==
    ASSUME IInv, NEW h \in Holds, ConfirmWrite(h)
    PROVE  IInv'
<1> DEFINE c == CartelaOf[h]
           u == PlayerOf[h]
<1>1. /\ confirm[h] = "write" /\ confirm' = [confirm EXCEPT ![h] = "done"]
      /\ lock' = NoOne /\ UNCHANGED <<register, operator>>
  BY DEF ConfirmWrite
<1>2. \/ /\ entry[c] = NoEntry /\ BonusPays(u, 1) + MoneyPays(u, 1) = 1
         /\ Enter(u, <<c>>) /\ hold' = [hold EXCEPT ![h].status = "CONFIRMED"]
      \/ UNCHANGED <<wallet, session, entry, hold>>
  BY DEF ConfirmWrite, walletVars
<1>3. u \in Users /\ c \in Cartelas
  BY RegistrationAssumption
<1>4. lock = h /\ session.status # "CANCELLED"
  BY <1>1, RegistrationAssumption DEF IInv, Locked
<1>5. /\ \A r \in Requests : register'[r].pc # "write"
      /\ \A g \in Holds : confirm'[g] # "write"
  BY <1>1, <1>4, RegistrationAssumption DEF IInv, Typed, Locked
<1>6. Locked'
  BY <1>1, <1>5 DEF Locked
<1>7. confirm' \in [Holds -> {"new", "lock", "write", "done"}]
  BY <1>1 DEF IInv, Typed
<1> HIDE DEF c, u
<1>8. CASE UNCHANGED <<wallet, session, entry, hold>>
  <2>1. Typed'
    BY <1>1, <1>7, <1>8 DEF IInv, Typed
  <2> QED
    BY <1>6, <1>8, <2>1 DEF IInv, CancelledEmpty, ConfirmedOwns, PrizeMatchesEntries,
       PaidForWhatIsRegistered, Registered, PaidBy
<1>9. ASSUME entry[c] = NoEntry, BonusPays(u, 1) + MoneyPays(u, 1) = 1, Enter(u, <<c>>),
             hold' = [hold EXCEPT ![h].status = "CONFIRMED"]
      PROVE  IInv'
  <2>1. /\ <<c>> \in Seq(Cartelas) /\ Len(<<c>>) = 1 /\ <<c>>[1] = c
        /\ Distinct(<<c>>) /\ AllFree(<<c>>)
    BY <1>3, <1>9 DEF Distinct, AllFree
  <2>2. /\ entry' \in [Cartelas -> {NoEntry} \cup EntryRow]
        /\ \A d \in Cartelas : entry[d] # NoEntry => entry'[d] = entry[d]
        /\ \A d \in Cartelas : entry[d] = NoEntry /\ entry'[d] # NoEntry => entry'[d].user = u
    BY <1>3, <1>9, <2>1, Entering DEF IInv
  <2>3. wallet' \in [Users -> WalletRow] /\ session' \in SessionRow
    BY <1>3, <1>9, <2>1, Charging DEF IInv
  <2>4. CancelledEmpty' /\ PrizeMatchesEntries' /\ PaidForWhatIsRegistered'
    BY <1>3, <1>4, <1>9, <2>1, Balanced DEF IInv
  <2>5. hold' \in [Holds -> HoldRow]
    BY <1>9 DEF IInv, Typed, HoldRow
  <2>6. Typed'
    BY <1>1, <1>7, <2>2, <2>3, <2>5 DEF IInv, Typed
  <2>7. entry'[c] # NoEntry
    <3>1. BonusPays(u, 1) \in Nat /\ MoneyPays(u, 1) \in Nat
      BY <1>3, PaysWhatHeCan DEF IInv
    <3>2. \/ 1 \in 1 .. BonusPays(u, 1)
          \/ 1 \in BonusPays(u, 1) + 1 .. BonusPays(u, 1) + MoneyPays(u, 1)
      BY <1>9, <3>1
    <3>3. c \in ByBonus(u, <<c>>) \/ c \in ByMoney(u, <<c>>)
      BY <2>1, <3>2 DEF ByBonus, ByMoney
    <3>4. entry' = [d \in Cartelas |->
             IF d \in ByBonus(u, <<c>>) THEN Entry(u, "BONUS_CARTELA")
             ELSE IF d \in ByMoney(u, <<c>>) THEN Entry(u, "MONEY_WALLET")
             ELSE entry[d]]
      BY <1>3, <1>9, <2>1, EnteredRows DEF IInv
    <3> QED
      BY <1>3, <3>3, <3>4, RowsOf
  <2>8. ConfirmedOwns'
    <3> SUFFICES ASSUME NEW g \in Holds, hold'[g].status = "CONFIRMED"
                 PROVE  /\ entry'[CartelaOf[g]] # NoEntry
                        /\ entry'[CartelaOf[g]].user = PlayerOf[g]
      BY DEF ConfirmedOwns
    <3>1. CASE g = h
      BY <1>3, <1>9, <2>2, <2>7, <3>1 DEF c, u
    <3>2. CASE g # h
      <4>1. hold[g].status = "CONFIRMED" /\ CartelaOf[g] \in Cartelas
        BY <1>9, <3>2, RegistrationAssumption DEF IInv, Typed
      <4> QED
        BY <2>2, <4>1 DEF IInv, ConfirmedOwns
    <3> QED
      BY <3>1, <3>2
  <2> QED
    BY <1>6, <2>4, <2>6, <2>8 DEF IInv
<1> QED
  BY <1>2, <1>8, <1>9

\* What a hold may be made is a hold, and only confirming it confirms it.
LEMMA HoldChanges ==
    ASSUME Typed, NEW h \in Holds
    PROVE  /\ hold[h] \in HoldRow
           /\ [status |-> "ACTIVE", left |-> HoldLen] \in HoldRow
           /\ [hold[h] EXCEPT !.left = HoldLen] \in HoldRow
           /\ [hold[h] EXCEPT !.left = HoldLen].status = hold[h].status
           /\ \A st \in {"EXPIRED", "CANCELLED"} :
                /\ [hold[h] EXCEPT !.status = st] \in HoldRow
                /\ [hold[h] EXCEPT !.status = st].status = st
<1>1. hold[h] \in HoldRow
  BY DEF Typed
<1>2. HoldLen \in Int
  BY RegistrationAssumption
<1> QED
  BY <1>1, <1>2 DEF HoldRow

\* Holds that are set, extended, cancelled or found due.
LEMMA StepHold ==
    ASSUME IInv, NEW h \in Holds, ReserveCheck(h) \/ ReserveInsert(h) \/ CancelHold(h)
    PROVE  IInv'
<1>1. UNCHANGED <<wallet, session, entry, lock, register, confirm, operator>>
  BY DEF ReserveCheck, ReserveInsert, CancelHold, calls, walletVars
<1>2. hold \in [Holds -> HoldRow] /\ Typed
  BY DEF IInv, Typed
<1>3. CASE ReserveCheck(h)
  <2>1. hold' \in [Holds -> HoldRow]
    BY <1>2, <1>3, HoldChanges DEF ReserveCheck
  <2>2. \A g \in Holds : hold'[g].status = "CONFIRMED" => hold[g].status = "CONFIRMED"
    BY <1>2, <1>3, HoldChanges DEF ReserveCheck
  <2> QED
    BY <1>1, <2>1, <2>2, Quiet DEF IInv, Typed
<1>4. CASE ReserveInsert(h)
  <2>1. hold' \in [Holds -> HoldRow]
    BY <1>2, <1>4, HoldChanges DEF ReserveInsert
  <2>2. \A g \in Holds : hold'[g].status = "CONFIRMED" => hold[g].status = "CONFIRMED"
    BY <1>2, <1>4, HoldChanges DEF ReserveInsert
  <2> QED
    BY <1>1, <2>1, <2>2, Quiet DEF IInv, Typed
<1>5. CASE CancelHold(h)
  <2>1. hold' \in [Holds -> HoldRow]
    BY <1>2, <1>5, HoldChanges DEF CancelHold
  <2>2. \A g \in Holds : hold'[g].status = "CONFIRMED" => hold[g].status = "CONFIRMED"
    BY <1>2, <1>5, HoldChanges DEF CancelHold
  <2> QED
    BY <1>1, <2>1, <2>2, Quiet DEF IInv, Typed
<1> QED
  BY <1>3, <1>4, <1>5

LEMMA StepExpire ==
    ASSUME IInv, ExpireFind \/ ExpireWrite
    PROVE  IInv'
<1>1. UNCHANGED <<wallet, session, entry, lock, register, confirm, operator>>
  BY DEF ExpireFind, ExpireWrite, calls, walletVars, rows
<1>2. /\ hold' \in [Holds -> HoldRow]
      /\ \A g \in Holds : hold'[g].status = "CONFIRMED" => hold[g].status = "CONFIRMED"
  <2>1. CASE ExpireFind
    BY <2>1 DEF IInv, Typed, ExpireFind, rows
  <2>2. CASE ExpireWrite
    <3>1. hold \in [Holds -> HoldRow] /\ Typed
      BY DEF IInv, Typed
    <3> QED
      BY <2>2, <3>1, HoldChanges DEF ExpireWrite
  <2> QED
    BY <2>1, <2>2
<1> QED
  BY <1>1, <1>2, Quiet DEF IInv, Typed

\* Cancelling: everything that was paid is given back, and no entry is left.
LEMMA Cancelling ==
    ASSUME IInv, CancelCommit, Free, UNCHANGED <<hold, lock, register, confirm, operator>>
    PROVE  IInv'
<1>1. /\ session' = [session EXCEPT !.status = "CANCELLED", !.startIn = Null]
      /\ entry' = [c \in Cartelas |-> IF c \in Registered
                                      THEN [entry[c] EXCEPT !.status = "CANCELLED"]
                                      ELSE entry[c]]
  BY DEF CancelCommit
<1>2. session' \in SessionRow /\ session'.status = "CANCELLED"
  <2>1. session \in SessionRow /\ Null \in Int
    BY DEF IInv, Typed, Null
  <2> QED
    BY <1>1, <2>1 DEF SessionRow
<1>3. \A c \in Registered : entry[c] \in EntryRow
  BY DEF IInv, Typed, Registered, NoEntry
<1>4. \A c \in Cartelas :
        /\ c \in Registered => entry'[c] = [entry[c] EXCEPT !.status = "CANCELLED"]
        /\ c \notin Registered => entry'[c] = entry[c]
  BY <1>1
<1>5. \A c \in Registered : /\ entry'[c] \in EntryRow /\ entry'[c].status = "CANCELLED"
                            /\ entry'[c].user = entry[c].user
  <2> TAKE c \in Registered
  <2>1. entry[c] \in EntryRow /\ entry'[c] = [entry[c] EXCEPT !.status = "CANCELLED"]
    BY <1>3, <1>4 DEF Registered
  <2> QED
    BY <2>1 DEF EntryRow
<1>6. entry' \in [Cartelas -> {NoEntry} \cup EntryRow]
  BY <1>1, <1>4, <1>5 DEF IInv, Typed
<1>7. Registered' = {} /\ \A u, source : PaidBy(u, source)' = {}
  <2>1. \A c \in Cartelas : entry'[c].status # "REGISTERED"
    BY <1>4, <1>5 DEF Registered
  <2> QED
    BY <2>1 DEF Registered, PaidBy
<1>8. \A c \in Cartelas : entry[c] # NoEntry =>
        entry'[c] # NoEntry /\ entry'[c].user = entry[c].user
  <2>1. \A x \in EntryRow : x # NoEntry
    BY DEF EntryRow, NoEntry
  <2> QED
    BY <1>4, <1>5, <2>1
<1>9. ConfirmedOwns'
  BY <1>8, OwnersKept DEF IInv
<1>10. /\ \A r \in Requests : register[r].pc # "write"
       /\ \A g \in Holds : confirm[g] # "write"
  BY RegistrationAssumption DEF IInv, Locked, Free
<1>11. Locked'
  BY <1>10 DEF Locked, Free
<1>12. ASSUME NEW u \in Users
       PROVE  /\ wallet'[u] \in WalletRow
              /\ wallet'[u].balance = Opening[u].balance
              /\ wallet'[u].bonus = Opening[u].bonus
  <2> DEFINE a == EntryFee * Cardinality(PaidBy(u, "MONEY_WALLET"))
             b == Cardinality(PaidBy(u, "BONUS_CARTELA"))
  <2>1. a \in Nat /\ b \in Nat
    BY FiniteSets, FS_CardinalityType, RegistrationAssumption DEF IInv
  <2>2. wallet'[u] = [Plan(wallet[u], "CREDIT", a) EXCEPT !.bonus = @ + b]
    BY DEF CancelCommit, Refund
  <2>3. wallet[u].balance + a = Opening[u].balance /\ wallet[u].bonus + b = Opening[u].bonus
    BY DEF IInv, PaidForWhatIsRegistered
  <2> HIDE DEF a, b
  <2>4. wallet[u] \in WalletRow
    BY DEF IInv, Typed
  <2>5. wallet'[u] = [balance |-> wallet[u].balance + a, locked |-> wallet[u].locked,
                      bonus |-> wallet[u].bonus + b]
    BY <2>2, <2>4 DEF Plan, WalletRow
  <2> QED
    BY <2>1, <2>3, <2>4, <2>5 DEF WalletRow
<1>13. wallet' \in [Users -> WalletRow]
  BY <1>12 DEF CancelCommit, Refund
<1>14. Typed'
  BY <1>2, <1>6, <1>13 DEF IInv, Typed
<1>15. PaidForWhatIsRegistered'
  <2>1. Cardinality({}) = 0 /\ EntryFee * Cardinality({}) = 0
    BY FS_EmptySet, RegistrationAssumption
  <2> SUFFICES ASSUME NEW u \in Users
               PROVE  /\ wallet'[u].balance + EntryFee * Cardinality(PaidBy(u, "MONEY_WALLET")')
                           = Opening[u].balance
                      /\ wallet'[u].bonus + Cardinality(PaidBy(u, "BONUS_CARTELA")')
                           = Opening[u].bonus
                      /\ wallet'[u].balance >= 0 /\ wallet'[u].bonus >= 0
    BY <1>7 DEF PaidForWhatIsRegistered
  <2>2. wallet'[u].balance \in Nat /\ wallet'[u].bonus \in Nat
    BY <1>12 DEF WalletRow
  <2>3. /\ Cardinality(PaidBy(u, "BONUS_CARTELA")') = 0
        /\ EntryFee * Cardinality(PaidBy(u, "MONEY_WALLET")') = 0
    BY <1>7, <2>1
  <2> QED
    BY <1>12, <2>2, <2>3
<1> QED
  BY <1>2, <1>7, <1>9, <1>11, <1>14, <1>15 DEF IInv, CancelledEmpty, PrizeMatchesEntries

\* The scheduler, the operator and other rounds.
LEMMA StepSession ==
    ASSUME IInv, \/ StartGame \/ SwitchRead \/ SwitchWrite \/ LiveEnds \/ LiveStarts
                 \/ RepairCountdown \/ ClaimDue \/ CountPlayers \/ AutoStart
                 \/ SchedulerFail \/ Tick
    PROVE  IInv'
<1>1. UNCHANGED <<wallet, entry, lock, register, confirm>>
  BY DEF StartGame, SwitchRead, SwitchWrite, LiveEnds, LiveStarts, RepairCountdown, ClaimDue,
     CountPlayers, AutoStart, SchedulerFail, Tick, calls, rows, walletVars
<1>2. /\ hold' \in [Holds -> HoldRow]
      /\ \A g \in Holds : hold'[g].status = "CONFIRMED" => hold[g].status = "CONFIRMED"
  <2>1. CASE Tick
    <3>1. \A left \in Int : Countdown(left) \in Int
      BY DEF Countdown
    <3>2. hold' = [h \in Holds |-> [hold[h] EXCEPT !.left = Countdown(@)]]
      BY <2>1 DEF Tick
    <3>3. \A h \in Holds : hold[h] \in HoldRow
      BY DEF IInv, Typed
    <3>4. \A h \in Holds : hold'[h] \in HoldRow /\ hold'[h].status = hold[h].status
      BY <3>1, <3>2, <3>3 DEF HoldRow
    <3> QED
      BY <3>2, <3>4
  <2>2. CASE hold' = hold
    BY <2>2 DEF IInv, Typed
  <2> QED
    BY <2>1, <2>2 DEF StartGame, SwitchRead, SwitchWrite, LiveEnds, LiveStarts,
       RepairCountdown, ClaimDue, CountPlayers, AutoStart, SchedulerFail, calls, rows
<1>3. operator'.to \in {"AUTO", "MANUAL"}
  <2>1. CASE SwitchRead
    BY <2>1, RegistrationAssumption DEF SwitchRead
  <2>2. CASE SwitchWrite
    <3>1. operator' = [operator EXCEPT !.pc = "idle", !.wasReady = FALSE]
      BY <2>2 DEF SwitchWrite
    <3> QED
      BY <3>1 DEF IInv, Typed
  <2>3. CASE operator' = operator
    BY <2>3 DEF IInv, Typed
  <2> QED
    BY <2>1, <2>2, <2>3 DEF StartGame, LiveEnds, LiveStarts, RepairCountdown, ClaimDue,
       CountPlayers, AutoStart, SchedulerFail, Tick
<1>4. /\ session' \in SessionRow /\ session'.prize = session.prize
      /\ session'.status = "CANCELLED" <=> session.status = "CANCELLED"
  <2> DEFINE Kept(s) == /\ s \in SessionRow /\ s.prize = session.prize
                        /\ s.status = "CANCELLED" <=> session.status = "CANCELLED"
  <2>1. session \in SessionRow /\ session.startIn \in Int /\ Kept(session)
    BY DEF IInv, Typed, SessionRow
  <2>2. \A x \in Int : Kept([session EXCEPT !.startIn = x])
    BY <2>1 DEF SessionRow
  <2>3. session.status # "CANCELLED" => Kept([session EXCEPT !.status = "PLAYING"])
    BY <2>1 DEF SessionRow
  <2>4. Null \in Int /\ Duration \in Int /\ 0 \in Int
    BY RegistrationAssumption DEF Null
  <2>5. CASE SwitchWrite
    <3>1. PICK x \in Int : session' = [session EXCEPT !.mode = operator.to, !.startIn = x]
      BY <2>1, <2>4, <2>5 DEF SwitchWrite
    <3> QED
      BY <2>1, <3>1 DEF IInv, Typed, SessionRow
  <2>6. CASE Tick
    <3>1. Countdown(session.startIn) \in Int
      BY <2>1 DEF Countdown
    <3>2. session' = [session EXCEPT !.startIn = Countdown(session.startIn)]
      BY <2>6 DEF Tick
    <3> QED
      BY <2>2, <3>1, <3>2
  <2> HIDE DEF Kept
  <2>7. CASE StartGame
    <3>1. session' = [session EXCEPT !.status = "PLAYING"] /\ session.status = "READY"
      BY <2>7 DEF StartGame
    <3> QED
      BY <2>3, <3>1 DEF Kept
  <2>8. CASE LiveEnds
    <3>1. session' = session \/ session' = [session EXCEPT !.startIn = Duration]
      BY <2>8 DEF LiveEnds
    <3> QED
      BY <2>1, <2>2, <2>4, <3>1 DEF Kept
  <2>9. CASE RepairCountdown
    <3>1. \E x \in {Null, Duration} : session' = [session EXCEPT !.startIn = x]
      BY <2>9 DEF RepairCountdown
    <3> QED
      BY <2>2, <2>4, <3>1 DEF Kept
  <2>10. CASE ClaimDue
    <3>1. session' = [session EXCEPT !.startIn = Null]
      BY <2>10 DEF ClaimDue
    <3> QED
      BY <2>2, <2>4, <3>1 DEF Kept
  <2>11. CASE AutoStart
    <3>1. \/ session.status = "READY" /\ session' = [session EXCEPT !.status = "PLAYING"]
          \/ session' = [session EXCEPT !.startIn = 0]
          \/ session' = session
      BY <2>11 DEF AutoStart
    <3> QED
      BY <2>1, <2>2, <2>3, <2>4, <3>1 DEF Kept
  <2>12. CASE SchedulerFail
    <3>1. session' = session \/ session' = [session EXCEPT !.startIn = 0]
      BY <2>12 DEF SchedulerFail
    <3> QED
      BY <2>1, <2>2, <2>4, <3>1 DEF Kept
  <2>13. CASE SwitchRead \/ LiveStarts \/ CountPlayers
    <3>1. session' = session
      BY <2>13 DEF SwitchRead, LiveStarts, CountPlayers, rows
    <3> QED
      BY <2>1, <3>1 DEF Kept
  <2> QED
    BY <2>5, <2>6, <2>7, <2>8, <2>9, <2>10, <2>11, <2>12, <2>13
<1> QED
  BY <1>1, <1>2, <1>3, <1>4, Quiet

LEMMA StepSkipSession ==
    ASSUME IInv, SkipSession
    PROVE  IInv'
<1>1. Free /\ UNCHANGED <<hold, lock, register, confirm, operator>>
  BY DEF SkipSession, calls
<1>2. CASE SkipConfirmed
  <2>1. CancelCommit
    BY <1>2 DEF SkipSession
  <2> QED
    BY <1>1, <2>1, Cancelling
<1>3. CASE ~SkipConfirmed
  <2>1. UNCHANGED <<wallet, session, entry>>
    BY <1>3 DEF SkipSession, walletVars
  <2> QED
    BY <1>1, <2>1, Quiet DEF IInv, Typed
<1> QED
  BY <1>2, <1>3

\* Initially nobody is registered, nothing is paid and nobody has the lock.
LEMMA Starts ==
    ASSUME Init
    PROVE  IInv
<1>1. Registered = {} /\ \A u, source : PaidBy(u, source) = {}
  BY DEF Init, Registered, PaidBy, NoEntry
<1>2. Cardinality({}) = 0 /\ EntryFee \in Nat /\ PrizePerCartela \in Nat
  BY FS_EmptySet, RegistrationAssumption
<1>3. \A u \in Users : Opening[u].balance \in Nat /\ Opening[u].bonus \in Nat
  BY WalletAssumption
<1>4. wallet = Opening /\ session.prize = 0 /\ session.status = "READY"
  BY DEF Init, InitWallet
<1>5. CancelledEmpty /\ PrizeMatchesEntries /\ PaidForWhatIsRegistered
  BY <1>1, <1>2, <1>3, <1>4 DEF CancelledEmpty, PrizeMatchesEntries, PaidForWhatIsRegistered
<1>6. ConfirmedOwns
  BY DEF Init, ConfirmedOwns
<1>7. Locked
  BY DEF Init, Locked, AtRest
<1>8. session \in SessionRow /\ session.mode \in {"AUTO", "MANUAL"}
  BY RegistrationAssumption DEF Init, SessionRow, Null
<1>9. hold \in [Holds -> HoldRow]
  BY DEF Init, HoldRow
<1>10. register \in [Requests -> [pc : {"new", "write", "done"}, items : Seq(Cartelas),
                                  own : SUBSET Holds]]
  <2>1. <<>> \in Seq(Cartelas)
    OBVIOUS
  <2> QED
    BY <2>1 DEF Init, AtRest
<1>11. /\ wallet \in [Users -> WalletRow] /\ entry \in [Cartelas -> {NoEntry} \cup EntryRow]
       /\ confirm \in [Holds -> {"new", "lock", "write", "done"}]
       /\ operator.to \in {"AUTO", "MANUAL"}
  BY <1>4, <1>8, WalletAssumption DEF Init, WalletRow
<1> QED
  BY <1>5, <1>6, <1>7, <1>8, <1>9, <1>10, <1>11 DEF IInv, Typed

-----------------------------------------------------------------------------
(* The ledger.                                                             *)

LedgerRow == [type : {"GAME_ENTRY", "REFUND"}, ref : Cartelas \cup {"session"},
              amount : Nat, before : Int, after : Int]

\* Rows that lead from one balance to another.
Chain(moves, from, to) ==
    /\ \A i \in 1 .. Len(moves) :
         moves[i].before = IF i = 1 THEN from ELSE moves[i - 1].after
    /\ to = IF Len(moves) = 0 THEN from ELSE moves[Len(moves)].after

Booked ==
    /\ ledger \in [Users -> Seq(LedgerRow)]
    /\ \A u \in Users : Chain(ledger[u], Opening[u].balance, wallet[u].balance)

LEMMA BookedChains ==
    ASSUME Booked
    PROVE  LedgerChains
<1> SUFFICES ASSUME NEW u \in Users
             PROVE  /\ \A i \in 1 .. Len(ledger[u]) : ledger[u][i].before =
                         IF i - 1 = 0 THEN Opening[u].balance ELSE ledger[u][i - 1].after
                    /\ wallet[u].balance = IF Len(ledger[u]) = 0 THEN Opening[u].balance
                                           ELSE ledger[u][Len(ledger[u])].after
  BY DEF LedgerChains
<1>1. ledger[u] \in Seq(LedgerRow) /\ Chain(ledger[u], Opening[u].balance, wallet[u].balance)
  BY DEF Booked
<1>2. \A i \in 1 .. Len(ledger[u]) : i - 1 = 0 <=> i = 1
  BY <1>1
<1> QED
  BY <1>1, <1>2 DEF Chain

LEMMA Joined ==
    ASSUME NEW old \in Seq(LedgerRow), NEW new \in Seq(LedgerRow), NEW a, NEW b, NEW c,
           Chain(old, a, b), Chain(new, b, c)
    PROVE  old \o new \in Seq(LedgerRow) /\ Chain(old \o new, a, c)
<1> DEFINE all == old \o new
<1>1. /\ all \in Seq(LedgerRow) /\ Len(all) = Len(old) + Len(new)
      /\ \A i \in 1 .. Len(old) : all[i] = old[i]
      /\ \A i \in 1 .. Len(new) : all[Len(old) + i] = new[i]
      /\ Len(old) \in Nat /\ Len(new) \in Nat
  OBVIOUS
<1> HIDE DEF all
<1>2. ASSUME NEW i \in 1 .. Len(all)
      PROVE  all[i].before = IF i = 1 THEN a ELSE all[i - 1].after
  <2>1. CASE i <= Len(old)
    <3>1. i \in 1 .. Len(old) /\ (i # 1 => i - 1 \in 1 .. Len(old))
      BY <1>1, <2>1
    <3> QED
      BY <1>1, <3>1 DEF Chain
  <2>2. CASE i > Len(old)
    <3> DEFINE j == i - Len(old)
    <3>1. j \in 1 .. Len(new) /\ Len(old) + j = i
      BY <1>1, <2>2
    <3>2. all[i] = new[j]
      BY <1>1, <3>1
    <3>3. CASE j = 1
      <4>1. new[1].before = b /\ i = Len(old) + 1
        BY <3>1, <3>3 DEF Chain
      <4>2. CASE Len(old) = 0
        BY <1>1, <3>1, <3>2, <3>3, <4>1, <4>2 DEF Chain
      <4>3. CASE Len(old) # 0
        <5>1. i # 1 /\ i - 1 = Len(old) /\ Len(old) \in 1 .. Len(old)
          BY <1>1, <4>1, <4>3
        <5> QED
          BY <1>1, <3>2, <3>3, <4>1, <4>3, <5>1 DEF Chain
      <4> QED
        BY <4>2, <4>3
    <3>4. CASE j # 1
      <4>1. j - 1 \in 1 .. Len(new) /\ Len(old) + (j - 1) = i - 1 /\ i # 1
        <5>1. i \in Int /\ j \in 1 .. Len(new) /\ Len(old) \in Nat /\ Len(new) \in Nat
          BY <1>1, <3>1
        <5> QED
          BY <3>4, <5>1
      <4>2. all[i - 1] = new[j - 1]
        BY <1>1, <4>1
      <4> QED
        BY <3>1, <3>2, <3>4, <4>1, <4>2 DEF Chain
    <3> QED
      BY <3>3, <3>4
  <2> QED
    BY <1>1, <2>1, <2>2
<1>3. c = IF Len(all) = 0 THEN a ELSE all[Len(all)].after
  <2>1. CASE Len(new) = 0
    <3>1. c = b /\ Len(all) = Len(old)
      BY <1>1, <2>1 DEF Chain
    <3>2. Len(old) # 0 => Len(old) \in 1 .. Len(old)
      BY <1>1
    <3> QED
      BY <1>1, <3>1, <3>2 DEF Chain
  <2>2. CASE Len(new) # 0
    <3>1. Len(new) \in 1 .. Len(new) /\ Len(all) # 0
      BY <1>1, <2>2
    <3>2. all[Len(all)] = new[Len(new)]
      BY <1>1, <3>1
    <3> QED
      BY <2>2, <3>1, <3>2 DEF Chain
  <2> QED
    BY <2>1, <2>2
<1>4. Chain(all, a, c)
  BY <1>2, <1>3 DEF Chain
<1> QED
  BY <1>1, <1>4 DEF all

\* The rows of a run of payments lead from what the player had to what is left.
LEMMA BookedFees ==
    ASSUME Typed, NEW u \in Users, NEW s \in Seq(Cartelas)
    PROVE  /\ EntryRows(u, s) \in Seq(LedgerRow)
           /\ Chain(EntryRows(u, s), wallet[u].balance,
                    wallet[u].balance - Len(s) * EntryFee)
<1> DEFINE bal == wallet[u].balance
           book == EntryRows(u, s)
<1>1. wallet[u] \in WalletRow /\ bal \in Int /\ EntryFee \in Nat /\ Len(s) \in Nat
  BY RegistrationAssumption DEF Typed, WalletRow
<1>2. book = [i \in 1 .. Len(s) |->
        Row([wallet[u] EXCEPT !.balance = @ - (i - 1) * EntryFee],
            "DEBIT", "GAME_ENTRY", s[i], EntryFee)]
  BY DEF EntryRows
<1> HIDE DEF book
<1>3. ASSUME NEW i \in 1 .. Len(s)
      PROVE  /\ book[i] \in LedgerRow
             /\ book[i].before = bal - (i - 1) * EntryFee
             /\ book[i].after = bal - i * EntryFee
  <2> DEFINE b == bal - (i - 1) * EntryFee
             w == [wallet[u] EXCEPT !.balance = b]
  <2>1. /\ b \in Int /\ b - EntryFee \in Int /\ b - EntryFee + EntryFee = b
        /\ b - EntryFee = bal - i * EntryFee
    <3>1. (i - 1) * EntryFee + EntryFee = i * EntryFee /\ (i - 1) * EntryFee \in Int
      BY <1>1
    <3> QED
      BY <1>1, <3>1
  <2>2. book[i] = Row(w, "DEBIT", "GAME_ENTRY", s[i], EntryFee)
    BY <1>2
  <2>3. w.balance = b
    BY <1>1 DEF WalletRow
  <2> HIDE DEF b
  <2>4. Plan(w, "DEBIT", EntryFee).balance = b - EntryFee
    BY <1>1, <2>3 DEF Plan, WalletRow
  <2>5. book[i] = [type |-> "GAME_ENTRY", ref |-> s[i], amount |-> EntryFee,
                   before |-> b - EntryFee + EntryFee, after |-> b - EntryFee]
    BY <2>2, <2>4 DEF Row, BalanceBefore
  <2>6. s[i] \in Cartelas
    OBVIOUS
  <2> QED
    BY <1>1, <2>1, <2>5, <2>6 DEF LedgerRow, b
<1>4. book \in Seq(LedgerRow) /\ Len(book) = Len(s)
  BY <1>1, <1>2, <1>3
<1>5. ASSUME NEW i \in 1 .. Len(book)
      PROVE  book[i].before = IF i = 1 THEN bal ELSE book[i - 1].after
  <2>1. CASE i = 1
    <3>1. i \in 1 .. Len(s)
      BY <1>4
    <3>2. book[i].before = bal - (i - 1) * EntryFee
      BY <1>3, <3>1
    <3>3. (i - 1) * EntryFee = 0
      BY <1>1, <2>1
    <3>4. book[i].before = bal
      BY <1>1, <3>2, <3>3
    <3> QED
      BY <2>1, <3>4
  <2>2. CASE i # 1
    <3>1. i - 1 \in 1 .. Len(s)
      BY <1>1, <1>4, <2>2
    <3> QED
      BY <1>3, <1>4, <2>2, <3>1
  <2> QED
    BY <2>1, <2>2
<1>6. bal - Len(s) * EntryFee = IF Len(book) = 0 THEN bal ELSE book[Len(book)].after
  <2>1. CASE Len(s) = 0
    BY <1>1, <1>4, <2>1
  <2>2. CASE Len(s) # 0
    <3>1. Len(s) \in 1 .. Len(s)
      BY <1>1, <2>2
    <3> QED
      BY <1>3, <1>4, <2>2, <3>1
  <2> QED
    BY <2>1, <2>2
<1> HIDE DEF bal
<1>7. Chain(book, bal, bal - Len(s) * EntryFee)
  BY <1>5, <1>6 DEF Chain
<1> QED
  BY <1>4, <1>7 DEF bal, book

LEMMA Slice ==
    ASSUME NEW s \in Seq(Cartelas), NEW n \in Nat, NEW m \in Nat, n + m <= Len(s)
    PROVE  SubSeq(s, n + 1, n + m) \in Seq(Cartelas) /\ Len(SubSeq(s, n + 1, n + m)) = m
<1> DEFINE first == n + 1
           last == n + m
<1>1. first \in Int /\ last \in Int /\ (IF first <= last THEN last - first + 1 ELSE 0) = m
  OBVIOUS
<1>2. \A i \in first .. last : i \in 1 .. Len(s)
  OBVIOUS
<1> HIDE DEF first, last
<1>3. \A i \in first .. last : s[i] \in Cartelas
  BY <1>2
<1>4. /\ SubSeq(s, first, last) \in Seq(Cartelas)
      /\ Len(SubSeq(s, first, last)) = IF first <= last THEN last - first + 1 ELSE 0
  BY <1>1, <1>3, SubSeqProperties
<1> QED
  BY <1>1, <1>4 DEF first, last

LEMMA BookedWhenEntering ==
    ASSUME Typed, Booked, NEW u \in Users, NEW s \in Seq(Cartelas), Distinct(s), Enter(u, s)
    PROVE  Booked'
<1> DEFINE n == BonusPays(u, Len(s))
           m == MoneyPays(u, Len(s))
           paid == SubSeq(s, n + 1, n + m)
<1>1. n \in Nat /\ m \in Nat /\ n + m <= Len(s) /\ Len(s) \in Nat
  BY PaysWhatHeCan
<1>2. ledger' = [ledger EXCEPT ![u] = @ \o EntryRows(u, paid)]
  BY DEF Enter
<1>3. /\ wallet'[u].balance = wallet[u].balance - EntryFee * m
      /\ \A v \in Users \ {u} : wallet'[v] = wallet[v]
  BY Charging, ByEach
<1> HIDE DEF n, m
<1>4. paid \in Seq(Cartelas) /\ Len(paid) = m
  BY <1>1, Slice
<1> HIDE DEF paid
<1>5. ledger[u] \in Seq(LedgerRow) /\ Chain(ledger[u], Opening[u].balance, wallet[u].balance)
  BY DEF Booked
<1>6. m * EntryFee = EntryFee * m
  BY <1>1, RegistrationAssumption
<1>7. /\ EntryRows(u, paid) \in Seq(LedgerRow)
      /\ Chain(EntryRows(u, paid), wallet[u].balance, wallet'[u].balance)
  BY <1>3, <1>4, <1>6, BookedFees
<1>8. /\ ledger[u] \o EntryRows(u, paid) \in Seq(LedgerRow)
      /\ Chain(ledger[u] \o EntryRows(u, paid), Opening[u].balance, wallet'[u].balance)
  BY <1>5, <1>7, Joined
<1>9. ledger'[u] = ledger[u] \o EntryRows(u, paid) /\ \A v \in Users \ {u} : ledger'[v] = ledger[v]
  BY <1>2 DEF Booked
<1>10. ledger' \in [Users -> Seq(LedgerRow)]
  BY <1>2, <1>8 DEF Booked
<1>11. ASSUME NEW v \in Users PROVE Chain(ledger'[v], Opening[v].balance, wallet'[v].balance)
  BY <1>3, <1>8, <1>9 DEF Booked
<1> QED
  BY <1>10, <1>11 DEF Booked

LEMMA BookedWhenCancelling ==
    ASSUME Typed, Booked, CancelCommit
    PROVE  Booked'
<1>1. ASSUME NEW u \in Users
      PROVE  /\ ledger'[u] \in Seq(LedgerRow)
             /\ Chain(ledger'[u], Opening[u].balance, wallet'[u].balance)
  <2> DEFINE a == EntryFee * Cardinality(PaidBy(u, "MONEY_WALLET"))
             b == Cardinality(PaidBy(u, "BONUS_CARTELA"))
             move == Row(wallet[u], "CREDIT", "REFUND", "session", a)
  <2>1. a \in Nat /\ b \in Nat
    BY FiniteSets, FS_CardinalityType, RegistrationAssumption
  <2>2. wallet'[u] = [Plan(wallet[u], "CREDIT", a) EXCEPT !.bonus = @ + b]
    BY DEF CancelCommit, Refund
  <2>3. ledger'[u] = IF a = 0 THEN ledger[u] ELSE Append(ledger[u], move)
    BY DEF CancelCommit, Refund
  <2> HIDE DEF a, b, move
  <2>4. wallet[u] \in WalletRow /\ wallet[u].balance \in Nat
    BY DEF Typed, WalletRow
  <2>5. Plan(wallet[u], "CREDIT", a) = [balance |-> wallet[u].balance + a,
           locked |-> wallet[u].locked, bonus |-> wallet[u].bonus]
    BY <2>4 DEF Plan, WalletRow
  <2>6. wallet'[u].balance = wallet[u].balance + a
    BY <2>2, <2>5
  <2> DEFINE after == Plan(wallet[u], "CREDIT", a).balance
  <2>7. after = wallet[u].balance + a
    BY <2>5
  <2>8. move = [type |-> "REFUND", ref |-> "session", amount |-> a,
                 before |-> after - a, after |-> after]
    BY DEF move, Row, BalanceBefore
  <2> HIDE DEF after
  <2>9. ledger[u] \in Seq(LedgerRow) /\ Chain(ledger[u], Opening[u].balance, wallet[u].balance)
    BY DEF Booked
  <2>10. CASE a = 0
    BY <2>1, <2>3, <2>4, <2>6, <2>9, <2>10
  <2>11. CASE a # 0
    <3>1. move \in LedgerRow /\ move.before = wallet[u].balance
          /\ move.after = wallet'[u].balance
      <4>1. after - a = wallet[u].balance /\ after \in Nat
        BY <2>1, <2>4, <2>7
      <4> QED
        BY <2>1, <2>6, <2>7, <2>8, <4>1 DEF LedgerRow
    <3>2. <<move>> \in Seq(LedgerRow) /\ Len(<<move>>) = 1 /\ <<move>>[1] = move
      BY <3>1
    <3>3. Chain(<<move>>, wallet[u].balance, wallet'[u].balance)
      BY <3>1, <3>2 DEF Chain
    <3>4. ledger'[u] = ledger[u] \o <<move>>
      BY <2>3, <2>9, <2>11, <3>1
    <3>5. /\ ledger[u] \o <<move>> \in Seq(LedgerRow)
          /\ Chain(ledger[u] \o <<move>>, Opening[u].balance, wallet'[u].balance)
      BY <2>9, <3>2, <3>3, Joined
    <3> QED
      BY <3>4, <3>5
  <2> QED
    BY <2>10, <2>11
<1>2. DOMAIN ledger' = Users /\ ledger' = [u \in Users |-> ledger'[u]]
  BY DEF CancelCommit, Refund
<1> QED
  BY <1>1, <1>2 DEF Booked

\* Nothing else writes the wallets or the ledger.
LEMMA BookedSteps ==
    ASSUME IInv, Booked, [Next]_vars
    PROVE  Booked'
<1>1. ASSUME NEW r \in Requests, RegisterWrite(r)
      PROVE  Booked'
  <2>1. /\ PlayerOf[r] \in Users /\ register[r].items \in Seq(Cartelas)
        /\ Distinct(register[r].items) /\ Enter(PlayerOf[r], register[r].items)
    BY <1>1, RegistrationAssumption DEF IInv, Typed, Locked, RegisterWrite
  <2> QED
    BY <2>1, BookedWhenEntering DEF IInv
<1>2. UNCHANGED walletVars => Booked'
  BY DEF walletVars, Booked
<1>3. ASSUME NEW h \in Holds, ConfirmWrite(h)
      PROVE  Booked'
  <2>1. \/ Enter(PlayerOf[h], <<CartelaOf[h]>>)
        \/ UNCHANGED walletVars
    BY <1>3 DEF ConfirmWrite
  <2>2. PlayerOf[h] \in Users /\ CartelaOf[h] \in Cartelas
    BY RegistrationAssumption
  <2>3. <<CartelaOf[h]>> \in Seq(Cartelas) /\ Distinct(<<CartelaOf[h]>>)
    BY <2>2 DEF Distinct
  <2> QED
    BY <1>2, <2>1, <2>2, <2>3, BookedWhenEntering DEF IInv
<1>4. \/ \E r \in Requests : RegisterWrite(r)
      \/ \E h \in Holds : ConfirmWrite(h)
      \/ CancelCommit
      \/ UNCHANGED walletVars
  <2>1. CASE Register
    BY <2>1 DEF Register, RegisterLock, rows
  <2>2. CASE Hold
    BY <2>2 DEF Hold, ReserveCheck, ReserveInsert, CancelHold, ConfirmRead, ConfirmLock, rows
  <2>3. CASE Scheduler \/ SchedulerFail
    BY <2>3 DEF Scheduler, SchedulerFail, RepairCountdown, ClaimDue, CountPlayers,
       SkipSession, AutoStart, rows
  <2>4. CASE \/ ExpireFind \/ ExpireWrite \/ CancelSession \/ StartGame \/ SwitchRead
             \/ SwitchWrite \/ LiveEnds \/ LiveStarts \/ Tick \/ UNCHANGED vars
    BY <2>4 DEF ExpireFind, ExpireWrite, CancelSession, StartGame, SwitchRead, SwitchWrite,
       LiveEnds, LiveStarts, Tick, vars, rows
  <2> QED
    BY <2>1, <2>2, <2>3, <2>4 DEF Next
<1> QED
  BY <1>1, <1>2, <1>3, <1>4, BookedWhenCancelling DEF IInv

LEMMA Steps ==
    ASSUME IInv, [Next]_vars
    PROVE  IInv'
<1>1. CASE Register
  BY <1>1, StepRegisterLock, StepRegisterWrite DEF Register
<1>2. CASE Hold
  BY <1>2, StepHold, StepConfirmRead, StepConfirmLock, StepConfirmWrite DEF Hold
<1>3. CASE ExpireFind \/ ExpireWrite
  BY <1>3, StepExpire
<1>4. CASE CancelSession
  BY <1>4, Cancelling DEF CancelSession, calls
<1>5. CASE \/ StartGame \/ SwitchRead \/ SwitchWrite \/ LiveEnds \/ LiveStarts
           \/ RepairCountdown \/ ClaimDue \/ CountPlayers \/ AutoStart \/ SchedulerFail \/ Tick
  BY <1>5, StepSession
<1>6. CASE SkipSession
  BY <1>6, StepSkipSession
<1>7. CASE UNCHANGED vars
  <2>1. UNCHANGED <<wallet, session, entry, hold, lock, register, confirm, operator>>
    BY <1>7 DEF vars, rows, calls, walletVars
  <2> QED
    BY <2>1, Quiet DEF IInv, Typed
<1> QED
  BY <1>1, <1>2, <1>3, <1>4, <1>5, <1>6, <1>7 DEF Next, Scheduler

-----------------------------------------------------------------------------
\* The inductive invariant: types, the lock of the session, and how its prize,
\* the wallets, the cartelas and the holds belong together.
THEOREM Invariant == Spec => []IInv
<1>1. Init => IInv
  BY Starts
<1>2. IInv /\ [Next]_vars => IInv'
  BY Steps
<1> QED
  BY <1>1, <1>2, PTL DEF Spec

\* The prize is the shares of the cartelas registered, each counted once.
THEOREM PrizeIsItsShares == Spec => []PrizeMatchesEntries
<1>1. IInv => PrizeMatchesEntries
  BY DEF IInv
<1> QED
  BY <1>1, Invariant, PTL

\* A player has paid once for each cartela registered for him, in money or with
\* a bonus cartela, and has everything back when the session is cancelled.
THEOREM PaidInFull == Spec => []PaidForWhatIsRegistered
<1>1. IInv => PaidForWhatIsRegistered
  BY DEF IInv
<1> QED
  BY <1>1, Invariant, PTL

\* A hold that was confirmed stands for its owner's registration of the cartela.
THEOREM HoldsBecomeRegistrations == Spec => []ConfirmedOwns
<1>1. IInv => ConfirmedOwns
  BY DEF IInv
<1> QED
  BY <1>1, Invariant, PTL

\* The ledger accounts for the balance of every player: the rows of a bulk
\* registration and of a refund lead from each balance to the next.
THEOREM LedgerExplains == Spec => []LedgerChains
<1>1. Init => IInv /\ Booked
  <2>1. Init => Booked
    <3> SUFFICES ASSUME Init PROVE Booked
      OBVIOUS
    <3>1. \A u \in Users : Len(ledger[u]) = 0 /\ wallet[u] = Opening[u]
      BY DEF Init, InitWallet
    <3>2. ASSUME NEW u \in Users
          PROVE  Chain(ledger[u], Opening[u].balance, wallet[u].balance)
      <4>1. Len(ledger[u]) = 0 /\ 1 .. Len(ledger[u]) = {}
            /\ wallet[u].balance = Opening[u].balance
        BY <3>1
      <4> QED
        BY <4>1 DEF Chain
    <3>3. <<>> \in Seq(LedgerRow)
      OBVIOUS
    <3> QED
      BY <3>2, <3>3 DEF Init, InitWallet, Booked
  <2> QED
    BY <2>1, Starts
<1>2. IInv /\ Booked /\ [Next]_vars => IInv' /\ Booked'
  BY Steps, BookedSteps
<1>3. IInv /\ Booked => LedgerChains
  BY BookedChains
<1> QED
  BY <1>1, <1>2, <1>3, PTL DEF Spec

\* The scheduler takes a session for empty only if it is, at the moment it
\* cancels it.
THEOREM SkippedWhenEmpty == Spec => NobodySkipped
<1> DEFINE Skipped == /\ scheduler = "skip" /\ scheduler' = "idle"
                      /\ session.status # "CANCELLED" /\ session'.status = "CANCELLED"
<1>1. ASSUME Next, Skipped
      PROVE  Registered = {}
  <2>1. \/ SkipSession \/ SchedulerFail
    BY <1>1 DEF Next, Scheduler, Register, Hold, RegisterLock, RegisterWrite, ReserveCheck,
       ReserveInsert, CancelHold, ConfirmRead, ConfirmLock, ConfirmWrite, ExpireFind,
       ExpireWrite, CancelSession, StartGame, SwitchRead, SwitchWrite, LiveEnds, LiveStarts,
       RepairCountdown, ClaimDue, CountPlayers, AutoStart, Tick
  <2>2. CASE SkipSession
    <3>1. SkipConfirmed
      BY <1>1, <2>2 DEF SkipSession
    <3> QED
      BY <3>1 DEF SkipConfirmed
  <2>3. CASE SchedulerFail
    <3>1. session' = session
      BY <1>1, <2>3 DEF SchedulerFail
    <3> QED
      BY <1>1, <3>1
  <2> QED
    BY <2>1, <2>2, <2>3
<1>2. [Next]_vars => [Skipped => Registered = {}]_vars
  BY <1>1
<1> QED
  BY <1>2, PTL DEF Spec, NobodySkipped
=============================================================================
