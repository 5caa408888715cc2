--------------------------- MODULE AccountsProofs ---------------------------
(***************************************************************************)
(* Proofs about Accounts, for any phones, clients and devices, any bonus   *)
(* and any limits.                                                         *)
(*                                                                         *)
(* A transaction of a sign-up or sign-in works out an amount, inserts a    *)
(* grant and writes the wallet in steps between which others commit.  That *)
(* the wallet agrees with the grants in the end needs to be known of       *)
(* every transaction under way: whether it has inserted a grant, of what   *)
(* amount, and that the account it signs up is nobody else's.              *)
(***************************************************************************)
EXTENDS Accounts, TLAPS

GrantRow == [phone : Phones, device : {Device[c] : c \in Clients}, amount : {0, Bonus},
             by : Clients \cup {None}]

\* The steps of the transaction that follow the insert, or the reading, of the
\* user's row.
InTx == {"resolve", "record", "positive", "zero", "commit"}

Typed ==
    /\ account \subseteq Phones
    /\ wallet \in [Phones -> Nat]
    /\ grant \subseteq GrantRow
    /\ req \in [Clients -> Request]
    /\ \A c \in Clients : req[c].at # "idle" => req[c].phone \in Phones

\* No two grants for one user, nor two bonuses for one device.
GrantsUnique ==
    \A g, h \in grant : g # h =>
        /\ g.phone # h.phone
        /\ g.device = h.device => g.amount = 0 \/ h.amount = 0

Given(p) == \E g \in Committed : g.phone = p /\ g.amount > 0
WalletAgrees == \A p \in Phones : wallet[p] = IF Given(p) THEN Bonus ELSE 0
GrantedHaveAccount == \A g \in Committed : g.phone \in account

\* Who signs up has no account yet, and nobody else signs up with his phone;
\* who signs in has one.
SignsUp(c) == req[c].signup /\ req[c].at \in InTx
SignUpsApart ==
    /\ \A c \in Clients : SignsUp(c) => req[c].phone \notin account
    /\ \A c, d \in Clients : SignsUp(c) /\ SignsUp(d) /\ c # d => req[c].phone # req[d].phone
    /\ \A c \in Clients : req[c].at \in InTx /\ ~ req[c].signup => req[c].phone \in account
    /\ \A c \in Clients : req[c].at = "create" => req[c].signup

\* The grant of a transaction that has inserted one, and has not committed.
OwnGrant(c) ==
    \E g \in grant : g.by = c /\ g.phone = req[c].phone /\ g.amount = req[c].amount
GrantsOwned ==
    /\ \A g \in grant : g.by # None =>
         req[g.by].at = "commit" /\ req[g.by].created /\ req[g.by].phone = g.phone
    /\ \A c \in Clients : req[c].at = "commit" =>
         IF req[c].created THEN OwnGrant(c) ELSE req[c].amount = 0
    /\ \A c \in Clients : req[c].created => req[c].at \in {"commit", "token"}

Sound == Typed /\ GrantsUnique /\ WalletAgrees /\ GrantedHaveAccount
           /\ SignUpsApart /\ GrantsOwned

TokenRow == [phone : Phones, status : {"valid", "revoked", "expired", "deleted"}]
Tokens == /\ token \in Seq(TokenRow)
          /\ held \in [Clients -> Nat] /\ \A c \in Clients : held[c] <= Len(token)

IInv == Sound /\ Tokens

-----------------------------------------------------------------------------
LEMMA InitInvariant == Init => IInv
<1> SUFFICES ASSUME Init PROVE IInv
  OBVIOUS
<1>1. Idle \in Request /\ Idle.at = "idle" /\ Idle.created = FALSE
  BY AccountsAssumption DEF Idle, Request, Steps, Purposes
<1>2. \A c \in Clients : req[c] = Idle
  BY DEF Init
<1>3. grant = {} /\ account = Registered /\ wallet = [p \in Phones |-> 0]
  BY DEF Init
<1>4. Typed
  BY <1>1, <1>2, <1>3, AccountsAssumption DEF Init, Typed
<1>5. GrantsUnique /\ GrantedHaveAccount
  BY <1>3 DEF GrantsUnique, GrantedHaveAccount, Committed
<1>6. WalletAgrees
  BY <1>3 DEF WalletAgrees, Given, Committed
<1>7. SignUpsApart
  BY <1>1, <1>2 DEF SignUpsApart, SignsUp, InTx
<1>8. GrantsOwned
  BY <1>1, <1>2, <1>3 DEF GrantsOwned
<1>9. Tokens
  BY DEF Init, Tokens
<1> QED
  BY <1>4, <1>5, <1>6, <1>7, <1>8, <1>9 DEF IInv, Sound

\* Steps that leave accounts, wallets, grants and requests alone.
LEMMA Unrelated ==
    ASSUME Sound, UNCHANGED <<account, wallet, grant, req>>
    PROVE  Sound'
<1>1. Typed' /\ GrantsUnique' /\ GrantedHaveAccount'
  BY DEF Sound, Typed, GrantsUnique, GrantedHaveAccount, Committed
<1>2. WalletAgrees'
  BY DEF Sound, WalletAgrees, Given, Committed
<1>3. SignUpsApart' /\ GrantsOwned'
  BY DEF Sound, SignUpsApart, SignsUp, GrantsOwned, OwnGrant
<1> QED
  BY <1>1, <1>2, <1>3 DEF Sound

\* Wallets, grants and accounts are as they were, and so is what is known of them.
LEMMA RowsStay ==
    ASSUME Sound, UNCHANGED data
    PROVE  /\ GrantsUnique' /\ WalletAgrees' /\ GrantedHaveAccount'
           /\ account' = account /\ wallet' = wallet /\ grant' = grant
  BY DEF Sound, data, GrantsUnique, WalletAgrees, Given, GrantedHaveAccount, Committed

\* A request that is, and stays, outside the transaction that writes a grant.
LEMMA Outside ==
    ASSUME Sound, UNCHANGED data, NEW c \in Clients, NEW r \in Request, To(c, r),
           r.at \notin InTx, ~ r.created,
           r.at # "idle" => r.phone \in Phones,
           r.at = "create" => r.signup,
           req[c].at # "commit"
    PROVE  Sound'
<1>1. /\ GrantsUnique' /\ WalletAgrees' /\ GrantedHaveAccount'
      /\ account' = account /\ wallet' = wallet /\ grant' = grant
  BY RowsStay
<1>2. req'[c] = r /\ \A d \in Clients \ {c} : req'[d] = req[d]
  BY DEF Sound, Typed, To
<1>3. Typed'
  BY <1>1, <1>2 DEF Sound, Typed, To
<1>4. SignUpsApart'
  BY <1>1, <1>2 DEF Sound, SignUpsApart, SignsUp
<1>5. \A g \in grant : g.by # c
  BY AccountsAssumption DEF Sound, GrantsOwned
<1>6. \A g \in grant : g.by \in Clients \cup {None}
  BY DEF Sound, Typed, GrantRow
<1>7. GrantsOwned'
  BY <1>1, <1>2, <1>5, <1>6 DEF Sound, GrantsOwned, OwnGrant, InTx
<1> QED
  BY <1>1, <1>3, <1>4, <1>7 DEF Sound

\* A request that enters that transaction, or goes on in it without a grant of
\* its own.
LEMMA Inside ==
    ASSUME Sound, UNCHANGED data, NEW c \in Clients, NEW r \in Request, To(c, r),
           r.at \in InTx, ~ r.created, r.phone \in Phones,
           r.at = "commit" => r.amount = 0,
           req[c].at # "commit",
           IF r.signup
           THEN /\ r.phone \notin account
                /\ \A d \in Clients \ {c} : SignsUp(d) => req[d].phone # r.phone
           ELSE r.phone \in account
    PROVE  Sound'
<1>1. /\ GrantsUnique' /\ WalletAgrees' /\ GrantedHaveAccount'
      /\ account' = account /\ wallet' = wallet /\ grant' = grant
  BY RowsStay
<1>2. req'[c] = r /\ \A d \in Clients \ {c} : req'[d] = req[d]
  BY DEF Sound, Typed, To
<1>3. Typed'
  BY <1>1, <1>2 DEF Sound, Typed, To
<1>4. SignUpsApart'
  <2>1. \A d \in Clients : SignsUp(d)' => req'[d].phone \notin account'
    BY <1>1, <1>2 DEF Sound, SignUpsApart, SignsUp
  <2>2. \A d, e \in Clients : SignsUp(d)' /\ SignsUp(e)' /\ d # e => req'[d].phone # req'[e].phone
    <3> SUFFICES ASSUME NEW d \in Clients, NEW e \in Clients, SignsUp(d)', SignsUp(e)', d # e
                 PROVE  req'[d].phone # req'[e].phone
      OBVIOUS
    <3>1. CASE d # c /\ e # c
      BY <1>2, <3>1 DEF Sound, SignUpsApart, SignsUp
    <3>2. CASE d = c
      BY <1>2, <3>2 DEF SignsUp
    <3>3. CASE e = c
      BY <1>2, <3>3 DEF SignsUp
    <3> QED
      BY <3>1, <3>2, <3>3
  <2>3. /\ \A d \in Clients : req'[d].at \in InTx /\ ~ req'[d].signup => req'[d].phone \in account'
        /\ \A d \in Clients : req'[d].at = "create" => req'[d].signup
    BY <1>1, <1>2 DEF Sound, SignUpsApart, InTx
  <2> QED
    BY <2>1, <2>2, <2>3 DEF SignUpsApart
<1>5. \A g \in grant : g.by # c
  BY AccountsAssumption DEF Sound, GrantsOwned
<1>6. \A g \in grant : g.by \in Clients \cup {None}
  BY DEF Sound, Typed, GrantRow
<1>7. GrantsOwned'
  BY <1>1, <1>2, <1>5, <1>6 DEF Sound, GrantsOwned, OwnGrant
<1> QED
  BY <1>1, <1>3, <1>4, <1>7 DEF Sound

-----------------------------------------------------------------------------
(* The steps.                                                              *)

\* What requests are made of.
LEMMA Requests ==
    /\ Idle \in Request /\ Idle.at = "idle" /\ ~ Idle.created
    /\ \A r \in Request, step \in Steps : [r EXCEPT !.at = step] \in Request
  BY AccountsAssumption DEF Idle, Request, Steps, Purposes

\* The values that a fresh request has.
LEMMA Defaults ==
    /\ 0 \in 0 .. MaxChallenges /\ 0 \in {0, Bonus} /\ FALSE \in BOOLEAN /\ TRUE \in BOOLEAN
    /\ None \in Purposes \cup {None}
    /\ \A p \in Phones : p \in Phones \cup {None}
    /\ \A u \in Purposes : u \in Purposes \cup {None}
    /\ \A i \in 1 .. MaxChallenges : i \in 0 .. MaxChallenges
    /\ {"cooldown", "consume", "create", "resolve", "token", "revoke"} \subseteq Steps
  BY AccountsAssumption DEF Steps

\* Codes.
LEMMA StepCode ==
    ASSUME Sound, NEW c \in Clients, NEW p \in Phones, NEW u \in Purposes,
           \/ RequestOtp(c, p, u)
           \/ \E i \in 1 .. MaxChallenges : VerifyOtp(c, p, u, i)
    PROVE  Sound'
<1>1. CASE RequestOtp(c, p, u)
  <2> DEFINE r == [Idle EXCEPT !.at = "cooldown", !.phone = p, !.purpose = u]
  <2>3. r \in Request /\ r.at = "cooldown" /\ ~ r.created /\ r.phone = p
    BY Defaults DEF Idle, Request
  <2>4. UNCHANGED data /\ req[c].at = "idle" /\ (To(c, r) \/ To(c, Idle))
    BY <1>1 DEF RequestOtp, At
  <2> HIDE DEF r
  <2> QED
    BY <2>3, <2>4, Outside, Requests DEF InTx
<1>2. ASSUME NEW i \in 1 .. MaxChallenges, VerifyOtp(c, p, u, i)
      PROVE  Sound'
  <2>1. UNCHANGED data /\ req[c].at = "idle"
    BY <1>2 DEF VerifyOtp, At
  <2>2. \/ UNCHANGED req
        \/ To(c, [Idle EXCEPT !.at = "consume", !.phone = p, !.purpose = u, !.code = i])
    BY <1>2 DEF VerifyOtp
  <2> DEFINE r == [Idle EXCEPT !.at = "consume", !.phone = p, !.purpose = u, !.code = i]
  <2>5. r \in Request /\ r.at = "consume" /\ ~ r.created /\ r.phone = p
    BY Defaults DEF Idle, Request
  <2>6. CASE To(c, r)
    <3> HIDE DEF r
    <3> QED
      BY <2>1, <2>5, <2>6, Outside DEF InTx
  <2>7. CASE UNCHANGED req
    BY <2>1, <2>7, Unrelated DEF data
  <2> QED
    BY <2>2, <2>6, <2>7
<1> QED
  BY <1>1, <1>2

\* Codes that are used, and tokens.
LEMMA StepToken ==
    ASSUME Sound, Tokens, NEW c \in Clients,
           \/ CheckCooldown(c) \/ DeliverOtp(c) \/ Register(c) \/ ResetPassword(c)
           \/ AnswerFailed(c) \/ SignedIn(c) \/ Refresh(c) \/ RevokeOld(c) \/ CreateNew(c)
    PROVE  Sound'
<1>1. UNCHANGED data /\ req[c] \in Request
  BY DEF CheckCooldown, DeliverOtp, Register, ResetPassword, Consume, AnswerFailed, SignedIn,
     Refresh, RevokeOld, CreateNew, Sound, Typed
<1>2. req[c].at # "commit"
  BY DEF CheckCooldown, DeliverOtp, Register, ResetPassword, Consume, AnswerFailed, SignedIn,
     Refresh, RevokeOld, CreateNew, At
<1>3. CASE To(c, Idle)
  BY <1>1, <1>2, <1>3, Outside, Requests DEF InTx
<1>4. ASSUME NEW step \in {"deliver", "rotate"}, req[c].at \in {"cooldown", "revoke"},
             To(c, [req[c] EXCEPT !.at = step])
      PROVE  Sound'
  <2> DEFINE r == [req[c] EXCEPT !.at = step]
  <2>1. r \in Request /\ r.at = step /\ r.created = req[c].created /\ r.phone = req[c].phone
    BY <1>1 DEF Request, Steps
  <2>2. ~ req[c].created /\ req[c].phone \in Phones
    BY <1>4 DEF Sound, Typed, GrantsOwned
  <2> HIDE DEF r
  <2>3. To(c, r)
    BY <1>4 DEF r
  <2> QED
    BY <1>1, <1>2, <2>1, <2>2, <2>3, Outside DEF InTx
<1>5. CASE Register(c)
  <2> DEFINE r == [Idle EXCEPT !.at = "create", !.phone = req[c].phone, !.signup = TRUE]
  <2>1. req[c].phone \in Phones
    BY <1>5 DEF Register, Consume, At, Sound, Typed
  <2>4. r \in Request /\ r.at = "create" /\ ~ r.created /\ r.phone \in Phones /\ r.signup
    BY <2>1, Defaults DEF Idle, Request
  <2>5. To(c, r)
    BY <1>5 DEF Register
  <2> HIDE DEF r
  <2> QED
    BY <1>1, <1>2, <2>4, <2>5, Outside DEF InTx
<1>6. CASE Refresh(c)
  <2> DEFINE r == [Idle EXCEPT !.at = "revoke", !.phone = token[held[c]].phone]
  <2>1. held[c] \in 1 .. Len(token)
    BY <1>6 DEF Refresh, Valid, Tokens
  <2>2. token[held[c]].phone \in Phones
    <3>1. token[held[c]] \in TokenRow
      BY <2>1 DEF Tokens
    <3> QED
      BY <3>1 DEF TokenRow
  <2>3. r \in Request /\ r.at = "revoke" /\ ~ r.created /\ r.phone \in Phones
    BY <2>2, Defaults DEF Idle, Request
  <2>4. To(c, r)
    BY <1>6 DEF Refresh
  <2> HIDE DEF r
  <2> QED
    BY <1>1, <1>2, <2>3, <2>4, Outside DEF InTx
<1> QED
  BY <1>3, <1>4, <1>5, <1>6 DEF CheckCooldown, DeliverOtp, ResetPassword, AnswerFailed,
     SignedIn, RevokeOld, CreateNew, Refused, Goes, At

\* Signing in, and signing up: the way into the transaction.
LEMMA Entering ==
    ASSUME Sound, NEW c \in Clients, UNCHANGED data, NEW p \in account,
           req[c].at # "commit", To(c, WithBonus(c, p))
    PROVE  Sound'
<1> DEFINE r == WithBonus(c, p)
<1>1. p \in Phones
  BY DEF Sound, Typed
<1>2. r \in Request /\ r.at \in {"resolve", "token"} /\ r.phone = p /\ ~ r.created /\ ~ r.signup
  BY <1>1, Defaults DEF Idle, Request, WithBonus
<1> HIDE DEF r
<1>3. To(c, r)
  BY DEF r
<1>4. CASE r.at = "resolve"
  BY <1>1, <1>2, <1>3, <1>4, Inside DEF InTx
<1>5. CASE r.at = "token"
  BY <1>1, <1>2, <1>3, <1>5, Outside DEF InTx
<1> QED
  BY <1>2, <1>4, <1>5

LEMMA StepEnter ==
    ASSUME Sound, NEW c \in Clients,
           SignInByCode(c) \/ CreateUser(c) \/ \E p \in Phones : Login(c, p)
    PROVE  Sound'
<1>1. UNCHANGED data /\ req[c].at \in {"idle", "consume", "create"} /\ req[c] \in Request
  BY DEF SignInByCode, Consume, CreateUser, Login, At, Sound, Typed
<1>2. CASE To(c, Idle)
  BY <1>1, <1>2, Outside, Requests DEF InTx
<1>3. ASSUME NEW p \in Phones, Login(c, p) PROVE Sound'
  BY <1>1, <1>3, Entering DEF Login
<1>4. CASE SignInByCode(c)
  BY <1>1, <1>2, <1>4, Entering DEF SignInByCode
<1>5. CASE CreateUser(c)
  <2>1. req[c].at = "create" /\ req[c].signup /\ req[c].phone \in Phones /\ ~ req[c].created
    BY <1>5 DEF CreateUser, At, Sound, SignUpsApart, Typed, GrantsOwned
  <2>2. CASE req[c].phone \in account
    BY <1>2, <1>5, <2>2 DEF CreateUser, Refused
  <2>3. CASE req[c].phone \notin account
    <3> DEFINE r == [req[c] EXCEPT !.at = "resolve"]
    <3>1. /\ r \in Request /\ r.at = "resolve" /\ r.phone = req[c].phone
          /\ r.signup /\ ~ r.created
      BY <1>1, <2>1, Defaults DEF Request
    <3>2. To(c, r)
      BY <1>5, <2>3 DEF CreateUser, Goes
    <3>3. \A d \in Clients \ {c} : SignsUp(d) => req[d].phone # req[c].phone
      BY <1>5 DEF CreateUser, Inserting, SignsUp, InTx
    <3> HIDE DEF r
    <3> QED
      BY <1>1, <2>1, <2>3, <3>1, <3>2, <3>3, Inside DEF InTx
  <2> QED
    BY <2>2, <2>3
<1> QED
  BY <1>3, <1>4, <1>5

\* What the transaction decides before it writes.
LEMMA StepDecide ==
    ASSUME Sound, NEW c \in Clients, ResolveBonus(c) \/ RecordDecision(c)
    PROVE  Sound'
<1>1. /\ UNCHANGED data /\ req[c].at \in {"resolve", "record"} /\ req[c] \in Request
      /\ req[c].phone \in Phones /\ ~ req[c].created /\ Bonus \in Nat
  BY AccountsAssumption DEF ResolveBonus, RecordDecision, At, Sound, Typed, GrantsOwned
<1>2. \E step \in {"record", "commit", "positive", "zero"}, n \in {0, Bonus}, denied \in BOOLEAN :
        /\ To(c, [req[c] EXCEPT !.at = step, !.amount = n, !.denied = denied])
        /\ step = "commit" => n = 0
  <2>1. CASE ResolveBonus(c)
    <3>1. PICK no \in BOOLEAN, due \in BOOLEAN :
            /\ due => Device[c] # None
            /\ To(c, [req[c] EXCEPT !.at = IF Device[c] = None THEN "commit" ELSE "record",
                                    !.amount = IF due THEN Bonus ELSE 0, !.denied = no])
      BY <2>1 DEF ResolveBonus
    <3>2. CASE Device[c] = None
      BY <3>1, <3>2
    <3>3. CASE Device[c] # None
      BY <3>1, <3>3
    <3> QED
      BY <3>2, <3>3
  <2>2. CASE RecordDecision(c)
    <3>1. req[c].amount \in {0, Bonus} /\ req[c].denied \in BOOLEAN
      BY <1>1 DEF Request
    <3>2. \/ To(c, [req[c] EXCEPT !.at = "commit", !.amount = 0])
          \/ To(c, [req[c] EXCEPT !.at = IF req[c].amount > 0 THEN "positive"
                                        ELSE IF req[c].denied THEN "zero" ELSE "commit"])
      BY <2>2 DEF RecordDecision
    <3>3. \A step : /\ [req[c] EXCEPT !.at = step]
                         = [req[c] EXCEPT !.at = step, !.amount = req[c].amount, !.denied = req[c].denied]
                    /\ [req[c] EXCEPT !.at = step, !.amount = 0]
                         = [req[c] EXCEPT !.at = step, !.amount = 0, !.denied = req[c].denied]
      BY <1>1 DEF Request
    <3> DEFINE next == IF req[c].amount > 0 THEN "positive"
                       ELSE IF req[c].denied THEN "zero" ELSE "commit"
    <3>4. next \in {"positive", "zero", "commit"} /\ (next = "commit" => req[c].amount = 0)
      BY <1>1, <3>1
    <3>5. CASE To(c, [req[c] EXCEPT !.at = "commit", !.amount = 0])
      <4>1. To(c, [req[c] EXCEPT !.at = "commit", !.amount = 0, !.denied = req[c].denied])
        BY <3>3, <3>5
      <4> QED
        BY <3>1, <4>1
    <3>6. CASE To(c, [req[c] EXCEPT !.at = next])
      <4>1. To(c, [req[c] EXCEPT !.at = next, !.amount = req[c].amount, !.denied = req[c].denied])
        BY <3>3, <3>6
      <4> HIDE DEF next
      <4> QED
        BY <3>1, <3>4, <4>1
    <3> QED
      BY <3>2, <3>5, <3>6
  <2> QED
    BY <2>1, <2>2
<1>3. PICK step \in {"record", "commit", "positive", "zero"}, n \in {0, Bonus}, denied \in BOOLEAN :
        /\ To(c, [req[c] EXCEPT !.at = step, !.amount = n, !.denied = denied])
        /\ step = "commit" => n = 0
  BY <1>2
<1> DEFINE r == [req[c] EXCEPT !.at = step, !.amount = n, !.denied = denied]
<1>4. /\ r \in Request /\ r.at = step /\ r.amount = n /\ r.phone = req[c].phone
      /\ r.signup = req[c].signup /\ r.created = req[c].created
  BY <1>1 DEF Request, Steps
<1>5. To(c, r)
  BY <1>3
<1> HIDE DEF r
<1>6. IF r.signup
      THEN /\ r.phone \notin account
           /\ \A d \in Clients \ {c} : SignsUp(d) => req[d].phone # r.phone
      ELSE r.phone \in account
  BY <1>1, <1>4 DEF Sound, SignUpsApart, SignsUp, InTx
<1> QED
  BY <1>1, <1>3, <1>4, <1>5, <1>6, Inside DEF InTx

\* Inserting a grant, or being refused.
LEMMA StepInsert ==
    ASSUME Sound, NEW c \in Clients, GrantBonus(c) \/ GrantNothing(c)
    PROVE  Sound'
<1>1. PICK step \in {"positive", "zero"}, amount \in {0, req[c].amount} : InsertGrant(c, step, amount)
  BY DEF GrantBonus, GrantNothing
<1>2. /\ req[c].at = step /\ req[c] \in Request /\ req[c].phone \in Phones /\ ~ req[c].created
      /\ UNCHANGED <<account, wallet>>
  BY <1>1 DEF InsertGrant, At, Sound, Typed, GrantsOwned
<1>3. amount \in {0, Bonus} /\ Bonus \in Nat
  BY <1>2, AccountsAssumption DEF Request
<1>4. \A g \in grant : g.by # c
  BY <1>2, AccountsAssumption DEF Sound, GrantsOwned
<1>5. \A g \in grant : g \in GrantRow
  BY DEF Sound, Typed
<1>6. CASE Rollback(c) /\ Goes(c, "failed")
  <2> DEFINE r == [req[c] EXCEPT !.at = "failed"]
  <2>1. grant' = grant
    BY <1>4, <1>6 DEF Rollback
  <2>2. r \in Request /\ r.at = "failed" /\ ~ r.created /\ r.phone \in Phones
    BY <1>2 DEF Request, Steps
  <2>3. To(c, r)
    BY <1>6 DEF Goes
  <2> HIDE DEF r
  <2> QED
    BY <1>2, <2>1, <2>2, <2>3, Outside DEF InTx, data
<1>7. CASE /\ \A g \in grant : ~ Collides(g, amount, c)
           /\ grant' = grant \cup {[phone |-> req[c].phone, device |-> Device[c],
                                   amount |-> amount, by |-> c]}
           /\ To(c, [req[c] EXCEPT !.at = "commit", !.amount = amount, !.created = TRUE])
  <2> DEFINE new == [phone |-> req[c].phone, device |-> Device[c], amount |-> amount, by |-> c]
             r == [req[c] EXCEPT !.at = "commit", !.amount = amount, !.created = TRUE]
  <2>1. /\ new \in GrantRow /\ new.phone = req[c].phone /\ new.device = Device[c]
        /\ new.amount = amount /\ new.by = c
    BY <1>2, <1>3 DEF GrantRow
  <2>2. /\ r \in Request /\ r.at = "commit" /\ r.amount = amount /\ r.created
        /\ r.phone = req[c].phone /\ r.signup = req[c].signup
    BY <1>2, <1>3 DEF Request, Steps
  <2> HIDE DEF new, r
  <2>3. grant' = grant \cup {new} /\ \A g \in grant : ~ Collides(g, amount, c)
    BY <1>7 DEF new
  <2>4. req'[c] = r /\ \A d \in Clients \ {c} : req'[d] = req[d]
    BY <1>7 DEF r, To, Sound, Typed
  <2>5. Typed'
    <3>1. req' \in [Clients -> Request]
      BY <1>7, <2>2 DEF r, To, Sound, Typed
    <3>2. \A d \in Clients : req'[d].at # "idle" => req'[d].phone \in Phones
      BY <1>2, <2>2, <2>4 DEF Sound, Typed
    <3>3. grant' \subseteq GrantRow
      BY <1>5, <2>1, <2>3
    <3> QED
      BY <1>2, <3>1, <3>2, <3>3 DEF Sound, Typed
  <2>6. GrantsUnique'
    <3>1. \A g \in grant : /\ g.phone # new.phone
                           /\ g.device = new.device => g.amount = 0 \/ new.amount = 0
      <4> TAKE g \in grant
      <4>1. g.amount \in Nat /\ amount \in Nat
        BY <1>3, <1>5 DEF GrantRow
      <4> QED
        BY <2>1, <2>3, <4>1 DEF Collides
    <3> QED
      BY <2>3, <3>1 DEF Sound, GrantsUnique
  <2>7. Committed' = Committed
    BY <2>1, <2>3, AccountsAssumption DEF Committed
  <2>8. WalletAgrees' /\ GrantedHaveAccount'
    BY <1>2, <2>7 DEF Sound, WalletAgrees, Given, GrantedHaveAccount
  <2>9. SignUpsApart'
    <3>1. /\ \A d \in Clients : req'[d].phone = req[d].phone /\ req'[d].signup = req[d].signup
          /\ \A d \in Clients : req'[d].at \in InTx <=> req[d].at \in InTx
          /\ \A d \in Clients : req'[d].at = "create" <=> req[d].at = "create"
      BY <1>2, <2>2, <2>4 DEF InTx
    <3>2. \A d \in Clients : SignsUp(d)' <=> SignsUp(d)
      BY <3>1 DEF SignsUp
    <3> QED
      BY <1>2, <3>1, <3>2 DEF Sound, SignUpsApart
  <2>10. GrantsOwned'
    <3>1. \A g \in grant' : g.by # None =>
            req'[g.by].at = "commit" /\ req'[g.by].created /\ req'[g.by].phone = g.phone
      <4>1. \A g \in grant : g.by \in Clients \cup {None}
        BY <1>5 DEF GrantRow
      <4> QED
        BY <1>4, <2>1, <2>2, <2>3, <2>4, <4>1 DEF Sound, GrantsOwned
    <3>2. ASSUME NEW d \in Clients, req'[d].at = "commit"
          PROVE  IF req'[d].created THEN OwnGrant(d)' ELSE req'[d].amount = 0
      <4>1. CASE d = c
        BY <2>1, <2>2, <2>3, <2>4, <4>1 DEF OwnGrant
      <4>2. CASE d # c
        BY <2>3, <2>4, <3>2, <4>2 DEF Sound, GrantsOwned, OwnGrant
      <4> QED
        BY <4>1, <4>2
    <3>3. \A d \in Clients : req'[d].created => req'[d].at \in {"commit", "token"}
      BY <2>2, <2>4 DEF Sound, GrantsOwned
    <3> QED
      BY <3>1, <3>2, <3>3 DEF GrantsOwned
  <2> QED
    BY <2>5, <2>6, <2>8, <2>9, <2>10 DEF Sound
<1> QED
  BY <1>1, <1>6, <1>7 DEF InsertGrant

\* The commit: what the wallet is set to, or increased by, is what the grant of
\* the transaction, if it has one, now says for all to see.
LEMMA StepCommit ==
    ASSUME Sound, NEW c \in Clients, Commit(c)
    PROVE  Sound'
<1> DEFINE p == req[c].phone
           R(g) == [g EXCEPT !.by = IF @ = c THEN None ELSE @]
           r == [req[c] EXCEPT !.at = "token"]
<1>1. /\ req[c].at = "commit" /\ req[c] \in Request /\ p \in Phones
      /\ req[c].amount \in {0, Bonus} /\ Bonus \in Nat
      /\ account \subseteq Phones /\ wallet \in [Phones -> Nat] /\ grant \subseteq GrantRow
      /\ req \in [Clients -> Request]
  BY AccountsAssumption DEF Commit, At, Sound, Typed, Request
<1>2. /\ r \in Request /\ r.at = "token" /\ r.phone = p /\ r.created = req[c].created
  BY <1>1 DEF Request, Steps
<1>3. req'[c] = r /\ req' \in [Clients -> Request] /\ \A d \in Clients \ {c} : req'[d] = req[d]
  BY <1>1, <1>2 DEF Commit, Goes, To
<1>4. account' = account \cup {p}
  BY DEF Commit
<1>5. wallet' = [wallet EXCEPT ![p] =
                    IF req[c].signup THEN req[c].amount
                    ELSE IF req[c].created THEN @ + req[c].amount ELSE @]
  BY DEF Commit
<1>6. grant' = {R(g) : g \in grant}
  BY DEF Commit
<1>7. ASSUME NEW g \in grant
      PROVE  /\ R(g) \in GrantRow /\ R(g).phone = g.phone /\ R(g).device = g.device
             /\ R(g).amount = g.amount /\ R(g).by = IF g.by = c THEN None ELSE g.by
             /\ g \in GrantRow /\ g.by \in Clients \cup {None} /\ g.amount \in Nat
  BY <1>1 DEF GrantRow
<1> HIDE DEF R, r
<1>8. \A h \in grant' : \E g \in grant : h = R(g)
  BY <1>6
<1>9. \A g \in grant : R(g) \in grant'
  BY <1>6
<1>10. c # None /\ \A g \in grant : g.by = c => g.phone = p /\ req[c].created
  BY AccountsAssumption DEF Sound, GrantsOwned
<1>11. Typed'
  <2>1. grant' \subseteq GrantRow
    BY <1>7, <1>8
  <2>2. wallet' \in [Phones -> Nat]
    BY <1>1, <1>5
  <2>3. \A d \in Clients : req'[d].at # "idle" => req'[d].phone \in Phones
    BY <1>1, <1>2, <1>3 DEF Sound, Typed
  <2> QED
    BY <1>1, <1>3, <1>4, <2>1, <2>2, <2>3 DEF Typed
<1>12. GrantsUnique'
  <2> SUFFICES ASSUME NEW g \in grant', NEW h \in grant', g # h
               PROVE  /\ g.phone # h.phone
                      /\ g.device = h.device => g.amount = 0 \/ h.amount = 0
    BY DEF GrantsUnique
  <2>1. PICK g0 \in grant, h0 \in grant : g = R(g0) /\ h = R(h0)
    BY <1>8
  <2>2. g0 # h0
    BY <2>1
  <2> QED
    BY <1>7, <2>1, <2>2 DEF Sound, GrantsUnique
<1>13. \A q : (\E g \in Committed' : g.phone = q /\ g.amount > 0)
                <=> \E g \in grant : g.by \in {None, c} /\ g.phone = q /\ g.amount > 0
  <2> TAKE q
  <2>1. ASSUME NEW h \in Committed', h.phone = q, h.amount > 0
        PROVE  \E g \in grant : g.by \in {None, c} /\ g.phone = q /\ g.amount > 0
    <3>1. h \in grant' /\ h.by = None
      BY DEF Committed
    <3>2. PICK g \in grant : h = R(g)
      BY <1>8, <3>1
    <3>3. g.by \in {None, c} /\ g.phone = q /\ g.amount > 0
      BY <1>7, <2>1, <3>1, <3>2
    <3> QED
      BY <3>3
  <2>2. ASSUME NEW g \in grant, g.by \in {None, c}, g.phone = q, g.amount > 0
        PROVE  \E h \in Committed' : h.phone = q /\ h.amount > 0
    <3>1. R(g) \in Committed'
      BY <1>7, <1>9, <2>2 DEF Committed
    <3> QED
      BY <1>7, <2>2, <3>1
  <2> QED
    BY <2>1, <2>2
<1>14. \A q : Given(q)' <=> (Given(q) \/ \E g \in grant : g.by = c /\ g.phone = q /\ g.amount > 0)
  BY <1>13 DEF Given, Committed
<1>15. WalletAgrees'
  <2> SUFFICES ASSUME NEW q \in Phones
               PROVE  wallet'[q] = IF Given(q)' THEN Bonus ELSE 0
    BY DEF WalletAgrees
  <2>1. wallet[q] = IF Given(q) THEN Bonus ELSE 0
    BY DEF Sound, WalletAgrees
  <2>2. CASE q # p
    <3>1. wallet'[q] = wallet[q]
      BY <1>1, <1>5, <2>2
    <3>2. Given(q)' <=> Given(q)
      BY <1>10, <1>14, <2>2
    <3> QED
      BY <2>1, <3>1, <3>2
  <2>3. CASE q = p /\ req[c].created
    <3>1. PICK own \in grant : own.by = c /\ own.phone = p /\ own.amount = req[c].amount
      BY <1>1, <2>3 DEF Sound, GrantsOwned, OwnGrant
    <3>2. \A g \in grant : g.phone = p => g = own
      BY <3>1 DEF Sound, GrantsUnique
    <3>3. ~ Given(p)
      BY <1>10, <3>1, <3>2 DEF Given, Committed
    <3>4. wallet[p] = 0
      BY <2>1, <2>3, <3>3
    <3>5. wallet'[p] = req[c].amount
      BY <1>1, <1>5, <2>3, <3>4
    <3>6. Given(q)' <=> req[c].amount > 0
      <4>1. Given(q)' <=> \E g \in grant : g.by = c /\ g.phone = p /\ g.amount > 0
        BY <1>14, <2>3, <3>3
      <4> QED
        BY <3>1, <3>2, <4>1
    <3> QED
      BY <1>1, <2>3, <3>5, <3>6
  <2>4. CASE q = p /\ ~ req[c].created
    <3>1. req[c].amount = 0 /\ (Given(q)' <=> Given(q))
      <4>1. \A g \in grant : g.by # c
        BY <1>10, <2>4
      <4>2. req[c].amount = 0
        BY <1>1, <2>4 DEF Sound, GrantsOwned
      <4> QED
        BY <1>14, <4>1, <4>2
    <3>2. CASE req[c].signup
      <4>1. p \notin account
        BY <1>1, <3>2 DEF Sound, SignUpsApart, SignsUp, InTx
      <4>2. ~ Given(q)
        BY <2>4, <4>1 DEF Sound, GrantedHaveAccount, Given
      <4>3. wallet'[p] = 0
        BY <1>1, <1>5, <3>1, <3>2
      <4> QED
        BY <2>4, <3>1, <4>2, <4>3
    <3>3. CASE ~ req[c].signup
      <4>1. wallet'[p] = wallet[p]
        BY <1>1, <1>5, <2>4, <3>3
      <4> QED
        BY <2>1, <2>4, <3>1, <4>1
    <3> QED
      BY <3>2, <3>3
  <2> QED
    BY <2>2, <2>3, <2>4
<1>16. GrantedHaveAccount'
  <2> SUFFICES ASSUME NEW h \in grant', h.by = None
               PROVE  h.phone \in account'
    BY DEF GrantedHaveAccount, Committed
  <2>1. PICK g \in grant : h = R(g)
    BY <1>8
  <2>2. CASE g.by = c
    BY <1>4, <1>7, <1>10, <2>1, <2>2
  <2>3. CASE g.by = None
    BY <1>4, <1>7, <2>1, <2>3 DEF Sound, GrantedHaveAccount, Committed
  <2> QED
    BY <1>7, <2>1, <2>2, <2>3
<1>17. SignUpsApart'
  <2>1. ~ SignsUp(c)' /\ \A d \in Clients \ {c} : SignsUp(d)' <=> SignsUp(d)
    BY <1>2, <1>3 DEF SignsUp, InTx
  <2>2. \A d \in Clients \ {c} : SignsUp(d) => req[d].phone # p
    <3>1. CASE req[c].signup
      BY <1>1, <3>1 DEF Sound, SignUpsApart, SignsUp, InTx
    <3>2. CASE ~ req[c].signup
      BY <1>1, <3>2 DEF Sound, SignUpsApart, SignsUp, InTx
    <3> QED
      BY <3>1, <3>2
  <2>3. \A d \in Clients : SignsUp(d)' => req'[d].phone \notin account'
    BY <1>3, <1>4, <2>1, <2>2 DEF Sound, SignUpsApart
  <2>4. \A d, e \in Clients : SignsUp(d)' /\ SignsUp(e)' /\ d # e => req'[d].phone # req'[e].phone
    BY <1>3, <2>1 DEF Sound, SignUpsApart
  <2>5. /\ \A d \in Clients : req'[d].at \in InTx /\ ~ req'[d].signup => req'[d].phone \in account'
        /\ \A d \in Clients : req'[d].at = "create" => req'[d].signup
    BY <1>2, <1>3, <1>4 DEF Sound, SignUpsApart, InTx
  <2> QED
    BY <2>3, <2>4, <2>5 DEF SignUpsApart
<1>18. GrantsOwned'
  <2>1. ASSUME NEW h \in grant', h.by # None
        PROVE  req'[h.by].at = "commit" /\ req'[h.by].created /\ req'[h.by].phone = h.phone
    <3>1. PICK g \in grant : h = R(g)
      BY <1>8
    <3>2. g.by \in Clients \ {c} /\ h.by = g.by /\ h.phone = g.phone
      BY <1>7, <2>1, <3>1
    <3> QED
      BY <1>3, <2>1, <3>2 DEF Sound, GrantsOwned
  <2>2. ASSUME NEW d \in Clients, req'[d].at = "commit"
        PROVE  IF req'[d].created THEN OwnGrant(d)' ELSE req'[d].amount = 0
    <3>1. d # c /\ req'[d] = req[d]
      BY <1>2, <1>3, <2>2
    <3>2. CASE req[d].created
      <4>1. PICK g \in grant : g.by = d /\ g.phone = req[d].phone /\ g.amount = req[d].amount
        BY <2>2, <3>1, <3>2 DEF Sound, GrantsOwned, OwnGrant
      <4>2. R(g) \in grant' /\ R(g).by = d /\ R(g).phone = g.phone /\ R(g).amount = g.amount
        BY <1>7, <1>9, <3>1, <4>1
      <4> QED
        BY <3>1, <3>2, <4>1, <4>2 DEF OwnGrant
    <3>3. CASE ~ req[d].created
      BY <2>2, <3>1, <3>3 DEF Sound, GrantsOwned
    <3> QED
      BY <3>2, <3>3
  <2>3. \A d \in Clients : req'[d].created => req'[d].at \in {"commit", "token"}
    BY <1>2, <1>3 DEF Sound, GrantsOwned
  <2> QED
    BY <2>1, <2>2, <2>3 DEF GrantsOwned
<1> QED
  BY <1>11, <1>12, <1>15, <1>16, <1>17, <1>18 DEF Sound

\* The process stops: what had not been committed is gone, requests and all.
LEMMA StepCrash ==
    ASSUME Sound, Crash
    PROVE  Sound'
<1>1. /\ grant' = Committed /\ account' = account /\ wallet' = wallet
      /\ req' = [c \in Clients |-> Idle]
  BY DEF Crash, Committed
<1>2. Committed' = Committed /\ Committed \subseteq grant /\ \A g \in Committed : g.by = None
  BY <1>1 DEF Committed
<1>3. \A c \in Clients : req'[c] = Idle
  BY <1>1
<1>4. Typed' /\ GrantsUnique'
  BY <1>1, <1>2, <1>3, Requests DEF Sound, Typed, GrantsUnique
<1>5. WalletAgrees' /\ GrantedHaveAccount'
  BY <1>1, <1>2 DEF Sound, WalletAgrees, Given, GrantedHaveAccount
<1>6. SignUpsApart'
  BY <1>3, Requests DEF SignUpsApart, SignsUp, InTx
<1>7. GrantsOwned'
  BY <1>1, <1>2, <1>3, Requests DEF GrantsOwned
<1> QED
  BY <1>4, <1>5, <1>6, <1>7 DEF Sound

-----------------------------------------------------------------------------
(* Tokens: rows are added and change their status, and a client holds one  *)
(* of them or none.                                                        *)

LEMMA TokensStay ==
    ASSUME Tokens, UNCHANGED <<token, held>>
    PROVE  Tokens'
  BY DEF Tokens

LEMMA TokenAdded ==
    ASSUME Tokens, NEW p \in Phones, CreateToken(p), NEW c \in Clients,
           held' \in {held, [held EXCEPT ![c] = Len(token')]}
    PROVE  Tokens'
<1>1. [phone |-> p, status |-> "valid"] \in TokenRow
  BY DEF TokenRow
<1>2. token' \in Seq(TokenRow) /\ Len(token') = Len(token) + 1
  BY <1>1 DEF Tokens, CreateToken
<1>3. Len(token) \in Nat
  BY DEF Tokens
<1> QED
  BY <1>2, <1>3 DEF Tokens

\* The rows are as many as they were.
LEMMA RowsKept ==
    ASSUME Tokens, token' \in Seq(TokenRow), Len(token') = Len(token),
           \E c \in Clients : held' \in {held, [held EXCEPT ![c] = 0]}
    PROVE  Tokens'
<1>1. Len(token) \in Nat
  BY DEF Tokens
<1> QED
  BY <1>1 DEF Tokens

LEMMA RowsSeq ==
    ASSUME NEW n \in Nat, NEW s \in [1 .. n -> TokenRow]
    PROVE  s \in Seq(TokenRow) /\ Len(s) = n
  OBVIOUS

LEMMA RowSet ==
    ASSUME NEW t \in TokenRow, NEW status \in {"valid", "revoked", "expired", "deleted"}
    PROVE  [t EXCEPT !.status = status] \in TokenRow
  BY DEF TokenRow

LEMMA StatusSet ==
    ASSUME Tokens, NEW t, NEW status \in {"valid", "revoked", "expired", "deleted"},
           token' = [token EXCEPT ![t].status = status]
    PROVE  token' \in Seq(TokenRow) /\ Len(token') = Len(token)
<1>1. ASSUME NEW i \in 1 .. Len(token)
      PROVE  token[i] \in TokenRow /\ [token[i] EXCEPT !.status = status] \in TokenRow
  <2>1. token[i] \in TokenRow
    BY DEF Tokens
  <2> QED
    BY <2>1, RowSet
<1>2. Len(token) \in Nat /\ DOMAIN token = 1 .. Len(token) /\ DOMAIN token' = DOMAIN token
  BY DEF Tokens
<1>3. \A i \in 1 .. Len(token) :
        token'[i] = IF i = t THEN [token[i] EXCEPT !.status = status] ELSE token[i]
  BY <1>2
<1>4. token' = [i \in 1 .. Len(token) |-> token'[i]]
  BY <1>2
<1>5. \A i \in 1 .. Len(token) : token'[i] \in TokenRow
  BY <1>1, <1>3
<1>6. token' \in [1 .. Len(token) -> TokenRow]
  BY <1>4, <1>5
<1> QED
  BY <1>2, <1>6, RowsSeq

LEMMA StatusMapped ==
    ASSUME Tokens, NEW S, NEW status \in {"valid", "revoked", "expired", "deleted"},
           token' = [t \in DOMAIN token |-> IF t \in S THEN [token[t] EXCEPT !.status = status]
                                            ELSE token[t]]
    PROVE  token' \in Seq(TokenRow) /\ Len(token') = Len(token)
<1>1. ASSUME NEW i \in 1 .. Len(token)
      PROVE  token[i] \in TokenRow /\ [token[i] EXCEPT !.status = status] \in TokenRow
  <2>1. token[i] \in TokenRow
    BY DEF Tokens
  <2> QED
    BY <2>1, RowSet
<1>2. Len(token) \in Nat /\ DOMAIN token = 1 .. Len(token)
  BY DEF Tokens
<1> QED
  BY <1>1, <1>2

LEMMA StepTokens ==
    ASSUME Sound, Tokens, Next
    PROVE  Tokens'
<1> USE DEF data
<1>1. ASSUME NEW c \in Clients, NEW p \in Phones, NEW u \in Purposes,
             \/ RequestOtp(c, p, u)
             \/ \E i \in 1 .. MaxChallenges : VerifyOtp(c, p, u, i)
      PROVE  Tokens'
  BY <1>1, TokensStay DEF RequestOtp, VerifyOtp
<1>2. ASSUME NEW c \in Clients,
             \/ CheckCooldown(c) \/ DeliverOtp(c)
             \/ Register(c) \/ SignInByCode(c) \/ ResetPassword(c) \/ CreateUser(c)
             \/ ResolveBonus(c) \/ RecordDecision(c) \/ GrantBonus(c) \/ GrantNothing(c)
             \/ Commit(c) \/ AnswerFailed(c) \/ Refresh(c)
             \/ \E p \in Phones : Login(c, p)
      PROVE  Tokens'
  <2>1. UNCHANGED <<token, held>>
    BY <1>2 DEF CheckCooldown, DeliverOtp, Register, SignInByCode, ResetPassword, Consume,
       CreateUser, ResolveBonus, RecordDecision, GrantBonus, GrantNothing, InsertGrant, Commit,
       AnswerFailed, Refresh, Login
  <2> QED
    BY <2>1, TokensStay
<1>3. ASSUME NEW c \in Clients, SignedIn(c) \/ CreateNew(c) PROVE Tokens'
  <2>1. req[c].phone \in Phones /\ CreateToken(req[c].phone)
    BY <1>3 DEF SignedIn, CreateNew, At, Sound, Typed
  <2>2. held' \in {held, [held EXCEPT ![c] = Len(token')]}
    BY <1>3 DEF SignedIn, CreateNew
  <2> QED
    BY <2>1, <2>2, TokenAdded
<1>4. ASSUME NEW c \in Clients, RevokeOld(c) \/ Logout(c) PROVE Tokens'
  <2>1. held' \in {held, [held EXCEPT ![c] = 0]}
    BY <1>4 DEF RevokeOld, Logout
  <2>2. token' = token \/ token' = [token EXCEPT ![held[c]].status = "revoked"]
    BY <1>4 DEF RevokeOld, Logout
  <2>3. token' \in Seq(TokenRow) /\ Len(token') = Len(token)
    <3>1. CASE token' = token
      BY <3>1 DEF Tokens
    <3>2. CASE token' = [token EXCEPT ![held[c]].status = "revoked"]
      BY <3>2, StatusSet
    <3> QED
      BY <2>2, <3>1, <3>2
  <2> QED
    BY <2>1, <2>3, RowsKept
<1>5. ASSUME NEW c \in Clients, NEW p \in Phones, ChangeAdminPassword(c, p) PROVE Tokens'
  <2> DEFINE S == {t \in DOMAIN token : token[t].phone = p /\ token[t].status = "valid"}
  <2>1. token' = [t \in DOMAIN token |-> IF t \in S THEN [token[t] EXCEPT !.status = "revoked"]
                                         ELSE token[t]]
    BY <1>5 DEF ChangeAdminPassword
  <2>2. held' = held
    BY <1>5 DEF ChangeAdminPassword
  <2> HIDE DEF S
  <2>3. token' \in Seq(TokenRow) /\ Len(token') = Len(token)
    BY <2>1, StatusMapped
  <2> QED
    BY <2>2, <2>3, RowsKept
<1>6. ASSUME NEW t \in DOMAIN token, TokenExpires(t) PROVE Tokens'
  <2>1. token' = [token EXCEPT ![t].status = "expired"] /\ held' = held
    BY <1>6 DEF TokenExpires
  <2>2. token' \in Seq(TokenRow) /\ Len(token') = Len(token)
    BY <2>1, StatusSet
  <2> QED
    BY <2>1, <2>2 DEF Tokens
<1>7. CASE CleanupExpired
  <2> DEFINE S == {t \in DOMAIN token : token[t].status = "expired"}
  <2>1. token' = [t \in DOMAIN token |-> IF t \in S THEN [token[t] EXCEPT !.status = "deleted"]
                                         ELSE token[t]]
    BY <1>7 DEF CleanupExpired
  <2>2. held' = held
    BY <1>7 DEF CleanupExpired
  <2> HIDE DEF S
  <2>3. token' \in Seq(TokenRow) /\ Len(token') = Len(token)
    BY <2>1, StatusMapped
  <2> QED
    BY <2>2, <2>3 DEF Tokens
<1>8. CASE Crash \/ \/ \E p \in Phones, u \in Purposes : OtpAges(p, u)
                    \/ \E k \in Phones \cup Clients : WindowEnds(k)
  <2>1. UNCHANGED <<token, held>>
    BY <1>8 DEF Crash, OtpAges, WindowEnds
  <2> QED
    BY <2>1, TokensStay
<1> QED
  BY <1>1, <1>2, <1>3, <1>4, <1>5, <1>6, <1>7, <1>8 DEF Next

LEMMA StepInvariant ==
    ASSUME IInv, [Next]_vars
    PROVE  IInv'
<1> USE DEF IInv
<1>1. CASE UNCHANGED vars
  <2>1. UNCHANGED <<account, wallet, grant, req, token, held>>
    BY <1>1 DEF vars
  <2> QED
    BY <2>1, Unrelated, TokensStay
<1>2. CASE Next
  <2>1. ASSUME NEW c \in Clients, NEW p \in Phones, NEW u \in Purposes,
               \/ RequestOtp(c, p, u)
               \/ \E i \in 1 .. MaxChallenges : VerifyOtp(c, p, u, i)
        PROVE  Sound'
    BY <2>1, StepCode
  <2>2. ASSUME NEW c \in Clients,
               \/ CheckCooldown(c) \/ DeliverOtp(c) \/ Register(c) \/ ResetPassword(c)
               \/ AnswerFailed(c) \/ SignedIn(c) \/ Refresh(c) \/ RevokeOld(c) \/ CreateNew(c)
        PROVE  Sound'
    BY <2>2, StepToken
  <2>3. ASSUME NEW c \in Clients,
               SignInByCode(c) \/ CreateUser(c) \/ \E p \in Phones : Login(c, p)
        PROVE  Sound'
    BY <2>3, StepEnter
  <2>4. ASSUME NEW c \in Clients,
               \/ ResolveBonus(c) \/ RecordDecision(c) \/ GrantBonus(c) \/ GrantNothing(c)
               \/ Commit(c)
        PROVE  Sound'
    BY <2>4, StepDecide, StepInsert, StepCommit
  <2>5. ASSUME \/ \E c \in Clients : Logout(c) \/ \E p \in Phones : ChangeAdminPassword(c, p)
               \/ \E p \in Phones, u \in Purposes : OtpAges(p, u)
               \/ \E k \in Phones \cup Clients : WindowEnds(k)
               \/ \E t \in DOMAIN token : TokenExpires(t)
               \/ CleanupExpired
        PROVE  Sound'
    <3>1. UNCHANGED <<account, wallet, grant, req>>
      BY <2>5 DEF Logout, ChangeAdminPassword, OtpAges, WindowEnds, TokenExpires,
         CleanupExpired, data
    <3> QED
      BY <3>1, Unrelated
  <2>6. ASSUME Crash PROVE Sound'
    BY <2>6, StepCrash
  <2>7. Sound'
    BY <1>2, <2>1, <2>2, <2>3, <2>4, <2>5, <2>6 DEF Next
  <2> QED
    BY <1>2, <2>7, StepTokens
<1> QED
  BY <1>1, <1>2

\* Sign-ups, sign-ins, codes, tokens and restarts keep what is known of
\* accounts, grants, wallets and the transactions that write them.
THEOREM Invariant == Spec => []IInv
<1>1. Init => IInv
  BY InitInvariant
<1>2. IInv /\ [Next]_vars => IInv'
  BY StepInvariant
<1> QED
  BY <1>1, <1>2, PTL DEF Spec

\* However sign-ups and sign-ins on the devices interleave, fail halfway or are
\* repeated, a device gives the welcome bonus once, a user has one decision, and
\* the wallet holds the bonus exactly when that decision gave it.
THEOREM BonusGivenOnce == Spec => []BonusOnce
<1>1. IInv => BonusOnce
  <2> SUFFICES ASSUME IInv PROVE BonusOnce
    OBVIOUS
  <2>1. GrantsUnique /\ WalletAgrees
    BY DEF IInv, Sound
  <2> QED
    BY <2>1 DEF GrantsUnique, WalletAgrees, Given, BonusOnce, Committed
<1> QED
  BY <1>1, Invariant, PTL
=============================================================================
