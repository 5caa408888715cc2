------------------------------ MODULE Accounts ------------------------------
(***************************************************************************)
(* Signing up and signing in: one-time codes, accounts, the welcome bonus  *)
(* of a device, refresh tokens.                                            *)
(*                                                                         *)
(* A client sends one request at a time; several clients may use the same  *)
(* phone number or the same device.  Codes, passwords and tokens are       *)
(* reduced to which row they stand for.  The database runs transactions at *)
(* READ COMMITTED: an insert waits for an uncommitted row with the same    *)
(* unique key, and one that meets a committed row aborts its transaction.  *)
(***************************************************************************)
EXTENDS Integers, Sequences, FiniteSets

CONSTANTS
    Phones,         \* one account each, at most
    Registered,     \* those with an account at the start
    Blocked,        \* accounts with status BLOCKED
    AdminPhones,    \* accounts with role ADMIN
    Clients,
    Device,         \* Device[c]: the device id that client c sends, or None
    Bonus,          \* WELCOME_BONUS_CARTELAS_WHEN_ENABLED; 0 while it is disabled
    SendLimit,      \* codes to a phone, and to an address, in a window
    MaxAttempts,    \* OTP_MAX_ATTEMPTS
    MaxChallenges,  \* bound: codes sent for one phone and purpose
    MaxTokens,      \* bound: refresh tokens in all
    MaxRequests,    \* bound: requests in all, logouts and passwords apart
    None

ASSUME AccountsAssumption ==
    /\ Registered \subseteq Phones /\ Blocked \cup AdminPhones \subseteq Registered
    /\ \A n \in {Bonus, SendLimit, MaxAttempts, MaxChallenges, MaxTokens, MaxRequests} : n \in Nat
    /\ DOMAIN Device = Clients
    /\ None \notin Phones \cup Clients

VARIABLES
    account,    \* phones with a user row
    wallet,     \* wallet[p]: bonusCartelaBalance
    grant,      \* DeviceWelcomeBonusGrant; by: its transaction, or None if committed
    otp,        \* otp[p][u]: codes for phone p and purpose u, oldest first
    sent,       \* sent[k]: codes counted in the window of phone or address k
    token,      \* rows of RefreshToken
    held,       \* held[c]: the token client c has
    req,        \* req[c]: where c's request is
    requests    \* requests so far

vars == <<account, wallet, grant, otp, sent, token, held, req, requests>>
data == <<account, wallet, grant>>

Purposes == {"REGISTER", "LOGIN", "PASSWORD_RESET"}
Steps == {"idle", "cooldown", "deliver", "consume", "create", "resolve", "record",
          "positive", "zero", "commit", "token", "revoke", "rotate", "failed"}

Challenge == [age : {"new", "old", "expired"}, attempts : 0 .. MaxAttempts, consumed : BOOLEAN]
Grant == [phone : Phones, device : {Device[c] : c \in Clients} \ {None},
          amount : {0, Bonus}, by : Clients \cup {None}]
Request == [at : Steps, phone : Phones \cup {None}, purpose : Purposes \cup {None},
            code : 0 .. MaxChallenges, amount : {0, Bonus}, denied : BOOLEAN,
            created : BOOLEAN, signup : BOOLEAN]

TypeOK ==
    /\ account \subseteq Phones
    /\ wallet \in [Phones -> Nat]
    /\ grant \subseteq Grant
    /\ \A p \in Phones, u \in Purposes :
         /\ Len(otp[p][u]) <= MaxChallenges
         /\ \A i \in DOMAIN otp[p][u] : otp[p][u][i] \in Challenge
    /\ sent \in [Phones \cup Clients -> 0 .. SendLimit]
    /\ token \in Seq([phone : Phones, status : {"valid", "revoked", "expired", "deleted"}])
    /\ held \in [Clients -> 0 .. MaxTokens]
    /\ req \in [Clients -> Request]
    /\ requests \in 0 .. MaxRequests

Idle == [at |-> "idle", phone |-> None, purpose |-> None, code |-> 0, amount |-> 0,
         denied |-> FALSE, created |-> FALSE, signup |-> FALSE]

Init ==
    /\ account = Registered
    /\ wallet = [p \in Phones |-> 0]
    /\ grant = {}
    /\ \E S \in SUBSET (Phones \ Registered) :     \* sent a code to sign up
         otp = [p \in Phones |-> [u \in Purposes |->
           IF p \in S /\ u = "REGISTER"
           THEN <<[age |-> "old", attempts |-> 0, consumed |-> FALSE]>> ELSE <<>>]]
    /\ sent = [k \in Phones \cup Clients |-> 0]
    /\ token = <<>>
    /\ held = [c \in Clients |-> 0]
    /\ req = [c \in Clients |-> Idle]
    /\ requests = 0

To(c, r) == req' = [req EXCEPT ![c] = r]
At(c, step) == req[c].at = step
Goes(c, step) == To(c, [req[c] EXCEPT !.at = step])
Refused(c) == To(c, Idle)
Counted == requests < MaxRequests /\ requests' = requests + 1

(***************************************************************************)
(* One-time codes.                                                         *)
(***************************************************************************)
PurposeAllowed(p, u) == CASE u = "REGISTER" -> p \notin account
                          [] u = "LOGIN" -> p \in account
                          [] u = "PASSWORD_RESET" -> TRUE

\* Both counters are memory of the process; the phone's is taken first and
\* stays taken when the address is over its limit.
SendCounts(c, p) ==
    [sent EXCEPT ![p] = @ + 1, ![c] = IF @ < SendLimit THEN @ + 1 ELSE @]

RequestOtp(c, p, u) ==
    /\ At(c, "idle") /\ Counted
    /\ PurposeAllowed(p, u)
    /\ sent[p] < SendLimit
    /\ sent' = SendCounts(c, p)
    /\ To(c, IF sent[c] < SendLimit
             THEN [Idle EXCEPT !.at = "cooldown", !.phone = p, !.purpose = u] ELSE Idle)
    /\ UNCHANGED <<data, otp, token, held>>

Codes(c) == otp[req[c].phone][req[c].purpose]

CheckCooldown(c) ==
    /\ At(c, "cooldown")
    /\ IF Codes(c) # <<>> /\ Codes(c)[Len(Codes(c))].age = "new"
       THEN Refused(c) ELSE Goes(c, "deliver")
    /\ UNCHANGED <<data, otp, sent, token, held, requests>>

\* The row is written after the message is sent; if that fails there is none.
DeliverOtp(c) ==
    /\ At(c, "deliver")
    /\ \/ /\ Len(Codes(c)) < MaxChallenges
          /\ otp' = [otp EXCEPT ![req[c].phone][req[c].purpose] =
                       Append(@, [age |-> "new", attempts |-> 0, consumed |-> FALSE])]
       \/ UNCHANGED otp
    /\ Refused(c)
    /\ UNCHANGED <<data, sent, token, held, requests>>

\* The challenge a code is compared with: the newest not consumed.
Current(s) == {i \in DOMAIN s : ~ s[i].consumed /\ \A j \in DOMAIN s : j > i => s[j].consumed}

\* A client gives the code of challenge i, of whichever it has received.
VerifyOtp(c, p, u, i) ==
    /\ At(c, "idle") /\ Counted
    /\ i \in DOMAIN otp[p][u]
    /\ u = "PASSWORD_RESET" => p \in account
    /\ \E j \in Current(otp[p][u]) :
         /\ otp[p][u][j].age # "expired"
         /\ otp[p][u][j].attempts < MaxAttempts
         /\ \/ /\ i = j
               /\ To(c, [Idle EXCEPT !.at = "consume", !.phone = p, !.purpose = u, !.code = j])
               /\ UNCHANGED otp
            \/ /\ i # j
               /\ otp' = [otp EXCEPT ![p][u][j].attempts = @ + 1]
               /\ UNCHANGED req
    /\ UNCHANGED <<data, sent, token, held>>

WithBonus(c, p) ==
    [Idle EXCEPT !.at = IF Device[c] # None THEN "resolve" ELSE "token", !.phone = p]

Consume(c, u) ==
    /\ At(c, "consume") /\ req[c].purpose = u
    /\ otp' = [otp EXCEPT ![req[c].phone][u][req[c].code].consumed = TRUE]
    /\ UNCHANGED <<data, sent, token, held, requests>>

\* What the code was for: to create an account, to sign in, to set a password.
Register(c) ==
    /\ Consume(c, "REGISTER")
    /\ To(c, [Idle EXCEPT !.at = "create", !.phone = req[c].phone, !.signup = TRUE])

SignInByCode(c) ==
    /\ Consume(c, "LOGIN")
    /\ To(c, IF req[c].phone \in account \ Blocked THEN WithBonus(c, req[c].phone) ELSE Idle)

\* Nothing but the password changes: sessions stay.
ResetPassword(c) == Consume(c, "PASSWORD_RESET") /\ Refused(c)

\* Cooldown, expiry and the window of the counters.
OtpAges(p, u) ==
    /\ \E i \in DOMAIN otp[p][u] :
         /\ otp[p][u][i].age # "expired"
         /\ \A j \in 1 .. i - 1 : otp[p][u][j].age = "expired"
         /\ otp' = [otp EXCEPT ![p][u][i].age = IF @ = "new" THEN "old" ELSE "expired"]
    /\ UNCHANGED <<data, sent, token, held, req, requests>>

WindowEnds(k) ==
    /\ sent[k] > 0
    /\ sent' = [sent EXCEPT ![k] = 0]
    /\ UNCHANGED <<data, otp, token, held, req, requests>>

(***************************************************************************)
(* Accounts and the welcome bonus: one transaction, in steps.              *)
(***************************************************************************)
\* The user row.  Two sign-ups of one phone: the second insert waits, and then
\* finds the phone taken.
Inserting(d, p) == /\ req[d].signup /\ req[d].phone = p
                   /\ req[d].at \in {"resolve", "record", "positive", "zero", "commit"}

CreateUser(c) ==
    /\ At(c, "create")
    /\ \A d \in Clients \ {c} : ~ Inserting(d, req[c].phone)
    /\ IF req[c].phone \in account THEN Refused(c) ELSE Goes(c, "resolve")
    /\ UNCHANGED <<data, otp, sent, token, held, requests>>

\* The password is right; without a device id there is no transaction.
Login(c, p) ==
    /\ At(c, "idle") /\ Counted
    /\ p \in account \ Blocked
    /\ To(c, WithBonus(c, p))
    /\ UNCHANGED <<data, otp, sent, token, held>>

Visible(c) == {g \in grant : g.by \in {None, c}}
UserGrant(c) == {g \in Visible(c) : g.phone = req[c].phone}
DeviceAward(c) == {g \in Visible(c) : g.device = Device[c] /\ g.amount > 0}

ResolveBonus(c) ==
    /\ At(c, "resolve")
    /\ LET denied == Device[c] # None /\ Bonus > 0 /\ UserGrant(c) \cup DeviceAward(c) # {}
           due == Device[c] # None /\ Bonus > 0 /\ ~ denied
       IN  To(c, [req[c] EXCEPT !.at = IF Device[c] = None THEN "commit" ELSE "record",
                                !.amount = IF due THEN Bonus ELSE 0, !.denied = denied])
    /\ UNCHANGED <<data, otp, sent, token, held, requests>>

\* Who has a decision keeps it; a bonus to give, a refusal to record, or neither.
RecordDecision(c) ==
    /\ At(c, "record")
    /\ To(c, IF UserGrant(c) # {} THEN [req[c] EXCEPT !.at = "commit", !.amount = 0]
             ELSE [req[c] EXCEPT !.at = IF req[c].amount > 0 THEN "positive"
                                        ELSE IF req[c].denied THEN "zero" ELSE "commit"])
    /\ UNCHANGED <<data, otp, sent, token, held, requests>>

\* Faulty variant: no unique index on the device.
CollidesByUser(g, amount, c) == g.phone = req[c].phone

\* Unique: userId; and deviceId among the grants that gave something.
Collides(g, amount, c) ==
    \/ g.phone = req[c].phone
    \/ g.amount > 0 /\ amount > 0 /\ g.device = Device[c]

Rollback(c) == grant' = {g \in grant : g.by # c}

\* A collision is caught and answered with a refusal to record, but it has
\* aborted the transaction: the next statement fails.
InsertGrant(c, step, amount) ==
    /\ At(c, step)
    /\ \A g \in grant : Collides(g, amount, c) => g.by = None
    /\ \/ /\ \A g \in grant : ~ Collides(g, amount, c)
          /\ grant' = grant \cup {[phone |-> req[c].phone, device |-> Device[c],
                                   amount |-> amount, by |-> c]}
          /\ To(c, [req[c] EXCEPT !.at = "commit", !.amount = amount, !.created = TRUE])
       \/ /\ \E g \in grant : Collides(g, amount, c)
          /\ Rollback(c)
          /\ Goes(c, "failed")
    /\ UNCHANGED <<account, wallet, otp, sent, token, held, requests>>

GrantBonus(c) == InsertGrant(c, "positive", req[c].amount)
GrantNothing(c) == InsertGrant(c, "zero", 0)

\* The wallet: a new one with the bonus, or the old one increased by it.
Commit(c) ==
    /\ At(c, "commit")
    /\ wallet' = [wallet EXCEPT ![req[c].phone] =
                    IF req[c].signup THEN req[c].amount
                    ELSE IF req[c].created THEN @ + req[c].amount ELSE @]
    /\ account' = account \cup {req[c].phone}
    /\ grant' = {[g EXCEPT !.by = IF @ = c THEN None ELSE @] : g \in grant}
    /\ Goes(c, "token")
    /\ UNCHANGED <<otp, sent, token, held, requests>>

\* The client is told of the error and may try again.
AnswerFailed(c) ==
    /\ At(c, "failed")
    /\ Refused(c)
    /\ UNCHANGED <<data, otp, sent, token, held, requests>>

(***************************************************************************)
(* Refresh tokens.                                                         *)
(***************************************************************************)
CreateToken(p) == /\ Len(token) < MaxTokens
                  /\ token' = Append(token, [phone |-> p, status |-> "valid"])

SignedIn(c) ==
    /\ At(c, "token")
    /\ CreateToken(req[c].phone)
    /\ held' = [held EXCEPT ![c] = Len(token')]
    /\ Refused(c)
    /\ UNCHANGED <<data, otp, sent, requests>>

Valid(t) == t > 0 /\ token[t].status = "valid"

\* Rotation: validated, revoked whatever it is by then, replaced; only then is
\* the account looked at.
Refresh(c) ==
    /\ At(c, "idle") /\ Counted
    /\ Valid(held[c])
    /\ To(c, [Idle EXCEPT !.at = "revoke", !.phone = token[held[c]].phone])
    /\ UNCHANGED <<data, otp, sent, token, held>>

RevokeOld(c) ==
    /\ At(c, "revoke")
    /\ \/ /\ token[held[c]].status # "deleted"
          /\ token' = [token EXCEPT ![held[c]].status = "revoked"]
          /\ Goes(c, "rotate")
       \/ /\ token[held[c]].status = "deleted"
          /\ Refused(c)
          /\ UNCHANGED token
    /\ UNCHANGED <<data, otp, sent, held, requests>>

CreateNew(c) ==
    /\ At(c, "rotate")
    /\ CreateToken(req[c].phone)
    /\ held' = IF req[c].phone \in Blocked THEN held ELSE [held EXCEPT ![c] = Len(token')]
    /\ Refused(c)
    /\ UNCHANGED <<data, otp, sent, requests>>

Logout(c) ==
    /\ At(c, "idle") /\ held[c] > 0
    /\ token' = IF Valid(held[c]) THEN [token EXCEPT ![held[c]].status = "revoked"] ELSE token
    /\ held' = [held EXCEPT ![c] = 0]
    /\ UNCHANGED <<data, otp, sent, req, requests>>

\* A new password ends the sessions of an administrator, not of a player.
ChangeAdminPassword(c, p) ==
    /\ At(c, "idle") /\ p \in AdminPhones \ Blocked
    /\ \E t \in DOMAIN token : token[t].phone = p /\ token[t].status = "valid"
    /\ token' = [t \in DOMAIN token |->
                   IF token[t].phone = p /\ token[t].status = "valid"
                   THEN [token[t] EXCEPT !.status = "revoked"] ELSE token[t]]
    /\ UNCHANGED <<data, otp, sent, held, req, requests>>

TokenExpires(t) ==
    /\ token[t].status = "valid"
    /\ token' = [token EXCEPT ![t].status = "expired"]
    /\ UNCHANGED <<data, otp, sent, held, req, requests>>

\* Once a day: what has expired (here, a token not revoked before) is deleted.
CleanupExpired ==
    /\ \E t \in DOMAIN token : token[t].status = "expired"
    /\ token' = [t \in DOMAIN token |->
                   IF token[t].status = "expired" THEN [token[t] EXCEPT !.status = "deleted"]
                   ELSE token[t]]
    /\ UNCHANGED <<data, otp, sent, held, req, requests>>

\* The process stops: requests and counters are gone, transactions roll back.
Crash ==
    /\ \E c \in Clients : ~ At(c, "idle")
    /\ req' = [c \in Clients |-> Idle]
    /\ grant' = {g \in grant : g.by = None}
    /\ sent' = [k \in Phones \cup Clients |-> 0]
    /\ UNCHANGED <<account, wallet, otp, token, held, requests>>

Next ==
    \/ \E c \in Clients :
         \/ \E p \in Phones, u \in Purposes :
              \/ RequestOtp(c, p, u)
              \/ \E i \in 1 .. MaxChallenges : VerifyOtp(c, p, u, i)
         \/ CheckCooldown(c) \/ DeliverOtp(c)
         \/ Register(c) \/ SignInByCode(c) \/ ResetPassword(c)
         \/ CreateUser(c) \/ \E p \in Phones : Login(c, p)
         \/ ResolveBonus(c) \/ RecordDecision(c) \/ GrantBonus(c) \/ GrantNothing(c)
         \/ Commit(c) \/ AnswerFailed(c)
         \/ SignedIn(c) \/ Refresh(c) \/ RevokeOld(c) \/ CreateNew(c) \/ Logout(c)
         \/ \E p \in Phones : ChangeAdminPassword(c, p)
    \/ \E p \in Phones, u \in Purposes : OtpAges(p, u)
    \/ \E k \in Phones \cup Clients : WindowEnds(k)
    \/ \E t \in DOMAIN token : TokenExpires(t)
    \/ CleanupExpired \/ Crash

Spec == Init /\ [][Next]_vars

(***************************************************************************)
(* Properties.                                                             *)
(***************************************************************************)
Committed == {g \in grant : g.by = None}

\* However sign-ups and sign-ins of several phones on one device interleave or
\* are repeated, a device gives the bonus once, a user has one decision, and
\* the wallet was increased by what the decision says.
BonusOnce ==
    /\ \A g, h \in Committed : g # h =>
         /\ g.phone # h.phone
         /\ (g.device = h.device) => (g.amount = 0 \/ h.amount = 0)
    /\ \A p \in Phones : wallet[p] = IF \E g \in Committed : g.phone = p /\ g.amount > 0
                                     THEN Bonus ELSE 0

(***************************************************************************)
(* What the documentation and comments promise and the code does not do.   *)
(***************************************************************************)
\* A device used before costs a player the bonus, never the sign-in.
DenialIsRecorded == \A c \in Clients : ~ At(c, "failed")

\* A session ends when its player logs out or its token expires.
SessionKept == \A c \in Clients : held[c] > 0 /\ At(c, "idle") =>
                 token[held[c]].status # "revoked"
=============================================================================
