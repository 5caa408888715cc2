-------------------------------- MODULE Push --------------------------------
(***************************************************************************)
(* Push notifications: who is told what, once, and not too often.          *)
(*                                                                         *)
(* A notification stands for a category and an entity.  Requests, jobs and *)
(* timers dispatch notifications at the same time; the log of deliveries   *)
(* is a table, each read or insert of it a step of its own.  The wording,  *)
(* and the answers of the messaging service beyond "sent", "failed" and    *)
(* "invalid token", are left out.                                          *)
(***************************************************************************)
EXTENDS Integers, FiniteSets

CONSTANTS
    Users, Devices,
    Marketing, Exempt, Other,   \* notifications by the policy of their category
    Personal,                   \* the exempt ones for one user: sendAppNotificationToUser
    Open,                       \* sent to whoever has a device, not to a given list
    Senders,                    \* dispatches that may run at the same time
    GlobalMax, GlobalWindow, MarketingMax, MarketingWindow,
    Loads,                      \* bound: how often each notification may be dispatched
    MaxTime, None

Notes == Marketing \cup Exempt \cup Other

ASSUME PushAssumption ==
    /\ Personal \subseteq Exempt /\ Open \subseteq Notes \ Personal
    /\ Marketing \cap (Exempt \cup Other) = {} /\ Exempt \cap Other = {}
    /\ \A n \in {GlobalMax, GlobalWindow, MarketingMax, MarketingWindow, MaxTime} : n \in Nat
    /\ Loads \subseteq [Notes -> Nat]
    /\ None \notin Users \cup Notes
    /\ IsFiniteSet(Senders) /\ Senders # {}

VARIABLES
    device,     \* device[d]: rows of PushDevice: user, enabled
    log,        \* rows of PushDeliveryLog
    sender,     \* sender[s]: where a dispatch is
    dispatched, \* dispatched[n]: how often notification n was dispatched
    told,       \* told[n][u]: dispatches of n that reached user u (history)
    cut,        \* a dispatch was cut short (history)
    now

vars == <<device, log, sender, dispatched, told, cut, now>>

Row == [user : Users, note : Notes, sentAt : 0 .. MaxTime]

TypeOK ==
    /\ device \in [Devices -> [user : Users \cup {None}, enabled : BOOLEAN]]
    /\ log \subseteq Row
    /\ sender \in [Senders ->
         [at : {"idle", "filter", "global", "marketing", "reserve", "lookup", "send", "record"},
          note : Notes \cup {None}, users : SUBSET Users,
          devices : SUBSET (Users \X Devices), reached : SUBSET Users]]
    /\ dispatched \in [Notes -> Nat]
    /\ told \in [Notes -> [Users -> Nat]]
    /\ cut \in BOOLEAN
    /\ now \in 0 .. MaxTime

Idle == [at |-> "idle", note |-> None, users |-> {}, devices |-> {}, reached |-> {}]

Init ==
    /\ device = [d \in Devices |-> [user |-> None, enabled |-> FALSE]]
    /\ log = {}
    /\ sender = [s \in Senders |-> Idle]
    /\ dispatched = [n \in Notes |-> 0]
    /\ told = [n \in Notes |-> [u \in Users |-> 0]]
    /\ cut = FALSE
    /\ now = 0

At(s, step) == sender[s].at = step
To(s, r) == sender' = [sender EXCEPT ![s] = r]
\* Goes on for those left, or ends if nobody is.
Goes(s, step, us) ==
    To(s, IF us = {} THEN Idle ELSE [sender[s] EXCEPT !.at = step, !.users = us])

(***************************************************************************)
(* Devices.                                                                *)
(***************************************************************************)
RegisterDevice(d, u) ==
    /\ device[d] # [user |-> u, enabled |-> TRUE]
    /\ device' = [device EXCEPT ![d] = [user |-> u, enabled |-> TRUE]]
    /\ UNCHANGED <<log, sender, dispatched, told, cut, now>>

UnregisterDevice(d, u) ==
    /\ device[d] = [user |-> u, enabled |-> TRUE]
    /\ device' = [device EXCEPT ![d].enabled = FALSE]
    /\ UNCHANGED <<log, sender, dispatched, told, cut, now>>

Enabled(us) == {x \in us \X Devices : device[x[2]] = [user |-> x[1], enabled |-> TRUE]}

PushEnabledUsers == {u \in Users : Enabled({u}) # {}}

(***************************************************************************)
(* A dispatch.                                                             *)
(***************************************************************************)
Audiences(n) == CASE n \in Personal -> {{u} : u \in Users}
                  [] n \in Open -> {PushEnabledUsers} \ {{}}
                  [] OTHER -> SUBSET Users \ {{}}

Dispatch(s, n) ==
    /\ At(s, "idle")
    /\ dispatched' = [dispatched EXCEPT ![n] = @ + 1]
    /\ \E load \in Loads : \A m \in Notes : dispatched'[m] <= load[m]
    /\ \E us \in Audiences(n) : To(s, [Idle EXCEPT !.at = "filter", !.note = n, !.users = us])
    /\ UNCHANGED <<device, log, told, cut, now>>

Delivered(n) == {r.user : r \in {q \in log : q.note = n}}

\* Whoever has the notification already is left out; exempt ones skip the limits.
FilterDelivered(s) ==
    /\ At(s, "filter")
    /\ LET n == sender[s].note
       IN  Goes(s, IF n \in Personal THEN "lookup" ELSE IF n \in Exempt THEN "reserve" ELSE "global",
                sender[s].users \ Delivered(n))
    /\ UNCHANGED <<device, log, dispatched, told, cut, now>>

Deliveries(u, ns, window) ==
    Cardinality({r \in log : r.user = u /\ r.note \in ns /\ r.sentAt >= now - window})

\* Faulty variant: the limit is compared one too far.
UnderLoosely(us, ns, window, max) == {u \in us : Deliveries(u, ns, window) <= max}

Under(us, ns, window, max) == {u \in us : Deliveries(u, ns, window) < max}

FilterGlobal(s) ==
    /\ At(s, "global")
    /\ Goes(s, IF sender[s].note \in Marketing THEN "marketing" ELSE "reserve",
            Under(sender[s].users, Notes, GlobalWindow, GlobalMax))
    /\ UNCHANGED <<device, log, dispatched, told, cut, now>>

FilterMarketing(s) ==
    /\ At(s, "marketing")
    /\ Goes(s, "reserve", Under(sender[s].users, Marketing, MarketingWindow, MarketingMax))
    /\ UNCHANGED <<device, log, dispatched, told, cut, now>>

\* Faulty variant: what was there is not left out of what comes back.
ReturnedAll(us, n) == us

\* INSERT ... ON CONFLICT DO NOTHING RETURNING: the rows that were not there.
Returned(us, n) == us \ Delivered(n)

NewRows(us, n) == [user : us \ Delivered(n), note : {n}, sentAt : {now}]

Reserve(s) ==
    /\ At(s, "reserve")
    /\ log' = log \cup NewRows(sender[s].users, sender[s].note)
    /\ Goes(s, "lookup", Returned(sender[s].users, sender[s].note))
    /\ UNCHANGED <<device, dispatched, told, cut, now>>

LookUp(s) ==
    /\ At(s, "lookup")
    /\ LET ds == Enabled(sender[s].users)
       IN  To(s, IF ds = {} THEN Idle ELSE [sender[s] EXCEPT !.at = "send", !.devices = ds])
    /\ UNCHANGED <<device, log, dispatched, told, cut, now>>

\* After its last device a dispatch ends; a personal one that reached its user is recorded.
After(s, devices, reached) ==
    To(s, IF devices # {} THEN [sender[s] EXCEPT !.devices = devices, !.reached = reached]
          ELSE IF sender[s].note \in Personal /\ reached # {}
          THEN [sender[s] EXCEPT !.at = "record", !.devices = {}, !.reached = reached]
          ELSE Idle)

\* By id, whoever the device belongs to by now.
Disabled(d) == [device EXCEPT ![d].enabled = FALSE]

\* Users in parallel, the devices found for each in some order, whoever owns them by now.
SendToDevice(s, u, d) ==
    /\ At(s, "send")
    /\ <<u, d>> \in sender[s].devices
    /\ LET rest == sender[s].devices \ {<<u, d>>}
           n == sender[s].note
       IN  \/ /\ told' = [told EXCEPT ![n][u] = IF u \in sender[s].reached THEN @ ELSE @ + 1]
              /\ After(s, rest, sender[s].reached \cup {u})
              /\ UNCHANGED device
           \/ /\ device' = Disabled(d)                             \* the token is invalid
              /\ After(s, rest, sender[s].reached)
              /\ UNCHANGED told
           \/ /\ After(s, rest, sender[s].reached)                  \* another failure
              /\ UNCHANGED <<device, told>>
    /\ UNCHANGED <<log, dispatched, cut, now>>

RecordSuccessfulPush(s) ==
    /\ At(s, "record")
    /\ log' = log \cup NewRows(sender[s].users, sender[s].note)
    /\ To(s, Idle)
    /\ UNCHANGED <<device, dispatched, told, cut, now>>

\* A query fails or the process stops: the dispatch is not taken up again.
Cut(s) ==
    /\ ~ At(s, "idle")
    /\ To(s, Idle)
    /\ cut' = TRUE
    /\ UNCHANGED <<device, log, dispatched, told, now>>

Tick ==
    /\ now < MaxTime
    /\ now' = now + 1
    /\ UNCHANGED <<device, log, sender, dispatched, told, cut>>

Next ==
    \/ \E d \in Devices, u \in Users : RegisterDevice(d, u) \/ UnregisterDevice(d, u)
    \/ \E s \in Senders :
         \/ \E n \in Notes : Dispatch(s, n)
         \/ FilterDelivered(s) \/ FilterGlobal(s) \/ FilterMarketing(s)
         \/ Reserve(s) \/ LookUp(s) \/ RecordSuccessfulPush(s) \/ Cut(s)
         \/ \E u \in Users, d \in Devices : SendToDevice(s, u, d)
    \/ Tick

Spec == Init /\ [][Next]_vars

(***************************************************************************)
(* Properties.                                                             *)
(***************************************************************************)
\* However often and however concurrently a reserved notification is dispatched,
\* with devices that change hands meanwhile, no user is reached by two dispatches
\* of it (notifications.service.ts:361: "concurrent duplicates cannot
\* double-send").  A personal one is logged only when it was sent: those under way
\* then may reach the user as well, those that begin later do not, unless a crash
\* or an error of the database came between the sending and the log.
ToldOnce ==
    \A n \in Notes, u \in Users :
      /\ n \notin Personal => told[n][u] <= 1
      /\ n \in Personal /\ ~ cut => told[n][u] <= Cardinality(Senders)

\* Counts are read before deliveries are logged, so that dispatches of several
\* notifications may pass a limit together; but by no more than one each.
LimitsNearlyKept ==
    \A u \in Users :
      /\ Deliveries(u, Marketing, MarketingWindow) < MarketingMax + Cardinality(Senders)
      /\ Deliveries(u, Marketing \cup Other, GlobalWindow) < GlobalMax + Cardinality(Senders)

(***************************************************************************)
(* What the comments promise and the code does not do.                     *)
(***************************************************************************)
\* sendAppNotificationToUser leaves out who has the notification already; but two
\* approvals of one deposit (deposits.service.ts:637, 806) may both send.
PersonalToldOnce == \A n \in Personal, u \in Users : told[n][u] <= 1

\* "Big-game reminder broadcasts share a tighter per-user cap."
MarketingCapKept == \A u \in Users : Deliveries(u, Marketing, MarketingWindow) <= MarketingMax
=============================================================================
