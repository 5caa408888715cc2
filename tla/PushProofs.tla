----------------------------- MODULE PushProofs -----------------------------
(***************************************************************************)
(* Proofs about Push, for any users, devices, notifications, limits and    *)
(* number of dispatches.                                                   *)
(*                                                                         *)
(* That nobody is told anything twice is not inductive alone.  A reserved   *)
(* notification has one dispatch for a user at a time, and belonging to it *)
(* leaves a row in the log behind.  A personal one is logged after it was  *)
(* sent: what bounds it is that dispatches that begin later find the row.  *)
(***************************************************************************)
EXTENDS Push, FiniteSetTheorems, TLAPS

\* Dispatch s has reserved n for u, and sends it.
Owns(s, n, u) ==
    /\ sender[s].note = n /\ u \in sender[s].users
    /\ n \notin Personal /\ sender[s].at \in {"lookup", "send"}

Logged(n, u) == \E r \in log : r.note = n /\ r.user = u

SenderRows ==
    [at : {"idle", "filter", "global", "marketing", "reserve", "lookup", "send", "record"},
     note : Notes \cup {None}, users : SUBSET Users,
     devices : SUBSET (Users \X Devices), reached : SUBSET Users]

\* What a dispatch has found and done so far concerns the users it is for.
Fits(r) ==
    /\ r.at = "idle" <=> r.note = None
    /\ r.devices # {} => r.at = "send"
    /\ \A x \in r.devices : x[1] \in r.users
    /\ r.reached \subseteq r.users
    /\ r.reached # {} => r.at \in {"send", "record"}
    /\ r.at = "record" => r.note \in Personal

WellFormed == \A s \in Senders : Fits(sender[s])

OwnersLog == \A s \in Senders, n \in Notes, u \in Users : Owns(s, n, u) => Logged(n, u)

OneOwner == \A s, t \in Senders, n \in Notes, u \in Users : Owns(s, n, u) /\ Owns(t, n, u) => s = t

NotYetTold == \A s \in Senders, n \in Notes, u \in Users :
                Owns(s, n, u) /\ u \notin sender[s].reached => told[n][u] = 0

ToldIsLogged == \A n \in Notes \ Personal, u \in Users : told[n][u] # 0 => Logged(n, u)

ReservedToldOnce == \A n \in Notes \ Personal, u \in Users : told[n][u] <= 1

Owned == OwnersLog /\ OneOwner /\ NotYetTold /\ ToldIsLogged /\ ReservedToldOnce

IInv == TypeOK /\ WellFormed /\ Owned

Sound == TypeOK /\ WellFormed

LEMMA NoneApart == None \notin Notes /\ None \notin Users /\ Personal \subseteq Notes
  BY PushAssumption DEF Notes

LEMMA IdleFits == Idle \in SenderRows /\ Fits(Idle)
  BY DEF Idle, SenderRows, Fits

LEMMA InitInvariant == Init => IInv
<1> SUFFICES ASSUME Init PROVE IInv
  OBVIOUS
<1>1. sender \in [Senders -> SenderRows] /\ WellFormed
  BY IdleFits DEF Init, WellFormed
<1>3. now \in 0 .. MaxTime
  BY PushAssumption DEF Init
<1>4. TypeOK
  BY <1>1, <1>3 DEF Init, TypeOK, SenderRows
<1>2. /\ \A s \in Senders, n \in Notes, u \in Users : ~ Owns(s, n, u)
      /\ \A n \in Notes, u \in Users : told[n][u] = 0
  BY DEF Init, Owns, Idle
<1> QED
  BY <1>1, <1>2, <1>4
  DEF IInv, Owned, OwnersLog, OneOwner, NotYetTold, ToldIsLogged, ReservedToldOnce

\* A dispatch goes from one sound state to another, the others staying where they are.
LEMMA Moved ==
    ASSUME TypeOK, WellFormed, NEW s \in Senders, NEW STATE r, r \in SenderRows, Fits(r), To(s, r)
    PROVE  /\ sender' \in [Senders -> SenderRows] /\ WellFormed'
           /\ sender'[s] = r /\ \A t \in Senders \ {s} : sender'[t] = sender[t]
<1>1. sender \in [Senders -> SenderRows]
  BY DEF TypeOK, SenderRows
<1>2. /\ sender' \in [Senders -> SenderRows] /\ sender'[s] = r
      /\ \A t \in Senders \ {s} : sender'[t] = sender[t]
  BY <1>1 DEF To
<1>3. WellFormed'
  BY <1>2 DEF WellFormed
<1> QED
  BY <1>2, <1>3

\* A step that sends and reserves nothing: dispatch s may lose users, but does
\* not become the owner of any.
LEMMA KeepsOwnership ==
    ASSUME IInv, NEW s \in Senders, Sound',
           UNCHANGED told, log \subseteq log',
           \A t \in Senders \ {s} : sender'[t] = sender[t],
           sender'[s].reached = sender[s].reached \/ sender'[s] = Idle,
           \A n \in Notes, u \in Users : Owns(s, n, u)' => Owns(s, n, u)
    PROVE  Owned'
<1>1. \A t \in Senders, n \in Notes, u \in Users : Owns(t, n, u)' => Owns(t, n, u)
  BY DEF Owns, At
<1>2. \A n \in Notes, u \in Users : Logged(n, u) => Logged(n, u)'
  BY DEF Logged
<1>3. \A t \in Senders, n \in Notes, u \in Users :
         Owns(t, n, u)' => sender'[t].reached = sender[t].reached
  <2>1. \A n \in Notes, u \in Users : sender'[s] = Idle => ~ Owns(s, n, u)'
    BY NoneApart DEF Owns, Idle
  <2> QED
    BY <2>1 DEF Owns
<1> QED
  BY <1>1, <1>2, <1>3 DEF Owned, IInv, OwnersLog, OneOwner, NotYetTold, ToldIsLogged, ReservedToldOnce

\* The same, of a dispatch that goes on with fewer users, where only a personal
\* one or one that has reserved them owns anything.
LEMMA GoesKeeps ==
    ASSUME IInv, NEW s \in Senders, NEW step, NEW STATE us, us \in SUBSET sender[s].users,
           ~ At(s, "idle"), Goes(s, step, us), UNCHANGED <<device, log, told, dispatched, cut, now>>,
           step \in {"lookup", "reserve", "global", "marketing"},
           step = "lookup" => sender[s].note \in Personal,
           sender[s].at \in {"filter", "global", "marketing"}
    PROVE  IInv'
<1> DEFINE r == IF us = {} THEN Idle ELSE [sender[s] EXCEPT !.at = step, !.users = us]
<1>1. sender[s] \in SenderRows /\ Fits(sender[s]) /\ sender[s].note # None
  BY DEF IInv, TypeOK, SenderRows, WellFormed, Fits, At
<1>2. sender[s].devices = {} /\ sender[s].reached = {}
  BY <1>1 DEF Fits
<1>3. us # {} => /\ r \in SenderRows /\ r.at = step /\ r.note = sender[s].note /\ r.users = us
                 /\ r.devices = {} /\ r.reached = {}
  BY <1>1, <1>2 DEF SenderRows
<1>4. r \in SenderRows /\ Fits(r)
  BY <1>1, <1>3, IdleFits DEF Fits
<1>5. To(s, r)
  BY DEF Goes
<1> HIDE DEF r
<1>6. /\ sender' \in [Senders -> SenderRows] /\ WellFormed'
      /\ sender'[s] = r /\ \A t \in Senders \ {s} : sender'[t] = sender[t]
  BY <1>4, <1>5, Moved DEF IInv
<1>7. Sound'
  BY <1>6 DEF Sound, IInv, TypeOK, SenderRows, Row
<1>8. r.reached = {} /\ (r = Idle \/ (us # {} /\ r.at = step /\ r.note = sender[s].note /\ r.users = us))
  BY <1>3 DEF r, Idle
<1>9. \A n \in Notes, u \in Users : Owns(s, n, u)' => Owns(s, n, u)
  BY <1>6, <1>8, NoneApart DEF Owns, At, Idle
<1>10. Owned'
  BY <1>2, <1>6, <1>7, <1>8, <1>9, KeepsOwnership
<1> QED
  BY <1>7, <1>10 DEF Sound, IInv

LEMMA Filtering ==
    ASSUME IInv, NEW s \in Senders, FilterDelivered(s) \/ FilterGlobal(s) \/ FilterMarketing(s)
    PROVE  IInv'
<1>1. CASE FilterDelivered(s)
  <2> DEFINE n == sender[s].note
             step == IF n \in Personal THEN "lookup" ELSE IF n \in Exempt THEN "reserve" ELSE "global"
             us == sender[s].users \ Delivered(n)
  <2>1. At(s, "filter") /\ Goes(s, step, us) /\ UNCHANGED <<device, log, told, dispatched, cut, now>>
    BY <1>1 DEF FilterDelivered
  <2>2. /\ step \in {"lookup", "reserve", "global", "marketing"}
        /\ step = "lookup" => sender[s].note \in Personal
        /\ us \in SUBSET sender[s].users
    OBVIOUS
  <2> HIDE DEF step, us, n
  <2> QED
    BY <2>1, <2>2, GoesKeeps DEF At
<1>2. CASE FilterGlobal(s)
  <2> DEFINE step == IF sender[s].note \in Marketing THEN "marketing" ELSE "reserve"
             us == Under(sender[s].users, Notes, GlobalWindow, GlobalMax)
  <2>1. At(s, "global") /\ Goes(s, step, us) /\ UNCHANGED <<device, log, told, dispatched, cut, now>>
    BY <1>2 DEF FilterGlobal
  <2>2. step \in {"reserve", "marketing"} /\ us \in SUBSET sender[s].users
    BY DEF Under
  <2> HIDE DEF step, us
  <2> QED
    BY <2>1, <2>2, GoesKeeps DEF At
<1>3. CASE FilterMarketing(s)
  <2> DEFINE us == Under(sender[s].users, Marketing, MarketingWindow, MarketingMax)
  <2>1. At(s, "marketing") /\ Goes(s, "reserve", us) /\ UNCHANGED <<device, log, told, dispatched, cut, now>>
    BY <1>3 DEF FilterMarketing
  <2>2. us \in SUBSET sender[s].users
    BY DEF Under
  <2> HIDE DEF us
  <2> QED
    BY <2>1, <2>2, GoesKeeps DEF At
<1> QED
  BY <1>1, <1>2, <1>3

\* A dispatch that begins owns nothing yet.
LEMMA Dispatching ==
    ASSUME IInv, NEW s \in Senders, NEW n \in Notes, Dispatch(s, n)
    PROVE  IInv'
<1>1. PICK us \in Audiences(n) : To(s, [Idle EXCEPT !.at = "filter", !.note = n, !.users = us])
  BY DEF Dispatch
<1> DEFINE r == [Idle EXCEPT !.at = "filter", !.note = n, !.users = us]
<1>2. us \in SUBSET Users
  BY DEF Audiences, PushEnabledUsers
<1>3. r \in SenderRows /\ Fits(r) /\ r.reached = {} /\ r.at = "filter"
  BY <1>2, NoneApart DEF Idle, SenderRows, Fits
<1>4. To(s, r)
  BY <1>1
<1> HIDE DEF r
<1>5. /\ sender' \in [Senders -> SenderRows] /\ WellFormed'
      /\ sender'[s] = r /\ \A t \in Senders \ {s} : sender'[t] = sender[t]
  BY <1>3, <1>4, Moved DEF IInv
<1>6. /\ UNCHANGED <<device, log, told, cut, now>> /\ dispatched \in [Notes -> Nat]
      /\ dispatched' = [dispatched EXCEPT ![n] = @ + 1]
  BY DEF Dispatch, IInv, TypeOK
<1>7. TypeOK'
  <2>1. dispatched' \in [Notes -> Nat]
    BY <1>6
  <2> QED
    BY <1>5, <1>6, <2>1 DEF IInv, TypeOK, SenderRows, Row
<1>8. sender[s].reached = {}
  BY DEF IInv, WellFormed, Fits, At, Dispatch
<1>9. \A m \in Notes, u \in Users : ~ Owns(s, m, u)'
  BY <1>3, <1>5 DEF Owns
<1>10. Owned'
  BY <1>3, <1>5, <1>6, <1>7, <1>8, <1>9, KeepsOwnership DEF Sound
<1> QED
  BY <1>5, <1>7, <1>10 DEF IInv

LEMMA RowsAreRows ==
    ASSUME TypeOK, WellFormed, NEW s \in Senders, ~ At(s, "idle"),
           log' = log \cup NewRows(sender[s].users, sender[s].note), UNCHANGED now
    PROVE  log' \subseteq Row
<1>1. sender[s].note \in Notes /\ sender[s].users \subseteq Users
  BY DEF TypeOK, WellFormed, Fits, At
<1> QED
  BY <1>1 DEF TypeOK, NewRows, Row

\* The rows that were not there are nobody's before, and this dispatch's after.
LEMMA Reserving ==
    ASSUME IInv, NEW s \in Senders, Reserve(s)
    PROVE  IInv'
<1>1. /\ sender[s] \in SenderRows /\ Fits(sender[s])
      /\ sender[s].note # None /\ sender[s].at = "reserve"
  BY DEF IInv, TypeOK, SenderRows, WellFormed, Fits, At, Reserve
<1>2. PICK n \in Notes : n = sender[s].note
  BY <1>1 DEF SenderRows
<1>3. PICK us \in SUBSET sender[s].users : us = Returned(sender[s].users, n)
  BY DEF Returned
<1> DEFINE r == IF us = {} THEN Idle ELSE [sender[s] EXCEPT !.at = "lookup", !.users = us]
<1>23. us \subseteq Users /\ sender[s].devices = {} /\ sender[s].reached = {}
  BY <1>1 DEF SenderRows, Fits
<1>4. us # {} => /\ r \in SenderRows /\ r.at = "lookup" /\ r.note = n /\ r.users = us
                 /\ r.devices = {} /\ r.reached = {}
  BY <1>1, <1>2, <1>23 DEF SenderRows
<1>5. r \in SenderRows /\ Fits(r)
  BY <1>1, <1>4, IdleFits DEF Fits
<1>6. To(s, r)
  BY <1>2, <1>3 DEF Reserve, Goes
<1>7. r.reached = {} /\ (r = Idle \/ (r.at = "lookup" /\ r.note = n /\ r.users = us))
  BY <1>4 DEF Idle
<1> HIDE DEF r
<1>8. /\ sender' \in [Senders -> SenderRows] /\ WellFormed'
      /\ sender'[s] = r /\ \A t \in Senders \ {s} : sender'[t] = sender[t]
  BY <1>5, <1>6, Moved DEF IInv
<1>9. /\ UNCHANGED <<device, told, dispatched, cut, now>>
      /\ log' = log \cup NewRows(sender[s].users, n)
  BY <1>2 DEF Reserve
<1>10. TypeOK'
  BY <1>8, <1>9, RowsAreRows DEF IInv, TypeOK, SenderRows, Row, Reserve, At
<1>11. \A m \in Notes, u \in Users : Logged(m, u) => Logged(m, u)'
  BY <1>9 DEF Logged
<1>12. \A u \in us : Logged(n, u)' /\ ~ Logged(n, u)
  <2> TAKE u \in us
  <2>1. u \in sender[s].users \ Delivered(n)
    BY <1>3 DEF Returned
  <2>2. ~ Logged(n, u)
    BY <2>1 DEF Delivered, Logged
  <2>5. PICK q \in NewRows(sender[s].users, n) : q.note = n /\ q.user = u
    <3>1. [user |-> u, note |-> n, sentAt |-> now] \in NewRows(sender[s].users, n)
      BY <2>1 DEF NewRows
    <3> QED
      BY <3>1
  <2> QED
    BY <1>9, <2>2, <2>5 DEF Logged
<1>13. \A t \in Senders \ {s}, m \in Notes, u \in Users : Owns(t, m, u)' <=> Owns(t, m, u)
  BY <1>8 DEF Owns, At
<1>14. \A m \in Notes, u \in Users : Owns(s, m, u)' => m = n /\ n \notin Personal /\ u \in us
  BY <1>7, <1>8, NoneApart DEF Owns, At, Idle
<1>16. \A u \in us : Logged(n, u)'
  BY <1>12 DEF IInv, Owned, OwnersLog
<1>17. \A t \in Senders \ {s}, u \in us : ~ Owns(t, n, u)
  BY <1>23, <1>12 DEF IInv, Owned, OwnersLog
<1>18. \A u \in us : n \notin Personal => told[n][u] = 0
  BY <1>23, <1>12 DEF IInv, TypeOK, Owned, ToldIsLogged
<1>19. OwnersLog'
  BY <1>11, <1>13, <1>14, <1>16 DEF IInv, Owned, OwnersLog
<1>20. OneOwner'
  BY <1>13, <1>14, <1>17 DEF IInv, Owned, OneOwner
<1>21. NotYetTold'
  BY <1>8, <1>9, <1>13, <1>14, <1>18 DEF IInv, Owned, NotYetTold
<1>22. ToldIsLogged' /\ ReservedToldOnce'
  BY <1>9, <1>11 DEF IInv, Owned, ToldIsLogged, ReservedToldOnce
<1> QED
  BY <1>8, <1>10, <1>19, <1>20, <1>21, <1>22 DEF IInv, Owned

LEMMA LookingUp ==
    ASSUME IInv, NEW s \in Senders, LookUp(s)
    PROVE  IInv'
<1>1. /\ sender[s] \in SenderRows /\ Fits(sender[s]) /\ sender[s].at = "lookup"
      /\ UNCHANGED <<device, log, dispatched, told, cut, now>>
  BY DEF IInv, TypeOK, SenderRows, WellFormed, At, LookUp
<1>2. PICK ds \in SUBSET (sender[s].users \X Devices) :
        To(s, IF ds = {} THEN Idle ELSE [sender[s] EXCEPT !.at = "send", !.devices = ds])
  BY DEF LookUp, Enabled
<1> DEFINE r == IF ds = {} THEN Idle ELSE [sender[s] EXCEPT !.at = "send", !.devices = ds]
<1>3. sender[s].reached = {} /\ sender[s].note # None
  BY <1>1 DEF Fits
<1>4. /\ sender[s].users \subseteq Users /\ ds \subseteq Users \X Devices
      /\ \A x \in ds : x[1] \in sender[s].users
  BY <1>1 DEF SenderRows
<1>5. ds # {} => /\ r \in SenderRows /\ r.at = "send" /\ r.note = sender[s].note
                 /\ r.users = sender[s].users /\ r.devices = ds /\ r.reached = {}
  BY <1>1, <1>3, <1>4 DEF SenderRows
<1>6. r \in SenderRows /\ Fits(r)
  BY <1>3, <1>4, <1>5, IdleFits DEF Fits
<1>7. r.reached = {} /\ (r = Idle \/ (r.at = "send" /\ r.note = sender[s].note /\ r.users = sender[s].users))
  BY <1>5 DEF Idle
<1>8. To(s, r)
  BY <1>2
<1> HIDE DEF r
<1>9. /\ sender' \in [Senders -> SenderRows] /\ WellFormed'
      /\ sender'[s] = r /\ \A t \in Senders \ {s} : sender'[t] = sender[t]
  BY <1>6, <1>8, Moved DEF IInv
<1>10. Sound'
  BY <1>1, <1>9 DEF Sound, IInv, TypeOK, SenderRows, Row
<1>11. \A n \in Notes, u \in Users : Owns(s, n, u)' => Owns(s, n, u)
  BY <1>1, <1>7, <1>9, NoneApart DEF Owns, At, Idle
<1>12. Owned'
  BY <1>1, <1>3, <1>7, <1>9, <1>10, <1>11, KeepsOwnership
<1> QED
  BY <1>10, <1>12 DEF Sound, IInv

\* Where a dispatch goes after a device: on, to its record, or to its end.
LEMMA AfterDevice ==
    ASSUME IInv, NEW s \in Senders, NEW STATE ds, ds \in SUBSET sender[s].devices,
           NEW STATE reached, reached \in SUBSET sender[s].users,
           At(s, "send"), After(s, ds, reached)
    PROVE  /\ sender' \in [Senders -> SenderRows] /\ WellFormed'
           /\ \A t \in Senders \ {s} : sender'[t] = sender[t]
           /\ \A n \in Notes, u \in Users :
                Owns(s, n, u)' => Owns(s, n, u) /\ sender'[s].reached = reached
<1> DEFINE n == sender[s].note
           r == IF ds # {} THEN [sender[s] EXCEPT !.devices = ds, !.reached = reached]
                ELSE IF n \in Personal /\ reached # {}
                THEN [sender[s] EXCEPT !.at = "record", !.devices = {}, !.reached = reached]
                ELSE Idle
<1>1. sender[s] \in SenderRows /\ Fits(sender[s]) /\ n # None /\ sender[s].at = "send"
  BY DEF IInv, TypeOK, SenderRows, WellFormed, Fits, At
<1>2. To(s, r)
  BY DEF After
<1>3. \/ r = Idle
      \/ /\ r \in SenderRows /\ r.note = n /\ r.users = sender[s].users /\ r.reached = reached
         /\ \/ r.at = "send" /\ r.devices = ds
            \/ r.at = "record" /\ r.devices = {} /\ n \in Personal
  BY <1>1 DEF SenderRows
<1>4. r \in SenderRows /\ Fits(r)
  BY <1>1, <1>3, IdleFits DEF Fits
<1> HIDE DEF r
<1>5. /\ sender' \in [Senders -> SenderRows] /\ WellFormed'
      /\ sender'[s] = r /\ \A t \in Senders \ {s} : sender'[t] = sender[t]
  BY <1>2, <1>4, Moved DEF IInv
<1>6. \A m \in Notes, u \in Users : Owns(s, m, u)' => Owns(s, m, u) /\ sender'[s].reached = reached
  BY <1>1, <1>3, <1>5, NoneApart DEF Owns, At, Idle
<1> QED
  BY <1>5, <1>6

\* A dispatch sends to those it owns alone, and to nobody who was told before.
LEMMA Sending ==
    ASSUME IInv, NEW s \in Senders, NEW u \in Users, NEW d \in Devices, SendToDevice(s, u, d)
    PROVE  IInv'
<1>1. PICK n \in Notes : n = sender[s].note
  BY DEF IInv, TypeOK, WellFormed, Fits, At, SendToDevice
<1>2. /\ At(s, "send") /\ u \in sender[s].users /\ UNCHANGED <<log, dispatched, cut, now>>
  BY DEF IInv, WellFormed, Fits, SendToDevice
<1>3. PICK ds \in SUBSET sender[s].devices : ds = sender[s].devices \ {<<u, d>>}
  OBVIOUS
<1>4. sender[s].reached \subseteq sender[s].users /\ sender[s].users \subseteq Users
  BY DEF IInv, TypeOK, WellFormed, Fits
<1>5. n # None /\ (n \notin Personal => Owns(s, n, u))
  BY <1>1, <1>2, NoneApart DEF Owns, At
<1>6. n \notin Personal => Logged(n, u) /\ \A t \in Senders \ {s} : ~ Owns(t, n, u)
  BY <1>5 DEF IInv, Owned, OwnersLog, OneOwner
<1>7. \A m \in Notes, v \in Users : Logged(m, v)' <=> Logged(m, v)
  BY <1>2 DEF Logged
<1>8. ASSUME NEW STATE reached, reached \in {sender[s].reached, sender[s].reached \cup {u}},
             After(s, ds, reached)
      PROVE  /\ sender' \in [Senders -> SenderRows] /\ WellFormed'
             /\ OwnersLog' /\ OneOwner'
             /\ \A t \in Senders, m \in Notes, v \in Users : Owns(t, m, v)' =>
                  /\ Owns(t, m, v)
                  /\ sender'[t].reached = IF t = s THEN reached ELSE sender[t].reached
  <2>1. reached \in SUBSET sender[s].users
    BY <1>2, <1>4, <1>8
  <2>2. /\ sender' \in [Senders -> SenderRows] /\ WellFormed'
        /\ \A t \in Senders \ {s} : sender'[t] = sender[t]
        /\ \A m \in Notes, v \in Users : Owns(s, m, v)' => Owns(s, m, v) /\ sender'[s].reached = reached
    BY <1>2, <1>8, <2>1, AfterDevice
  <2>3. \A t \in Senders, m \in Notes, v \in Users : Owns(t, m, v)' =>
          /\ Owns(t, m, v)
          /\ sender'[t].reached = IF t = s THEN reached ELSE sender[t].reached
    BY <2>2 DEF Owns, At
  <2> QED
    BY <1>7, <2>2, <2>3 DEF IInv, Owned, OwnersLog, OneOwner
<1>9. CASE /\ told' = [told EXCEPT ![n][u] = IF u \in sender[s].reached THEN @ ELSE @ + 1]
           /\ After(s, ds, sender[s].reached \cup {u})
           /\ UNCHANGED device
  <2> DEFINE reached == sender[s].reached \cup {u}
  <2>1. /\ told[n][u] \in Nat
        /\ n \notin Personal => told[n][u] <= 1 /\ (u \notin sender[s].reached => told[n][u] = 0)
    BY <1>5 DEF IInv, TypeOK, Owned, NotYetTold, ReservedToldOnce
  <2>2. /\ told' \in [Notes -> [Users -> Nat]] /\ (n \notin Personal => told'[n][u] <= 1)
        /\ \A m \in Notes, v \in Users : m # n \/ v # u => told'[m][v] = told[m][v]
    BY <1>9, <2>1 DEF IInv, TypeOK
  <2>3. reached \in {sender[s].reached, sender[s].reached \cup {u}} /\ After(s, ds, reached)
    BY <1>9
  <2>4. /\ sender' \in [Senders -> SenderRows] /\ WellFormed'
        /\ OwnersLog' /\ OneOwner'
        /\ \A t \in Senders, m \in Notes, v \in Users : Owns(t, m, v)' =>
             /\ Owns(t, m, v)
             /\ sender'[t].reached = IF t = s THEN reached ELSE sender[t].reached
    BY <1>8, <2>3
  <2>5. TypeOK'
    BY <1>2, <1>9, <2>2, <2>4 DEF IInv, TypeOK, SenderRows, Row
  <2>6. NotYetTold'
    BY <1>6, <2>2, <2>4 DEF IInv, Owned, NotYetTold, Owns
  <2>7. ToldIsLogged' /\ ReservedToldOnce'
    BY <1>6, <1>7, <2>2 DEF IInv, Owned, ToldIsLogged, ReservedToldOnce
  <2> QED
    BY <2>4, <2>5, <2>6, <2>7 DEF IInv, Owned
<1>10. CASE After(s, ds, sender[s].reached) /\ UNCHANGED told /\ device' \in {device, Disabled(d)}
  <2> DEFINE reached == sender[s].reached
  <2>1. /\ sender' \in [Senders -> SenderRows] /\ WellFormed'
        /\ OwnersLog' /\ OneOwner'
        /\ \A t \in Senders, m \in Notes, v \in Users : Owns(t, m, v)' =>
             /\ Owns(t, m, v)
             /\ sender'[t].reached = IF t = s THEN reached ELSE sender[t].reached
    BY <1>8, <1>10
  <2>2. device' \in [Devices -> [user : Users \cup {None}, enabled : BOOLEAN]]
    <3>1. device \in [Devices -> [user : Users \cup {None}, enabled : BOOLEAN]]
      BY DEF IInv, TypeOK
    <3>2. [device[d] EXCEPT !.enabled = FALSE] \in [user : Users \cup {None}, enabled : BOOLEAN]
      BY <3>1
    <3>3. Disabled(d) \in [Devices -> [user : Users \cup {None}, enabled : BOOLEAN]]
      BY <3>1, <3>2 DEF Disabled
    <3> QED
      BY <1>10, <3>1, <3>3
  <2>3. TypeOK'
    BY <1>2, <1>10, <2>1, <2>2 DEF IInv, TypeOK, SenderRows, Row
  <2>4. NotYetTold' /\ ToldIsLogged' /\ ReservedToldOnce'
    BY <1>7, <1>10, <2>1 DEF IInv, Owned, NotYetTold, ToldIsLogged, ReservedToldOnce
  <2> QED
    BY <2>1, <2>3, <2>4 DEF IInv, Owned
<1> QED
  BY <1>1, <1>3, <1>9, <1>10 DEF SendToDevice

LEMMA Recording ==
    ASSUME IInv, NEW s \in Senders, RecordSuccessfulPush(s)
    PROVE  IInv'
<1>1. /\ To(s, Idle) /\ UNCHANGED <<device, told, dispatched, cut, now>> /\ ~ At(s, "idle")
      /\ log' = log \cup NewRows(sender[s].users, sender[s].note)
  BY DEF RecordSuccessfulPush, At
<1>2. /\ sender' \in [Senders -> SenderRows] /\ WellFormed'
      /\ sender'[s] = Idle /\ \A t \in Senders \ {s} : sender'[t] = sender[t]
  BY <1>1, IdleFits, Moved DEF IInv
<1>3. Sound'
  BY <1>1, <1>2, RowsAreRows DEF Sound, IInv, TypeOK, SenderRows, Row
<1>4. \A n \in Notes, u \in Users : ~ Owns(s, n, u)'
  BY <1>2, NoneApart DEF Owns, Idle
<1>5. Owned'
  BY <1>1, <1>2, <1>3, <1>4, KeepsOwnership
<1> QED
  BY <1>3, <1>5 DEF Sound, IInv

LEMMA Cutting ==
    ASSUME IInv, NEW s \in Senders, Cut(s)
    PROVE  IInv'
<1>1. To(s, Idle) /\ UNCHANGED <<device, log, told, dispatched, now>> /\ cut' = TRUE
  BY DEF Cut
<1>2. /\ sender' \in [Senders -> SenderRows] /\ WellFormed'
      /\ sender'[s] = Idle /\ \A t \in Senders \ {s} : sender'[t] = sender[t]
  BY <1>1, IdleFits, Moved DEF IInv
<1>3. Sound'
  BY <1>1, <1>2 DEF Sound, IInv, TypeOK, SenderRows, Row
<1>4. \A n \in Notes, u \in Users : ~ Owns(s, n, u)'
  BY <1>2, NoneApart DEF Owns, Idle
<1>5. Owned'
  BY <1>1, <1>2, <1>3, <1>4, KeepsOwnership
<1> QED
  BY <1>3, <1>5 DEF Sound, IInv

\* What is neither a dispatch nor its log leaves the invariant alone.
LEMMA Aside ==
    ASSUME IInv, TypeOK', UNCHANGED <<log, sender, dispatched, told>>
    PROVE  IInv'
BY DEF IInv, WellFormed, Fits, Owned, OwnersLog, OneOwner, NotYetTold, ToldIsLogged, ReservedToldOnce,
   Owns, Logged, At

LEMMA NextInvariant == IInv /\ [Next]_vars => IInv'
<1> SUFFICES ASSUME IInv, [Next]_vars
             PROVE  IInv'
  OBVIOUS
<1>1. ASSUME NEW d \in Devices, NEW u \in Users, RegisterDevice(d, u) \/ UnregisterDevice(d, u)
      PROVE  IInv'
  <2> DEFINE DeviceRows == [user : Users \cup {None}, enabled : BOOLEAN]
  <2>1. device \in [Devices -> DeviceRows]
    BY DEF IInv, TypeOK
  <2>2. RegisterDevice(d, u) => device' \in [Devices -> DeviceRows]
    <3>1. [user |-> u, enabled |-> TRUE] \in DeviceRows
      OBVIOUS
    <3> QED
      BY <2>1, <3>1 DEF RegisterDevice
  <2>3. UnregisterDevice(d, u) => device' \in [Devices -> DeviceRows]
    <3>1. [device[d] EXCEPT !.enabled = FALSE] \in DeviceRows
      BY <2>1
    <3> QED
      BY <2>1, <3>1 DEF UnregisterDevice
  <2>4. device' \in [Devices -> DeviceRows] /\ UNCHANGED <<log, sender, dispatched, told, cut, now>>
    BY <1>1, <2>2, <2>3 DEF RegisterDevice, UnregisterDevice
  <2> QED
    BY <2>4, Aside DEF IInv, TypeOK, Row
<1>2. ASSUME NEW s \in Senders, NEW n \in Notes, Dispatch(s, n)
      PROVE  IInv'
  BY <1>2, Dispatching
<1>3. ASSUME NEW s \in Senders, FilterDelivered(s) \/ FilterGlobal(s) \/ FilterMarketing(s)
      PROVE  IInv'
  BY <1>3, Filtering
<1>4. ASSUME NEW s \in Senders, Reserve(s) \/ LookUp(s) \/ RecordSuccessfulPush(s)
      PROVE  IInv'
  BY <1>4, Reserving, LookingUp, Recording
<1>5. ASSUME NEW s \in Senders, NEW u \in Users, NEW d \in Devices, SendToDevice(s, u, d)
      PROVE  IInv'
  BY <1>5, Sending
<1>6. ASSUME NEW s \in Senders, Cut(s) PROVE IInv'
  BY <1>6, Cutting
<1>7. CASE Tick
  <2>1. now' \in 0 .. MaxTime /\ UNCHANGED <<device, log, sender, dispatched, told, cut>>
    BY <1>7, PushAssumption DEF Tick, IInv, TypeOK
  <2> QED
    BY <2>1, Aside DEF IInv, TypeOK, Row
<1>8. CASE UNCHANGED vars
  BY <1>8, Aside DEF vars, IInv, TypeOK, Row
<1> QED
  BY <1>1, <1>2, <1>3, <1>4, <1>5, <1>6, <1>7, <1>8 DEF Next

\* Every state of a run is well typed, and every message has one owner
\* (notifications.service.ts:349-375, push-delivery-guard.service.ts).
THEOREM Invariant == Spec => []IInv
<1>1. IInv /\ [Next]_vars => IInv'
  BY NextInvariant
<1> QED
  BY <1>1, InitInvariant, PTL DEF Spec

\* The log, the devices and the dispatches have their types.
THEOREM WellTyped == Spec => []TypeOK
<1>1. IInv => TypeOK
  BY DEF IInv
<1> QED
  BY <1>1, Invariant, PTL

-----------------------------------------------------------------------------
(* Personal notifications.  Until one is logged, each dispatch that reached *)
(* the user is still there to log it; from then on only dispatches that had *)
(* found no row can reach the user, and these are fewer than there are      *)
(* senders by those that had reached the user already.                      *)

\* Dispatches that reached u with n, and have not ended.
Holding(n, u) == {s \in Senders : sender[s].note = n /\ u \in sender[s].reached}

\* Dispatches that may reach u with n yet.
Bound(n, u) ==
    {s \in Senders : /\ sender[s].note = n /\ sender[s].at \in {"lookup", "send"}
                     /\ u \in sender[s].users /\ u \notin sender[s].reached}

Counted(n, u) ==
    IF Logged(n, u) THEN told[n][u] + Cardinality(Bound(n, u)) <= Cardinality(Senders)
                    ELSE told[n][u] <= Cardinality(Holding(n, u))

CountedAll == ~ cut => \A n \in Personal, u \in Users : Counted(n, u)

LEMMA Parts ==
    ASSUME NEW n, NEW u
    PROVE  /\ IsFiniteSet(Bound(n, u)) /\ IsFiniteSet(Holding(n, u)) /\ IsFiniteSet(Senders)
           /\ Bound(n, u) \subseteq Senders \ Holding(n, u) /\ Holding(n, u) \subseteq Senders
<1>1. Bound(n, u) \subseteq Senders \ Holding(n, u) /\ Holding(n, u) \subseteq Senders
  BY DEF Bound, Holding
<1> QED
  BY <1>1, FS_Subset, PushAssumption

LEMMA PartsLater ==
    ASSUME NEW n, NEW u
    PROVE  /\ IsFiniteSet(Bound(n, u)') /\ IsFiniteSet(Holding(n, u)')
           /\ Bound(n, u)' \subseteq Senders /\ Holding(n, u)' \subseteq Senders
<1>1. Bound(n, u)' \subseteq Senders /\ Holding(n, u)' \subseteq Senders
  BY DEF Bound, Holding
<1> QED
  BY <1>1, FS_Subset, PushAssumption

\* What a step may do to a user and a notification: nothing; log that the user
\* has it; or tell the user.
Quiet(n, u) ==
    /\ told'[n][u] = told[n][u]
    /\ \/ Logged(n, u) /\ Logged(n, u)' /\ Bound(n, u)' \subseteq Bound(n, u)
       \/ ~ Logged(n, u) /\ ~ Logged(n, u)' /\ Holding(n, u) \subseteq Holding(n, u)'
       \/ ~ Logged(n, u) /\ Logged(n, u)' /\ Bound(n, u)' \cap Holding(n, u) = {}

Tells(s, n, u) ==
    /\ told'[n][u] = told[n][u] + 1
    /\ \/ /\ Logged(n, u) /\ Logged(n, u)'
          /\ s \in Bound(n, u) /\ Bound(n, u)' \subseteq Bound(n, u) \ {s}
       \/ /\ ~ Logged(n, u) /\ ~ Logged(n, u)'
          /\ s \notin Holding(n, u) /\ Holding(n, u) \cup {s} \subseteq Holding(n, u)'

LEMMA Counting ==
    ASSUME NEW n, NEW u, told[n][u] \in Nat, Counted(n, u),
           Quiet(n, u) \/ \E s \in Senders : Tells(s, n, u)
    PROVE  Counted(n, u)'
<1> DEFINE B == Bound(n, u)
           H == Holding(n, u)
           C == Bound(n, u)'
           I == Holding(n, u)'
           k == told[n][u]
           l == told'[n][u]
<1>1. /\ IsFiniteSet(B) /\ IsFiniteSet(H) /\ IsFiniteSet(Senders)
      /\ B \subseteq Senders \ H /\ H \subseteq Senders
      /\ IsFiniteSet(C) /\ IsFiniteSet(I) /\ C \subseteq Senders /\ I \subseteq Senders
  BY Parts, PartsLater
<1>2. IF Logged(n, u) THEN k + Cardinality(B) <= Cardinality(Senders) ELSE k <= Cardinality(H)
  BY DEF Counted
<1>3. SUFFICES IF Logged(n, u)' THEN l + Cardinality(C) <= Cardinality(Senders)
                                ELSE l <= Cardinality(I)
  BY DEF Counted
<1>4. k \in Nat
  OBVIOUS
<1>5. \/ /\ l = k
         /\ \/ Logged(n, u) /\ Logged(n, u)' /\ C \subseteq B
            \/ ~ Logged(n, u) /\ ~ Logged(n, u)' /\ H \subseteq I
            \/ ~ Logged(n, u) /\ Logged(n, u)' /\ C \cap H = {}
      \/ /\ l = k + 1
         /\ \E s \in Senders :
              \/ Logged(n, u) /\ Logged(n, u)' /\ s \in B /\ C \subseteq B \ {s}
              \/ ~ Logged(n, u) /\ ~ Logged(n, u)' /\ s \notin H /\ H \cup {s} \subseteq I
  BY DEF Quiet, Tells
<1> HIDE DEF B, H, C, I, k, l
<1>6. /\ Cardinality(B) \in Nat /\ Cardinality(H) \in Nat /\ Cardinality(Senders) \in Nat
      /\ Cardinality(C) \in Nat /\ Cardinality(I) \in Nat
  BY <1>1, FS_CardinalityType
<1>7. CASE l = k /\ Logged(n, u) /\ Logged(n, u)' /\ C \subseteq B
  <2>1. Cardinality(C) <= Cardinality(B)
    BY <1>1, <1>7, FS_Subset
  <2> QED
    BY <1>2, <1>4, <1>6, <1>7, <2>1
<1>8. CASE l = k /\ ~ Logged(n, u) /\ ~ Logged(n, u)' /\ H \subseteq I
  <2>1. Cardinality(H) <= Cardinality(I)
    BY <1>1, <1>8, FS_Subset
  <2> QED
    BY <1>2, <1>4, <1>6, <1>8, <2>1
<1>9. CASE l = k /\ ~ Logged(n, u) /\ Logged(n, u)' /\ C \cap H = {}
  <2>1. IsFiniteSet(C \cup H) /\ Cardinality(C \cup H) = Cardinality(C) + Cardinality(H) - Cardinality(C \cap H)
    BY <1>1, FS_Union
  <2>2. Cardinality(C \cap H) = 0
    BY <1>9, FS_EmptySet
  <2>3. Cardinality(C \cup H) <= Cardinality(Senders)
    BY <1>1, FS_Subset
  <2> QED
    BY <1>2, <1>4, <1>6, <1>9, <2>1, <2>2, <2>3
<1>10. ASSUME NEW s \in Senders, l = k + 1, Logged(n, u), Logged(n, u)', s \in B, C \subseteq B \ {s}
       PROVE  l + Cardinality(C) <= Cardinality(Senders)
  <2>1. IsFiniteSet(B \ {s}) /\ Cardinality(B \ {s}) = Cardinality(B) - 1
    BY <1>1, <1>10, FS_RemoveElement
  <2>2. Cardinality(C) <= Cardinality(B \ {s})
    BY <1>10, <2>1, FS_Subset
  <2> QED
    BY <1>2, <1>4, <1>6, <1>10, <2>1, <2>2
<1>11. ASSUME NEW s \in Senders, l = k + 1, ~ Logged(n, u), ~ Logged(n, u)',
              s \notin H, H \cup {s} \subseteq I
       PROVE  l <= Cardinality(I)
  <2>1. Cardinality(H \cup {s}) = Cardinality(H) + 1
    BY <1>1, <1>11, FS_AddElement
  <2>2. Cardinality(H \cup {s}) <= Cardinality(I)
    BY <1>1, <1>11, FS_Subset
  <2> QED
    BY <1>2, <1>4, <1>6, <1>11, <2>1, <2>2
<1> QED
  BY <1>5, <1>7, <1>8, <1>9, <1>10, <1>11

\* Dispatches but s stay where they are, and s neither reached u nor may.
LEMMA QuietMove ==
    ASSUME NEW s \in Senders, \A t \in Senders \ {s} : sender'[t] = sender[t],
           NEW n, NEW u, told'[n][u] = told[n][u], log \subseteq log',
           Logged(n, u) => (s \in Bound(n, u)' => s \in Bound(n, u)),
           ~ Logged(n, u)' => (s \in Holding(n, u) => s \in Holding(n, u)'),
           ~ Logged(n, u) /\ Logged(n, u)' => (s \in Bound(n, u)' => s \notin Holding(n, u))
    PROVE  Quiet(n, u)
<1>1. Logged(n, u) => Logged(n, u)'
  BY DEF Logged
<1>2. ASSUME NEW t \in Senders \ {s}
      PROVE  /\ t \in Bound(n, u)' <=> t \in Bound(n, u)
             /\ t \in Holding(n, u)' <=> t \in Holding(n, u)
  BY DEF Bound, Holding
<1>3. Bound(n, u)' \subseteq Senders /\ Holding(n, u) \subseteq Senders
  BY DEF Bound, Holding
<1>4. Bound(n, u) \cap Holding(n, u) = {}
  BY DEF Bound, Holding
<1> QED
  BY <1>1, <1>2, <1>3, <1>4 DEF Quiet

LEMMA GoesTo ==
    ASSUME TypeOK, NEW s \in Senders, NEW step, NEW us, Goes(s, step, us)
    PROVE  /\ \A t \in Senders \ {s} : sender'[t] = sender[t]
           /\ \/ sender'[s] = Idle
              \/ sender'[s].at = step /\ sender'[s].note = sender[s].note /\ sender'[s].users = us
  BY DEF TypeOK, Goes, To

\* Up to the sending, a dispatch has reached nobody.
LEMMA QuietBefore ==
    ASSUME IInv, NEW s \in Senders, NEW n \in Notes, NEW u \in Users,
           \/ \E m \in Notes : Dispatch(s, m)
           \/ FilterDelivered(s) \/ FilterGlobal(s) \/ FilterMarketing(s)
           \/ Reserve(s) \/ LookUp(s)
    PROVE  Quiet(n, u)
<1>1. TypeOK /\ told' = told /\ sender[s].reached = {} /\ s \notin Holding(n, u)
  BY DEF IInv, WellFormed, Fits, At, Holding, Dispatch, FilterDelivered, FilterGlobal, FilterMarketing,
         Reserve, LookUp
<1>2. log \subseteq log' /\ \A t \in Senders \ {s} : sender'[t] = sender[t]
  BY <1>1 DEF TypeOK, To, Goes, Dispatch, FilterDelivered, FilterGlobal, FilterMarketing, Reserve, LookUp
<1>3. ASSUME Logged(n, u), s \in Bound(n, u)' PROVE s \in Bound(n, u)
  <2>1. u \in Delivered(n)
    BY <1>3 DEF Logged, Delivered
  <2>2. /\ sender'[s].note = n /\ sender'[s].at \in {"lookup", "send"}
        /\ u \in sender'[s].users
    BY <1>3 DEF Bound
  <2>3. CASE \E m \in Notes : Dispatch(s, m)
    <3>1. PICK m, us : To(s, [Idle EXCEPT !.at = "filter", !.note = m, !.users = us])
      BY <2>3 DEF Dispatch
    <3>2. sender'[s].at = "filter"
      BY <1>1, <3>1 DEF To, TypeOK, Idle
    <3> QED
      BY <2>2, <3>2
  <2>4. CASE FilterDelivered(s)
    <3> DEFINE us == sender[s].users \ Delivered(sender[s].note)
    <3>1. PICK step : Goes(s, step, us)
      BY <2>4 DEF FilterDelivered
    <3>2. u \in us => sender[s].note # n
      BY <2>1
    <3> HIDE DEF us
    <3>3. \/ sender'[s] = Idle
          \/ sender'[s].note = sender[s].note /\ sender'[s].users = us
      BY <1>1, <3>1, GoesTo
    <3> QED
      BY <2>2, <3>2, <3>3 DEF Idle
  <2>5. CASE FilterGlobal(s) \/ FilterMarketing(s)
    <3>1. PICK step, us : step \in {"marketing", "reserve"} /\ Goes(s, step, us)
      BY <2>5 DEF FilterGlobal, FilterMarketing
    <3> QED
      BY <1>1, <2>2, <3>1, GoesTo DEF Idle
  <2>6. CASE Reserve(s)
    <3>1. Goes(s, "lookup", sender[s].users \ Delivered(sender[s].note))
      BY <2>6 DEF Reserve, Returned
    <3> QED
      BY <1>1, <2>1, <2>2, <3>1, GoesTo DEF Idle
  <2>7. CASE LookUp(s)
    <3>1. /\ sender[s].at = "lookup"
          /\ \/ sender'[s] = Idle
             \/ sender'[s].note = sender[s].note /\ sender'[s].users = sender[s].users
      BY <1>1, <2>7 DEF LookUp, At, To, TypeOK
    <3> QED
      BY <1>1, <2>2, <3>1 DEF Idle, Bound
  <2> QED
    BY <2>3, <2>4, <2>5, <2>6, <2>7
<1> QED
  BY <1>1, <1>2, <1>3, QuietMove

\* The user of a personal dispatch is logged with the record, if it reached the user.
LEMMA QuietRecord ==
    ASSUME IInv, NEW s \in Senders, NEW n \in Notes, NEW u \in Users, RecordSuccessfulPush(s)
    PROVE  Quiet(n, u)
<1>1. /\ TypeOK /\ told' = told /\ To(s, Idle) /\ sender[s].reached \subseteq sender[s].users
      /\ log' = log \cup NewRows(sender[s].users, sender[s].note)
  BY DEF IInv, WellFormed, Fits, RecordSuccessfulPush
<1>2. sender'[s] = Idle /\ \A t \in Senders \ {s} : sender'[t] = sender[t]
  BY <1>1 DEF TypeOK, To
<1>3. s \notin Bound(n, u)'
  BY <1>2 DEF Bound, Idle
<1>4. s \in Holding(n, u) => Logged(n, u)'
  <2> SUFFICES ASSUME s \in Holding(n, u), ~ Logged(n, u) PROVE Logged(n, u)'
    BY <1>1 DEF Logged
  <2>1. sender[s].note = n /\ u \in sender[s].users \ Delivered(n)
    BY <1>1 DEF Holding, Delivered, Logged
  <2>2. [user |-> u, note |-> n, sentAt |-> now] \in log'
    BY <1>1, <2>1 DEF NewRows
  <2>3. /\ [user |-> u, note |-> n, sentAt |-> now].user = u
        /\ [user |-> u, note |-> n, sentAt |-> now].note = n
    OBVIOUS
  <2> QED
    BY <2>2, <2>3 DEF Logged
<1> QED
  BY <1>1, <1>2, <1>3, <1>4, QuietMove

\* A message reaches a user who was not reached by this dispatch yet, or nobody
\* new; a personal dispatch that reached somebody does not end unrecorded.
LEMMA Telling ==
    ASSUME IInv, NEW s \in Senders, NEW v \in Users, NEW d \in Devices, SendToDevice(s, v, d),
           NEW n \in Personal, NEW u \in Users
    PROVE  Quiet(n, u) \/ Tells(s, n, u)
<1>1. /\ TypeOK /\ sender[s].at = "send" /\ v \in sender[s].users /\ log' = log
      /\ n \in Notes /\ n # None /\ sender[s].reached \subseteq sender[s].users
      /\ sender[s].note \in Notes
  BY NoneApart DEF IInv, TypeOK, WellFormed, Fits, SendToDevice, At
<1>2. ASSUME NEW reached, NEW ds, After(s, ds, reached)
      PROVE  /\ \A t \in Senders \ {s} : sender'[t] = sender[t]
             /\ \/ /\ sender'[s].note = sender[s].note /\ sender'[s].users = sender[s].users
                   /\ sender'[s].reached = reached
                \/ sender'[s] = Idle /\ ~ (sender[s].note \in Personal /\ reached # {})
  BY <1>1, <1>2 DEF After, To, TypeOK
<1>3. Logged(n, u)' <=> Logged(n, u)
  BY <1>1 DEF Logged
<1>4. ASSUME NEW ds, After(s, ds, sender[s].reached), told' = told
      PROVE  Quiet(n, u)
  <2>1. s \in Bound(n, u)' => s \in Bound(n, u)
    BY <1>1, <1>2, <1>4 DEF Bound, Idle
  <2>2. s \in Holding(n, u) => s \in Holding(n, u)'
    BY <1>2, <1>4 DEF Holding
  <2> QED
    BY <1>1, <1>2, <1>3, <1>4, <2>1, <2>2, QuietMove
<1>5. ASSUME NEW ds, After(s, ds, sender[s].reached \cup {v}),
             told' = [told EXCEPT ![sender[s].note][v] = IF v \in sender[s].reached THEN @ ELSE @ + 1]
      PROVE  Quiet(n, u) \/ Tells(s, n, u)
  <2>1. s \in Bound(n, u)' => s \in Bound(n, u)
    BY <1>1, <1>2, <1>5 DEF Bound, Idle
  <2>2. s \in Holding(n, u) => s \in Holding(n, u)'
    BY <1>2, <1>5 DEF Holding
  <2>3. CASE ~ (sender[s].note = n /\ v = u /\ v \notin sender[s].reached)
    <3>1. told'[n][u] = told[n][u]
      BY <1>1, <1>5, <2>3 DEF TypeOK
    <3> QED
      BY <1>1, <1>2, <1>3, <1>5, <2>1, <2>2, <3>1, QuietMove
  <2>4. CASE sender[s].note = n /\ v = u /\ v \notin sender[s].reached
    <3>1. told'[n][u] = told[n][u] + 1
      BY <1>1, <1>5, <2>4 DEF TypeOK
    <3>2. /\ sender'[s].note = n /\ u \in sender'[s].reached
          /\ \A t \in Senders \ {s} : sender'[t] = sender[t]
      BY <1>2, <1>5, <2>4
    <3>3. s \in Bound(n, u) /\ Bound(n, u)' \subseteq Bound(n, u) \ {s}
      BY <1>1, <2>4, <3>2 DEF Bound
    <3>4. s \notin Holding(n, u) /\ Holding(n, u) \cup {s} \subseteq Holding(n, u)'
      BY <2>4, <3>2 DEF Holding
    <3> QED
      BY <1>3, <3>1, <3>3, <3>4 DEF Tells
  <2> QED
    BY <2>3, <2>4
<1> QED
  BY <1>4, <1>5 DEF SendToDevice

LEMMA NextCounted == IInv /\ CountedAll /\ [Next]_vars => CountedAll'
<1> SUFFICES ASSUME IInv, CountedAll, [Next]_vars, ~ cut', NEW n \in Personal, NEW u \in Users
             PROVE  Counted(n, u)'
  BY DEF CountedAll
<1>1. n \in Notes /\ told[n][u] \in Nat
  BY NoneApart DEF IInv, TypeOK
<1> DEFINE CutShort == \E s \in Senders : Cut(s)
<1>2. CASE CutShort
  BY <1>2 DEF Cut
<1>3. ASSUME ~ CutShort PROVE Quiet(n, u) \/ \E s \in Senders : Tells(s, n, u)
  <2>1. CASE UNCHANGED <<log, sender, told>>
    <3>1. Holding(n, u)' = Holding(n, u) /\ Bound(n, u)' = Bound(n, u) /\ (Logged(n, u)' <=> Logged(n, u))
      BY <2>1 DEF Holding, Bound, Logged
    <3> QED
      BY <2>1, <3>1 DEF Quiet
  <2>2. ASSUME NEW s \in Senders, NEW v \in Users, NEW d \in Devices, SendToDevice(s, v, d)
        PROVE  Quiet(n, u) \/ \E t \in Senders : Tells(t, n, u)
    BY <2>2, Telling
  <2>3. CASE Tick \/ UNCHANGED vars \/ \E d \in Devices, v \in Users :
                                          RegisterDevice(d, v) \/ UnregisterDevice(d, v)
    BY <2>1, <2>3 DEF vars, RegisterDevice, UnregisterDevice, Tick
  <2>4. ASSUME NEW s \in Senders,
               \/ \E m \in Notes : Dispatch(s, m)
               \/ FilterDelivered(s) \/ FilterGlobal(s) \/ FilterMarketing(s)
               \/ Reserve(s) \/ LookUp(s)
        PROVE  Quiet(n, u)
    BY <1>1, <2>4, QuietBefore
  <2>5. ASSUME NEW s \in Senders, RecordSuccessfulPush(s) PROVE Quiet(n, u)
    BY <1>1, <2>5, QuietRecord
  <2> QED
    BY <1>3, <2>2, <2>3, <2>4, <2>5 DEF Next
<1>4. CASE ~ CutShort
  <2>1. cut' = cut
    BY <1>4 DEF Next, vars, RegisterDevice, UnregisterDevice, Dispatch, FilterDelivered, FilterGlobal,
                FilterMarketing, Reserve, LookUp, SendToDevice, RecordSuccessfulPush, Tick
  <2>2. Counted(n, u)
    BY <2>1 DEF CountedAll
  <2> QED
    BY <1>1, <1>3, <1>4, <2>2, Counting
<1> QED
  BY <1>2, <1>4

\* Whatever the users, devices, notifications and limits, and however many
\* dispatches run at once, break off, or find devices in other hands, nobody is told
\* a reserved thing twice (notifications.service.ts:361), and a personal one no
\* more often than dispatches can be under way at once, while none is cut short.
THEOREM NobodyIsToldTwice == Spec => []ToldOnce
<1>1. IInv /\ CountedAll => ToldOnce
  <2> SUFFICES ASSUME IInv, CountedAll, NEW n \in Notes, NEW u \in Users
               PROVE  /\ n \notin Personal => told[n][u] <= 1
                      /\ n \in Personal /\ ~ cut => told[n][u] <= Cardinality(Senders)
    BY DEF ToldOnce
  <2>1. n \notin Personal => told[n][u] <= 1
    BY DEF IInv, Owned, ReservedToldOnce
  <2>2. ASSUME n \in Personal, ~ cut PROVE told[n][u] <= Cardinality(Senders)
    <3>1. Counted(n, u) /\ told[n][u] \in Nat
      BY <2>2 DEF CountedAll, IInv, TypeOK
    <3>2. /\ Cardinality(Bound(n, u)) \in Nat /\ Cardinality(Senders) \in Nat
          /\ Cardinality(Holding(n, u)) \in Nat /\ Cardinality(Holding(n, u)) <= Cardinality(Senders)
      BY Parts, FS_Subset, FS_CardinalityType
    <3> QED
      BY <3>1, <3>2 DEF Counted
  <2> QED
    BY <2>1, <2>2
<1>2. Init => CountedAll
  <2> SUFFICES ASSUME Init, NEW n \in Personal, NEW u \in Users PROVE Counted(n, u)
    BY DEF CountedAll
  <2>1. ~ Logged(n, u) /\ told[n][u] = 0
    BY NoneApart DEF Init, Logged
  <2>2. Cardinality(Holding(n, u)) \in Nat
    BY Parts, FS_CardinalityType
  <2> QED
    BY <2>1, <2>2 DEF Counted
<1>3. IInv /\ CountedAll /\ [Next]_vars => CountedAll'
  BY NextCounted
<1> QED
  BY <1>1, <1>2, <1>3, Invariant, PTL DEF Spec

-----------------------------------------------------------------------------
(* The limits.  A dispatch that has passed a limit and has not reserved yet *)
(* counts like a row of the log: the two together stay below the limit and  *)
(* one for each dispatch there can be.                                      *)

Limits == {"general", "marketing"}
NotesOf(k) == IF k = "marketing" THEN Marketing ELSE Marketing \cup Other
WindowOf(k) == IF k = "marketing" THEN MarketingWindow ELSE GlobalWindow
MaxOf(k) == IF k = "marketing" THEN MarketingMax ELSE GlobalMax
PastIt(k) == IF k = "marketing" THEN {"reserve"} ELSE {"marketing", "reserve"}

RowsOf(u, k) == {r \in log : r.user = u /\ r.note \in NotesOf(k) /\ r.sentAt >= now - WindowOf(k)}

\* Dispatches for u of what counts, past the limit.
Pending(u, k) ==
    {s \in Senders : sender[s].note \in NotesOf(k) /\ sender[s].at \in PastIt(k) /\ u \in sender[s].users}

Within(u, k) ==
    /\ IsFiniteSet(RowsOf(u, k))
    /\ Cardinality(RowsOf(u, k)) + Cardinality(Pending(u, k)) < MaxOf(k) + Cardinality(Senders)

Limited == \A u \in Users :
    /\ IsFiniteSet({r \in log : r.user = u})
    /\ \A k \in Limits : Within(u, k)

LEMMA LimitsAre ==
    ASSUME NEW k \in Limits
    PROVE  /\ WindowOf(k) \in Nat /\ MaxOf(k) \in Nat
           /\ NotesOf(k) \subseteq Marketing \cup Other
           /\ PastIt(k) \subseteq {"marketing", "reserve"} /\ "reserve" \in PastIt(k)
           /\ \A n \in Exempt : n \notin NotesOf(k)
  BY PushAssumption DEF Limits, WindowOf, MaxOf, NotesOf, PastIt

\* Fewer rows and fewer dispatches; or one dispatch turned into a row; or a
\* count found below the limit, whatever the dispatches.
LEMMA Sums ==
    ASSUME NEW R, NEW S, NEW P \in SUBSET Senders, NEW Q \in SUBSET Senders, NEW max \in Nat,
           IsFiniteSet(R), Cardinality(R) + Cardinality(P) < max + Cardinality(Senders),
           \/ S \subseteq R /\ Q \subseteq P
           \/ S \subseteq R /\ Cardinality(R) < max
           \/ \E x, s : S \subseteq R \cup {x} /\ s \in P /\ Q \subseteq P \ {s}
    PROVE  IsFiniteSet(S) /\ Cardinality(S) + Cardinality(Q) < max + Cardinality(Senders)
<1>1. /\ IsFiniteSet(P) /\ IsFiniteSet(Q) /\ Cardinality(P) \in Nat /\ Cardinality(Q) \in Nat
      /\ Cardinality(Q) <= Cardinality(Senders) /\ Cardinality(Senders) \in Nat
      /\ Cardinality(R) \in Nat
  BY FS_Subset, FS_CardinalityType, PushAssumption
<1>2. CASE S \subseteq R
  <2>1. IsFiniteSet(S) /\ Cardinality(S) \in Nat /\ Cardinality(S) <= Cardinality(R)
    BY <1>2, FS_Subset, FS_CardinalityType
  <2>2. CASE Cardinality(R) < max
    BY <1>1, <2>1, <2>2
  <2>3. CASE Q \subseteq P
    <3>1. Cardinality(Q) <= Cardinality(P)
      BY <1>1, <2>3, FS_Subset
    <3> QED
      BY <1>1, <2>1, <3>1
  <2>4. CASE \E s : s \in P /\ Q \subseteq P \ {s}
    BY <2>3, <2>4
  <2> QED
    BY <2>2, <2>3, <2>4
<1>3. ASSUME NEW x, NEW s \in P, S \subseteq R \cup {x}, Q \subseteq P \ {s}
      PROVE  IsFiniteSet(S) /\ Cardinality(S) + Cardinality(Q) < max + Cardinality(Senders)
  <2>1. IsFiniteSet(R \cup {x}) /\ Cardinality(R \cup {x}) <= Cardinality(R) + 1
    <3>1. /\ IsFiniteSet(R \cup {x})
          /\ Cardinality(R \cup {x}) = IF x \in R THEN Cardinality(R) ELSE Cardinality(R) + 1
      BY FS_AddElement
    <3> QED
      BY <1>1, <3>1
  <2>2. /\ IsFiniteSet(S) /\ Cardinality(S) \in Nat
        /\ Cardinality(S) <= Cardinality(R \cup {x}) /\ Cardinality(R \cup {x}) \in Nat
    BY <1>3, <2>1, FS_Subset, FS_CardinalityType
  <2>3. IsFiniteSet(P \ {s}) /\ Cardinality(P \ {s}) = Cardinality(P) - 1
    BY <1>1, FS_RemoveElement
  <2>4. Cardinality(Q) <= Cardinality(P \ {s})
    BY <1>3, <2>3, FS_Subset
  <2> QED
    BY <1>1, <2>1, <2>2, <2>3, <2>4
<1> QED
  BY <1>2, <1>3

LEMMA InitLimited == Init => Limited
<1> SUFFICES ASSUME Init, NEW u \in Users
             PROVE  IsFiniteSet({r \in log : r.user = u}) /\ \A k \in Limits : Within(u, k)
  BY DEF Limited
<1>1. {r \in log : r.user = u} = {}
  BY DEF Init
<1>2. Cardinality(Senders) \in Nat /\ Cardinality(Senders) # 0
  BY FS_CardinalityType, FS_EmptySet, PushAssumption
<1>3. ASSUME NEW k \in Limits
      PROVE  Within(u, k)
  <2>1. RowsOf(u, k) = {} /\ Pending(u, k) = {} /\ MaxOf(k) \in Nat
    BY LimitsAre DEF Init, RowsOf, Pending, Idle
  <2> QED
    BY <1>2, <2>1, FS_EmptySet DEF Within
<1> QED
  BY <1>1, <1>3, FS_EmptySet

\* Dispatches that pass a limit find the count below it, and nothing is logged.
LEMMA NothingLogged ==
    ASSUME TypeOK, Limited, log' = log, now' \in {now, now + 1},
           \A u \in Users, k \in Limits :
             \/ Pending(u, k)' \subseteq Pending(u, k)
             \/ now' = now /\ Cardinality(RowsOf(u, k)) < MaxOf(k)
    PROVE  Limited'
<1> SUFFICES ASSUME NEW u \in Users, NEW k \in Limits
             PROVE  Within(u, k)'
  BY DEF Limited
<1> DEFINE S == RowsOf(u, k)'
           Q == Pending(u, k)'
           R == RowsOf(u, k)
           P == Pending(u, k)
<1>1. S \subseteq R
  BY LimitsAre DEF TypeOK, Row, RowsOf
<1>2. P \in SUBSET Senders /\ Q \in SUBSET Senders
  BY DEF Pending
<1>3. IsFiniteSet(R) /\ Cardinality(R) + Cardinality(P) < MaxOf(k) + Cardinality(Senders)
  BY DEF Limited, Within
<1>4. Q \subseteq P \/ Cardinality(R) < MaxOf(k)
  OBVIOUS
<1> HIDE DEF R, P, S, Q
<1>5. IsFiniteSet(S) /\ Cardinality(S) + Cardinality(Q) < MaxOf(k) + Cardinality(Senders)
  BY <1>1, <1>2, <1>3, <1>4, LimitsAre, Sums
<1> QED
  BY <1>5 DEF Within, S, Q

\* Dispatch s goes on, or ends; it does not become pending.
LEMMA NobodyPends ==
    ASSUME IInv, Limited, NEW s \in Senders, UNCHANGED <<log, now>>,
           \A t \in Senders \ {s} : sender'[t] = sender[t],
           \/ sender'[s].at \notin {"marketing", "reserve"}
           \/ sender'[s].note \in Exempt
    PROVE  Limited'
<1>1. \A u \in Users, k \in Limits : Pending(u, k)' \subseteq Pending(u, k)
  BY LimitsAre DEF Pending
<1> QED
  BY <1>1, NothingLogged DEF IInv

\* Past the general limit, for whoever is below it.
LEMMA GlobalLimited ==
    ASSUME IInv, Limited, NEW s \in Senders, FilterGlobal(s)
    PROVE  Limited'
<1> DEFINE us == Under(sender[s].users, Notes, GlobalWindow, GlobalMax)
           step == IF sender[s].note \in Marketing THEN "marketing" ELSE "reserve"
<1>1. /\ TypeOK /\ Goes(s, step, us) /\ UNCHANGED <<log, now>>
      /\ sender[s].users \subseteq Users /\ us \subseteq sender[s].users
  BY DEF FilterGlobal, IInv, TypeOK, Under
<1>2. /\ \A t \in Senders \ {s} : sender'[t] = sender[t]
      /\ \/ sender'[s] = Idle
         \/ sender'[s].at = step /\ sender'[s].note = sender[s].note /\ sender'[s].users = us
  BY <1>1, GoesTo
<1>3. ASSUME NEW u \in us
      PROVE  Cardinality(RowsOf(u, "general")) < MaxOf("general")
  <2> DEFINE all == {r \in log : r.user = u /\ r.note \in Notes /\ r.sentAt >= now - GlobalWindow}
             some == RowsOf(u, "general")
  <2>1. Cardinality(all) < GlobalMax
    BY DEF Under, Deliveries
  <2>2. some \subseteq all
    BY DEF RowsOf, Notes, NotesOf, WindowOf
  <2>3. all \subseteq {r \in log : r.user = u} /\ IsFiniteSet({r \in log : r.user = u})
    BY <1>1 DEF Limited
  <2>4. MaxOf("general") = GlobalMax /\ GlobalMax \in Nat
    BY PushAssumption DEF MaxOf
  <2> HIDE DEF all, some
  <2>5. IsFiniteSet(all)
    BY <2>3, FS_Subset
  <2>6. IsFiniteSet(some) /\ Cardinality(some) <= Cardinality(all)
    BY <2>2, <2>5, FS_Subset
  <2>7. Cardinality(all) \in Nat /\ Cardinality(some) \in Nat
    BY <2>5, <2>6, FS_CardinalityType
  <2>8. Cardinality(some) < MaxOf("general")
    BY <2>1, <2>4, <2>6, <2>7
  <2> QED
    BY <2>8 DEF some
<1>4. ASSUME NEW u \in Users
      PROVE  Pending(u, "marketing")' \subseteq Pending(u, "marketing")
  BY <1>2 DEF Pending, Idle, NotesOf, PastIt
<1>5. ASSUME NEW u \in Users \ us
      PROVE  Pending(u, "general")' \subseteq Pending(u, "general")
  BY <1>2 DEF Pending, Idle, PastIt
<1>6. ASSUME NEW u \in Users, NEW k \in Limits
      PROVE  \/ Pending(u, k)' \subseteq Pending(u, k)
             \/ now' = now /\ Cardinality(RowsOf(u, k)) < MaxOf(k)
  <2>1. CASE k = "marketing"
    BY <1>4, <2>1
  <2>2. CASE k = "general"
    BY <1>1, <1>3, <1>5, <2>2
  <2> QED
    BY <2>1, <2>2 DEF Limits
<1> HIDE DEF us, step
<1> QED
  BY <1>1, <1>6, NothingLogged

\* Past the tighter one; who is pending for the general limit stays so.
LEMMA MarketingLimited ==
    ASSUME IInv, Limited, NEW s \in Senders, FilterMarketing(s)
    PROVE  Limited'
<1> DEFINE us == Under(sender[s].users, Marketing, MarketingWindow, MarketingMax)
<1>1. /\ TypeOK /\ Goes(s, "reserve", us) /\ UNCHANGED <<log, now>>
      /\ sender[s].users \subseteq Users /\ us \subseteq sender[s].users
      /\ sender[s].at = "marketing"
  BY DEF FilterMarketing, IInv, TypeOK, Under, At
<1>2. /\ \A t \in Senders \ {s} : sender'[t] = sender[t]
      /\ \/ sender'[s] = Idle
         \/ sender'[s].at = "reserve" /\ sender'[s].note = sender[s].note /\ sender'[s].users = us
  BY <1>1, GoesTo
<1>3. \A u \in us : Cardinality(RowsOf(u, "marketing")) < MaxOf("marketing")
  BY DEF Under, Deliveries, RowsOf, NotesOf, WindowOf, MaxOf
<1> HIDE DEF us
<1>4. ASSUME NEW u \in Users
      PROVE  Pending(u, "general")' \subseteq Pending(u, "general")
  BY <1>1, <1>2 DEF Pending, Idle, PastIt
<1>5. ASSUME NEW u \in Users \ us
      PROVE  Pending(u, "marketing")' \subseteq Pending(u, "marketing")
  BY <1>2 DEF Pending, Idle, PastIt
<1>6. ASSUME NEW u \in Users, NEW k \in Limits
      PROVE  \/ Pending(u, k)' \subseteq Pending(u, k)
             \/ now' = now /\ Cardinality(RowsOf(u, k)) < MaxOf(k)
  <2>1. CASE k = "marketing"
    BY <1>1, <1>3, <1>5, <2>1
  <2>2. CASE k = "general"
    BY <1>4, <2>2
  <2> QED
    BY <2>1, <2>2 DEF Limits
<1> QED
  BY <1>1, <1>6, NothingLogged

\* A reservation turns the dispatch into a row, for each of its users; a record
\* of a personal notification does not count.
LEMMA Logging ==
    ASSUME IInv, Limited, NEW s \in Senders, Reserve(s) \/ RecordSuccessfulPush(s)
    PROVE  Limited'
<1> DEFINE n == sender[s].note
           New(u) == [user |-> u, note |-> n, sentAt |-> now]
<1>1. /\ TypeOK /\ now' = now /\ sender[s].users \subseteq Users
      /\ log' = log \cup NewRows(sender[s].users, n)
      /\ \/ sender[s].at = "reserve"
         \/ sender[s].at = "record" /\ n \in Personal
  BY DEF Reserve, RecordSuccessfulPush, IInv, TypeOK, WellFormed, Fits, At
<1>2. /\ \A t \in Senders \ {s} : sender'[t] = sender[t]
      /\ sender'[s] = Idle \/ sender'[s].at = "lookup"
  <2>1. CASE Reserve(s)
    BY <1>1, <2>1, GoesTo DEF Reserve
  <2>2. CASE RecordSuccessfulPush(s)
    BY <1>1, <2>2 DEF RecordSuccessfulPush, To, TypeOK
  <2> QED
    BY <2>1, <2>2
<1>3. ASSUME NEW r \in NewRows(sender[s].users, n)
      PROVE  r.user \in sender[s].users /\ r.note = n /\ r = New(r.user)
  BY DEF NewRows
<1> HIDE DEF New
<1>4. ASSUME NEW u \in Users, NEW k \in Limits
      PROVE  Within(u, k)'
  <2> DEFINE R == RowsOf(u, k)
             S == RowsOf(u, k)'
             P == Pending(u, k)
             Q == Pending(u, k)'
  <2>1. Q \subseteq P \ {s} /\ P \in SUBSET Senders /\ Q \in SUBSET Senders
    BY <1>2, LimitsAre DEF Pending, Idle
  <2>2. S \subseteq R \cup {r \in NewRows(sender[s].users, n) : r.user = u /\ r.note \in NotesOf(k)}
    BY <1>1 DEF RowsOf
  <2>3. IsFiniteSet(R) /\ Cardinality(R) + Cardinality(P) < MaxOf(k) + Cardinality(Senders)
    BY DEF Limited, Within
  <2>4. \/ S \subseteq R /\ Q \subseteq P
        \/ S \subseteq R \cup {New(u)} /\ s \in P /\ Q \subseteq P \ {s}
    <3>1. CASE u \in sender[s].users /\ n \in NotesOf(k)
      <4>1. n \notin Personal
        BY <3>1, LimitsAre, PushAssumption
      <4>2. s \in P
        BY <1>1, <3>1, <4>1, LimitsAre DEF Pending
      <4>3. S \subseteq R \cup {New(u)}
        BY <1>3, <2>2
      <4> QED
        BY <2>1, <4>2, <4>3
    <3>2. CASE ~ (u \in sender[s].users /\ n \in NotesOf(k))
      BY <1>3, <2>1, <2>2, <3>2
    <3> QED
      BY <3>1, <3>2
  <2> HIDE DEF R, S, P, Q
  <2>5. IsFiniteSet(S) /\ Cardinality(S) + Cardinality(Q) < MaxOf(k) + Cardinality(Senders)
    BY <2>1, <2>3, <2>4, LimitsAre, Sums
  <2> QED
    BY <2>5 DEF Within, S, Q
<1>5. ASSUME NEW u \in Users
      PROVE  IsFiniteSet({r \in log' : r.user = u})
  <2>1. IsFiniteSet({r \in log : r.user = u} \cup {New(u)})
    BY FS_AddElement DEF Limited
  <2>2. {r \in log' : r.user = u} \subseteq {r \in log : r.user = u} \cup {New(u)}
    BY <1>1, <1>3
  <2> QED
    BY <2>1, <2>2, FS_Subset
<1> QED
  BY <1>4, <1>5 DEF Limited

LEMMA NextLimited == IInv /\ Limited /\ [Next]_vars => Limited'
<1> SUFFICES ASSUME IInv, Limited, [Next]_vars
             PROVE  Limited'
  OBVIOUS
<1>1. TypeOK
  BY DEF IInv
<1>2. CASE UNCHANGED vars \/ Tick
             \/ \E d \in Devices, u \in Users : RegisterDevice(d, u) \/ UnregisterDevice(d, u)
  <2>1. log' = log /\ now' \in {now, now + 1} /\ sender' = sender
    BY <1>2 DEF vars, Tick, RegisterDevice, UnregisterDevice
  <2>2. \A u \in Users, k \in Limits : Pending(u, k)' \subseteq Pending(u, k)
    BY <2>1 DEF Pending
  <2> QED
    BY <1>1, <2>1, <2>2, NothingLogged
<1>3. ASSUME NEW s \in Senders, Cut(s) PROVE Limited'
  <2>1. /\ UNCHANGED <<log, now>> /\ \A t \in Senders \ {s} : sender'[t] = sender[t]
        /\ sender'[s].at = "idle"
    BY <1>1, <1>3 DEF Cut, To, Idle, TypeOK
  <2> QED
    BY <2>1, NobodyPends
<1>4. ASSUME NEW s \in Senders, NEW n \in Notes, Dispatch(s, n) PROVE Limited'
  <2>1. /\ UNCHANGED <<log, now>> /\ \A t \in Senders \ {s} : sender'[t] = sender[t]
        /\ sender'[s].at = "filter"
    BY <1>1, <1>4 DEF Dispatch, To, Idle, TypeOK
  <2> QED
    BY <2>1, NobodyPends
<1>5. ASSUME NEW s \in Senders, FilterDelivered(s) PROVE Limited'
  <2> DEFINE n == sender[s].note
             step == IF n \in Personal THEN "lookup" ELSE IF n \in Exempt THEN "reserve" ELSE "global"
             us == sender[s].users \ Delivered(n)
  <2>1. Goes(s, step, us) /\ UNCHANGED <<log, now>>
    BY <1>5 DEF FilterDelivered
  <2>2. step \notin {"marketing", "reserve"} \/ n \in Exempt
    OBVIOUS
  <2> HIDE DEF step, us
  <2>3. /\ \A t \in Senders \ {s} : sender'[t] = sender[t]
        /\ sender'[s] = Idle \/ (sender'[s].at = step /\ sender'[s].note = n)
    BY <1>1, <2>1, GoesTo
  <2> QED
    BY <2>1, <2>2, <2>3, NobodyPends DEF Idle
<1>6. ASSUME NEW s \in Senders, LookUp(s) PROVE Limited'
  <2>1. /\ UNCHANGED <<log, now>> /\ \A t \in Senders \ {s} : sender'[t] = sender[t]
        /\ sender'[s].at \notin {"marketing", "reserve"}
    BY <1>1, <1>6 DEF LookUp, To, Idle, TypeOK
  <2> QED
    BY <2>1, NobodyPends
<1>7. ASSUME NEW s \in Senders, NEW u \in Users, NEW d \in Devices, SendToDevice(s, u, d) PROVE Limited'
  <2>1. PICK ds, reached : After(s, ds, reached)
    BY <1>7 DEF SendToDevice
  <2>2. /\ UNCHANGED <<log, now>> /\ \A t \in Senders \ {s} : sender'[t] = sender[t]
        /\ sender'[s].at \notin {"marketing", "reserve"}
    BY <1>1, <1>7, <2>1 DEF SendToDevice, After, At, To, Idle, TypeOK
  <2> QED
    BY <2>2, NobodyPends
<1> QED
  BY <1>2, <1>3, <1>4, <1>5, <1>6, <1>7, GlobalLimited, MarketingLimited, Logging DEF Next

\* Dispatches that count before they log may pass a limit together, for any
\* limits and windows, but by less than one delivery each
\* (push-delivery-guard.service.ts, push-rate-policy.ts).
THEOREM LimitsPassedByOneEach == Spec => []LimitsNearlyKept
<1>1. IInv /\ Limited => LimitsNearlyKept
  <2> SUFFICES ASSUME Limited, NEW u \in Users
               PROVE  /\ Deliveries(u, Marketing, MarketingWindow) < MarketingMax + Cardinality(Senders)
                      /\ Deliveries(u, Marketing \cup Other, GlobalWindow)
                           < GlobalMax + Cardinality(Senders)
    BY DEF LimitsNearlyKept
  <2>1. ASSUME NEW k \in Limits
        PROVE  Deliveries(u, NotesOf(k), WindowOf(k)) < MaxOf(k) + Cardinality(Senders)
    <3>1. Deliveries(u, NotesOf(k), WindowOf(k)) = Cardinality(RowsOf(u, k))
      BY DEF Deliveries, RowsOf
    <3>2. IsFiniteSet(Pending(u, k))
      BY FS_Subset, PushAssumption DEF Pending
    <3>3. /\ Cardinality(RowsOf(u, k)) \in Nat /\ Cardinality(Pending(u, k)) \in Nat
          /\ Cardinality(Senders) \in Nat /\ MaxOf(k) \in Nat
          /\ Cardinality(RowsOf(u, k)) + Cardinality(Pending(u, k)) < MaxOf(k) + Cardinality(Senders)
      BY <3>2, LimitsAre, FS_CardinalityType, PushAssumption DEF Limited, Within
    <3> QED
      BY <3>1, <3>3
  <2>2. Deliveries(u, Marketing, MarketingWindow) < MarketingMax + Cardinality(Senders)
    BY <2>1 DEF Limits, NotesOf, WindowOf, MaxOf
  <2>3. Deliveries(u, Marketing \cup Other, GlobalWindow) < GlobalMax + Cardinality(Senders)
    BY <2>1 DEF Limits, NotesOf, WindowOf, MaxOf
  <2> QED
    BY <2>2, <2>3
<1>2. Init => Limited
  BY InitLimited
<1>3. IInv /\ Limited /\ [Next]_vars => Limited'
  BY NextLimited
<1> QED
  BY <1>1, <1>2, <1>3, Invariant, PTL DEF Spec
=============================================================================
