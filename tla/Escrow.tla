------------------------------- MODULE Escrow -------------------------------
(***************************************************************************)
(* What the users are promised about their money: the owner of funds can   *)
(* have part of them held, if they suffice; what is held is then either    *)
(* paid out or returned, once, and nothing else takes funds away.          *)
(***************************************************************************)
EXTENDS Integers

CONSTANTS
    Owners,     \* the owners of funds
    Holds,      \* the requests to hold money
    OwnerOf,    \* the owner of a hold
    AmountOf    \* the amount of a hold

VARIABLES
    funds,      \* the free funds of each owner
    state       \* what became of each hold

vars == <<funds, state>>

Init ==
    /\ funds \in [Owners -> Nat]
    /\ state \in [Holds -> {"none", "held"}]

Move(h, from, to, change) ==
    /\ state[h] = from
    /\ state' = [state EXCEPT ![h] = to]
    /\ funds' = [funds EXCEPT ![OwnerOf[h]] = @ + change]

Hold(h) == funds[OwnerOf[h]] >= AmountOf[h] /\ Move(h, "none", "held", -AmountOf[h])
Pay(h) == Move(h, "held", "paid", 0)
Return(h) == Move(h, "held", "returned", AmountOf[h])

\* Funds of one owner grow by what is paid in.
Earn(o) ==
    /\ funds'[o] > funds[o]
    /\ funds' = [funds EXCEPT ![o] = funds'[o]]
    /\ UNCHANGED state

Next ==
    \/ \E h \in Holds : Hold(h) \/ Pay(h) \/ Return(h)
    \/ \E o \in Owners : Earn(o)

Spec == Init /\ [][Next]_vars
=============================================================================
