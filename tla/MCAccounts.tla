---------------------------- MODULE MCAccounts ----------------------------
(* Instances of Accounts for TLC. *)
EXTENDS Accounts, TLC

CONSTANTS p1, p2, c1, c2, device

Interchangeable == Permutations(Clients)

MCDevice == [c \in Clients |-> device]
=============================================================================
