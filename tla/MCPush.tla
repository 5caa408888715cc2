------------------------------ MODULE MCPush ------------------------------
(* Instances of Push for TLC. *)
EXTENDS Push, TLC

CONSTANTS m1, m2, n1, e1, s1, s2, u1, u2, d1

Interchangeable == Permutations(Senders) \cup Permutations(Users)

Load(a, b, c, d) == [n \in Notes |-> CASE n = m1 -> a [] n = m2 -> b [] n = n1 -> c [] n = e1 -> d]

\* Each once and a broadcast twice; or a personal one oftener than there are senders.
MCLoads == {Load(2, 1, 1, 1), Load(1, 0, 0, 3)}
=============================================================================
