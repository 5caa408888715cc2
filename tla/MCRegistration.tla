--------------------------- MODULE MCRegistration ---------------------------
(* Instances of Registration for TLC.                                      *)
EXTENDS Registration, TLC

CONSTANTS u1, u2, c1, c2, c3, r1, r2, h1, h2

\* One player wants all cartelas, and can pay them with a bonus cartela and
\* money; the other wants two of them, and has money for one.
MCItems == [r \in Requests |-> IF r = r1 THEN <<c1, c2, c3>> ELSE <<c1, c2>>]
MCCartelaOf == [h \in Holds |-> c1]
MCPlayerOf == [x \in Requests \cup Holds |-> IF x \in {r1, h1} THEN u1 ELSE u2]
MCOpening == [u \in Users |-> [balance |-> IF u = u1 THEN 4 ELSE 2, locked |-> 0,
                              bonus |-> IF u = u1 THEN 1 ELSE 0]]
=============================================================================
