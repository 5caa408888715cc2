------------------------------ MODULE MCRound ------------------------------
(* Instances of Round for TLC.                                             *)
EXTENDS Round, TLC

CONSTANTS c1, c2, r1, r2, r3

\* c1 and c2 complete a pattern with the same ball, c2 another one with the
\* last ball; a third request repeats the claim of the first.
MCBalls == 1..3
MCPatterns == c1 :> {{1, 2}} @@ c2 :> {{1, 2}, {2, 3}}
MCCartelaOf == [r \in Requests |-> IF r = r2 THEN c2 ELSE c1]

\* Two balls, for the runs with every operator and every failure.
MCTwoBalls == 1..2
MCTwoBallPatterns == c1 :> {{1, 2}} @@ c2 :> {{1, 2}, {2}}
=============================================================================
