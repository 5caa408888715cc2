------------------------------ MODULE MCReview ------------------------------
(***************************************************************************)
(* Two cartelas, one of them claimed twice.                                *)
(***************************************************************************)
EXTENDS Review, TLC

CONSTANTS c1, c2, k1, k2, k3

MCCartelaOf == k1 :> c1 @@ k2 :> c1 @@ k3 :> c2
=============================================================================
