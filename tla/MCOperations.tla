---------------------------- MODULE MCOperations ----------------------------
(* Instances of Operations for TLC. *)
EXTENDS Operations

CONSTANTS admin, r1
=============================================================================
