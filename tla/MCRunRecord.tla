------------------------------ MODULE MCRunRecord ------------------------------
(* Instances of RunRecord for TLC. *)
EXTENDS RunRecord

CONSTANTS t1, u1
=============================================================================
