------------------------------ MODULE MCInterning ------------------------------
(* The identities Interning is instantiated with.                           *)
EXTENDS Interning
CONSTANTS t1, t2, t3, a, b
=============================================================================
