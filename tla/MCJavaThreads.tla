----------------------------- MODULE MCJavaThreads -----------------------------
(* The identities JavaThreads is instantiated with.                         *)
EXTENDS JavaThreads
CONSTANTS m, m2, c1, c2, j1, j2
=============================================================================
