----------------------------- MODULE MCChainSync -----------------------------
(* The program with one worker more than the test has.                      *)
EXTENDS ChainSync, Sequences

CONSTANTS t0, t1, t2, t3

FourWorkers == <<t0, t1, t2, t3>>
==============================================================================
