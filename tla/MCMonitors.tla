------------------------------ MODULE MCMonitors ------------------------------
(* Three threads and two objects: enough for an owner, a contender and a    *)
(* waiter on one monitor, a notifyAll to two waiters, and a thread that     *)
(* holds one monitor while it waits on or contends for the other.           *)
EXTENDS Monitors, TLC

Symmetry == Permutations(Threads) \cup Permutations(Objects)
===============================================================================
