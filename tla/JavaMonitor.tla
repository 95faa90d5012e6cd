----------------------------- MODULE JavaMonitor -----------------------------
(***************************************************************************)
(* What the monitors of the VM promise to a Java program, without the      *)
(* monitor map, the mutex, the condition variable and the retry loops: a   *)
(* monitor has an owner, a depth per thread, a set of waiting threads and  *)
(* a number of notifications that waiting threads may still use.           *)
(* Monitors.tla is shown to implement this module.                         *)
(***************************************************************************)
EXTENDS Integers, FiniteSets

CONSTANTS Threads, Objects, NoThread

VARIABLES
  owner,    (* the thread inside each monitor, NoThread when it is free      *)
  depth,    (* how often each thread has entered each monitor; a thread that *)
            (* waits keeps its depth                                         *)
  waiting,  (* the wait set of each monitor                                  *)
  permits   (* the notifications no waiting thread has used yet              *)

vars == <<owner, depth, waiting, permits>>

Init ==
  /\ owner = [o \in Objects |-> NoThread]
  /\ depth = [t \in Threads |-> [o \in Objects |-> 0]]
  /\ waiting = [o \in Objects |-> {}]
  /\ permits = [o \in Objects |-> 0]

Enter(t, o) ==
  /\ \A p \in Objects : t \notin waiting[p]
  /\ owner[o] \in {NoThread, t}
  /\ owner' = [owner EXCEPT ![o] = t]
  /\ depth' = [depth EXCEPT ![t][o] = @ + 1]
  /\ UNCHANGED <<waiting, permits>>

(* The monitor is free again exactly when the last entry is matched.        *)
Exit(t, o) ==
  /\ owner[o] = t
  /\ depth' = [depth EXCEPT ![t][o] = @ - 1]
  /\ owner' = IF depth[t][o] = 1 THEN [owner EXCEPT ![o] = NoThread] ELSE owner
  /\ UNCHANGED <<waiting, permits>>

Wait(t, o) ==
  /\ owner[o] = t
  /\ owner' = [owner EXCEPT ![o] = NoThread]
  /\ waiting' = [waiting EXCEPT ![o] = @ \cup {t}]
  /\ UNCHANGED <<depth, permits>>

Notify(t, o) ==
  /\ owner[o] = t
  /\ permits[o] < Cardinality(waiting[o])
  /\ permits' \in { [permits EXCEPT ![o] = @ + 1],
                    [permits EXCEPT ![o] = Cardinality(waiting[o])] }
  /\ UNCHANGED <<owner, depth, waiting>>

(* A waiting thread goes on, back inside the monitor at its old depth.      *)
Return(t, o) ==
  /\ t \in waiting[o]
  /\ permits[o] > 0
  /\ owner[o] = NoThread
  /\ owner' = [owner EXCEPT ![o] = t]
  /\ waiting' = [waiting EXCEPT ![o] = @ \ {t}]
  /\ permits' = [permits EXCEPT ![o] = @ - 1]
  /\ UNCHANGED depth

Next ==
  \E t \in Threads, o \in Objects :
    \/ Enter(t, o)
    \/ Exit(t, o)
    \/ Wait(t, o)
    \/ Notify(t, o)
    \/ Return(t, o)

Spec == Init /\ [][Next]_vars
==============================================================================
