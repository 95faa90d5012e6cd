------------------------------ MODULE ChainSync ------------------------------
(***************************************************************************)
(* A Java program run on the monitors of Monitors.tla: the workers of the  *)
(* test in src/tests/complex_scenarios.rs that hand a phase from one       *)
(* thread to the next.  Worker p waits inside synchronized (LOCK) until    *)
(* currentPhase is p, then increments it and calls notifyAll:              *)
(*                                                                         *)
(*   synchronized (LOCK) {                                                 *)
(*     while (currentPhase != targetPhase) LOCK.wait();                    *)
(*     currentPhase++;  LOCK.notifyAll();                                  *)
(*   }                                                                     *)
(*                                                                         *)
(* The test starts three workers; here there are as many as Workers has.   *)
(* The program is the textbook use of wait and notifyAll: it terminates on *)
(* every JVM on which notifyAll lets every waiting thread go on.           *)
(***************************************************************************)
EXTENDS Monitors

CONSTANTS
  Workers,  (* the sequence of all Threads, worker p being Workers[p+1]      *)
  Lock      (* the object LOCK, one of Objects                               *)

VARIABLES
  step,          (* where in run() each worker is                              *)
  currentPhase   (* the static field                                           *)

chainVars == <<vars, step, currentPhase>>

targetPhase(t) == (CHOOSE i \in DOMAIN Workers : Workers[i] = t) - 1

ChainInit ==
  /\ Init
  /\ step = [t \in Threads |-> "start"]
  /\ currentPhase = 0

(* From step to next in run(); the monitor call may still block t.          *)
Goto(t, from, next) ==
  /\ step[t] = from
  /\ step' = [step EXCEPT ![t] = next]

Synchronize(t) ==
  /\ Goto(t, "start", "while")
  /\ EnterMonitor(t, Lock)
  /\ UNCHANGED currentPhase

WaitForPhase(t) ==
  /\ Goto(t, "while", "while")
  /\ currentPhase # targetPhase(t)
  /\ WaitOnMonitor(t, Lock)
  /\ UNCHANGED currentPhase

RunPhase(t) ==
  /\ Goto(t, "while", "leave")
  /\ currentPhase = targetPhase(t)
  /\ currentPhase' = currentPhase + 1
  /\ NotifyMonitor(t, Lock, TRUE)

Leave(t) ==
  /\ Goto(t, "leave", "end")
  /\ ExitMonitor(t, Lock)
  /\ UNCHANGED currentPhase

End(t) ==
  /\ Goto(t, "end", "end")
  /\ Finish(t)
  /\ UNCHANGED currentPhase

Resume(t) ==
  /\ RetryEnter(t) \/ RetryWait(t)
  /\ UNCHANGED <<step, currentPhase>>

WorkerStep(t) ==
  \/ Synchronize(t)
  \/ WaitForPhase(t)
  \/ RunPhase(t)
  \/ Leave(t)
  \/ End(t)
  \/ Resume(t)

(* No spurious wake-up is needed: the step is left out to show it.          *)
ChainNext == \E t \in Threads : WorkerStep(t)

(* Every worker that can take a step takes one at some time.                *)
ChainSpec ==
  /\ ChainInit
  /\ [][ChainNext]_chainVars
  /\ \A t \in Threads : WF_chainVars(WorkerStep(t))

-----------------------------------------------------------------------------
(* The test's assertion: the joins of main return, so every worker has run  *)
(* its phase and ended.                                                     *)
AllPhasesRun == <>(\A t \in Threads : pc[t] = "done")
==============================================================================
