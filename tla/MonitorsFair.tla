----------------------------- MODULE MonitorsFair -----------------------------
(***************************************************************************)
(* Monitors.tla driven by well-behaved programs: each thread performs at   *)
(* most MaxCalls calls of enter, wait and notify, leaves every monitor it  *)
(* entered, and ends only when it holds none.                              *)
(*                                                                         *)
(* Fairness: the operating system schedules every runnable thread, so a    *)
(* thread woken from Condvar::wait gets the mutex at some time (RetryEnter *)
(* and RetryWait) and a running program reaches its monitorexit.  Nothing  *)
(* is assumed about who gets a free monitor first, about spurious wake-ups *)
(* or about a program ever calling notify.                                 *)
(***************************************************************************)
EXTENDS Monitors

CONSTANT MaxCalls  (* bound on the calls of a thread                         *)

ASSUME MonitorsFairAssumption == MaxCalls \in Nat

VARIABLE calls     (* calls each thread has made                             *)

fairVars == <<vars, calls>>

FairInit == Init /\ calls = [t \in Threads |-> 0]

Call(t, o) ==
  /\ calls[t] < MaxCalls
  /\ calls' = [calls EXCEPT ![t] = @ + 1]
  /\ \/ EnterMonitor(t, o)
     \/ WaitOnMonitor(t, o)
     \/ \E all \in BOOLEAN : NotifyMonitor(t, o, all)

Leave(t, o) == ExitMonitor(t, o) /\ UNCHANGED calls

Resume(t) == (RetryEnter(t) \/ RetryWait(t)) /\ UNCHANGED calls

Wake(t) == SpuriousWakeup(t) /\ UNCHANGED calls

End(t) ==
  /\ \A o \in Objects : held[t][o] = 0
  /\ Finish(t)
  /\ UNCHANGED calls

FairNext ==
  \E t \in Threads :
    \/ \E o \in Objects : Call(t, o) \/ Leave(t, o)
    \/ Resume(t)
    \/ Wake(t)
    \/ End(t)

Fairness ==
  \A t \in Threads :
    /\ WF_fairVars(Resume(t))
    /\ \A o \in Objects : WF_fairVars(Leave(t, o))

FairSpec == FairInit /\ [][FairNext]_fairVars /\ Fairness

-----------------------------------------------------------------------------
(* monitorenter does not hang: a contender gets the monitor, although it    *)
(* shares one condition variable with the waiters of every object.          *)
EnterReturns ==
  \A t \in Threads : pc[t] = "enter" ~> pc[t] = "run"

(* A notification is never lost: some waiter returns from Object.wait() for *)
(* each of them, so the number of pending ones comes back to zero.          *)
NotificationsConsumed ==
  \A o \in Objects : pending_notifies[o] > 0 ~> pending_notifies[o] = 0
===============================================================================
