------------------------------- MODULE Monitors -------------------------------
(***************************************************************************)
(* The object monitors of the VM: SharedMonitors and MonitorState in       *)
(* src/src/vm/thread.rs and enter_monitor, exit_monitor, wait_on_monitor   *)
(* and notify_monitor in src/src/vm/mod.rs.                                *)
(*                                                                         *)
(* All monitors live in one map guarded by one mutex, and every blocked    *)
(* thread sleeps on the one condition variable `changed`, whatever the     *)
(* object it is interested in.  A step of this module is one critical      *)
(* section of that mutex: it runs from acquiring the mutex (or from being  *)
(* woken inside Condvar::wait) to releasing it (or to the next wait).      *)
(***************************************************************************)
EXTENDS Integers, FiniteSets

CONSTANTS
  Threads,   (* the VM threads, by Vm::thread_id                             *)
  Objects,   (* the heap slots used as monitors                              *)
  NoThread,  (* the owner_thread of a free monitor, 0 in the code            *)
  MaxDepth   (* bound on the reentrant acquisitions of one thread and object *)

ASSUME MonitorsAssumption ==
  /\ NoThread \notin Threads
  /\ IsFiniteSet(Threads)
  /\ MaxDepth \in Nat \ {0}

VARIABLES
  tracked,           (* the objects that have an entry in the monitor map    *)
  lock_count,        (* MonitorState::lock_count of every object             *)
  owner_thread,      (* MonitorState::owner_thread                           *)
  waiting_threads,   (* MonitorState::waiting_threads                        *)
  pending_notifies,  (* MonitorState::pending_notifies                       *)
  pc,                (* what each thread is doing, see Phases                *)
  target,            (* the object a blocked thread is blocked on            *)
  saved_lock_count,  (* the local of wait_on_monitor                         *)
  asleep,            (* the threads inside Condvar::wait, not yet woken      *)
  held               (* history: how often each thread's bytecode has        *)
                     (* entered each monitor and not yet exited it           *)

fields == <<lock_count, owner_thread, waiting_threads, pending_notifies>>
locals == <<pc, target, saved_lock_count>>
vars   == <<tracked, fields, locals, asleep, held>>

(* "run": executing bytecode; "enter", "wait": in the retry loop of         *)
(* enter_monitor or wait_on_monitor; "done": the thread has ended.          *)
Phases == {"run", "enter", "wait", "done"}

-----------------------------------------------------------------------------
(* The tests the four functions make.  A missing entry reads as the default *)
(* state (entry(index).or_default()), which is what a removed one is set to.*)

(* A definition named for a mistake (OwnsUnchecked, RestoredOnce, ...) is   *)
(* the faulty form of the next one; the specification never uses it.        *)

Available(t, o) == lock_count[o] = 0 \/ owner_thread[o] = t

OwnsUnchecked(t, o) == TRUE
Owns(t, o) == lock_count[o] # 0 /\ owner_thread[o] = t

(* exit_monitor drops the entry of a monitor nobody owns or waits for.      *)
DisposableAlways(o) == TRUE
Disposable(o) == waiting_threads[o] = 0 /\ pending_notifies[o] = 0

(* Condvar::notify_all: every sleeper leaves Condvar::wait and will contend *)
(* for the mutex.                                                           *)
NotifyNobody == asleep
NotifyAll == {}

-----------------------------------------------------------------------------
Init ==
  /\ tracked = {}
  /\ lock_count = [o \in Objects |-> 0]
  /\ owner_thread = [o \in Objects |-> NoThread]
  /\ waiting_threads = [o \in Objects |-> 0]
  /\ pending_notifies = [o \in Objects |-> 0]
  /\ pc = [t \in Threads |-> "run"]
  /\ target \in [Threads -> Objects]
  /\ saved_lock_count = [t \in Threads |-> 0]
  /\ asleep = {}
  /\ held = [t \in Threads |-> [o \in Objects |-> 0]]

(* The body of the loop of enter_monitor: take the monitor, or sleep.       *)
TakeOrSleep(t, o) ==
  /\ tracked' = tracked \cup {o}
  /\ \/ /\ Available(t, o)
        /\ owner_thread' = [owner_thread EXCEPT ![o] = t]
        /\ lock_count' = [lock_count EXCEPT ![o] = @ + 1]
        /\ held' = [held EXCEPT ![t][o] = @ + 1]
        /\ pc' = [pc EXCEPT ![t] = "run"]
        /\ UNCHANGED <<target, asleep>>
     \/ /\ ~Available(t, o)
        /\ asleep' = asleep \cup {t}
        /\ pc' = [pc EXCEPT ![t] = "enter"]
        /\ target' = [target EXCEPT ![t] = o]
        /\ UNCHANGED <<owner_thread, lock_count, held>>
  /\ UNCHANGED <<waiting_threads, pending_notifies, saved_lock_count>>

(* monitorenter, first pass through the loop.                               *)
EnterMonitor(t, o) ==
  /\ pc[t] = "run"
  /\ held[t][o] < MaxDepth
  /\ TakeOrSleep(t, o)

(* monitorenter, after Condvar::wait has returned.                          *)
RetryEnter(t) ==
  /\ pc[t] = "enter"
  /\ t \notin asleep
  /\ TakeOrSleep(t, target[t])

(* IllegalMonitorStateException: the caller does not own the monitor.  The  *)
(* lookup has already created the entry, and nothing removes it.            *)
IllegalMonitorState(t, o) ==
  /\ pc[t] = "run"
  /\ ~Owns(t, o)
  /\ tracked' = tracked \cup {o}
  /\ UNCHANGED <<fields, locals, asleep, held>>

ExitMonitor(t, o) ==
  /\ pc[t] = "run"
  /\ Owns(t, o)
  /\ lock_count' = [lock_count EXCEPT ![o] = @ - 1]
  /\ held' = [held EXCEPT ![t][o] = @ - 1]
  /\ \/ /\ lock_count[o] # 1
        /\ UNCHANGED <<tracked, owner_thread, asleep>>
     \/ /\ lock_count[o] = 1
        /\ owner_thread' = [owner_thread EXCEPT ![o] = NoThread]
        /\ tracked' = IF Disposable(o) THEN tracked \ {o} ELSE tracked
        /\ asleep' = NotifyAll
  /\ UNCHANGED <<waiting_threads, pending_notifies, locals>>

(* Object.wait(), up to the first Condvar::wait: release every reentrant    *)
(* acquisition at once, remember their number, wake the contenders, sleep.  *)
WaitOnMonitor(t, o) ==
  /\ pc[t] = "run"
  /\ Owns(t, o)
  /\ saved_lock_count' = [saved_lock_count EXCEPT ![t] = lock_count[o]]
  /\ lock_count' = [lock_count EXCEPT ![o] = 0]
  /\ owner_thread' = [owner_thread EXCEPT ![o] = NoThread]
  /\ waiting_threads' = [waiting_threads EXCEPT ![o] = @ + 1]
  /\ pc' = [pc EXCEPT ![t] = "wait"]
  /\ target' = [target EXCEPT ![t] = o]
  /\ asleep' = NotifyAll \cup {t}
  /\ UNCHANGED <<tracked, pending_notifies, held>>

(* The test a woken waiter makes before it returns from Object.wait().      *)
CanReturnWhileHeld(t, o) == pending_notifies[o] > 0
CanReturn(t, o) == pending_notifies[o] > 0 /\ Available(t, o)

(* The lock_count a returning waiter restores.                              *)
RestoredOnce(t) == 1
RestoredCount(t) == saved_lock_count[t]

(* Object.wait(), after a wake-up: consume a notification or sleep again.   *)
RetryWait(t) ==
  LET o == target[t] IN
  /\ pc[t] = "wait"
  /\ t \notin asleep
  /\ tracked' = tracked \cup {o}
  /\ \/ /\ CanReturn(t, o)
        /\ pending_notifies' = [pending_notifies EXCEPT ![o] = @ - 1]
        /\ waiting_threads' = [waiting_threads EXCEPT ![o] = @ - 1]
        /\ owner_thread' = [owner_thread EXCEPT ![o] = t]
        /\ lock_count' = [lock_count EXCEPT ![o] = RestoredCount(t)]
        /\ pc' = [pc EXCEPT ![t] = "run"]
        /\ UNCHANGED asleep
     \/ /\ ~CanReturn(t, o)
        /\ asleep' = asleep \cup {t}
        /\ UNCHANGED <<fields, pc>>
  /\ UNCHANGED <<target, saved_lock_count, held>>

(* How many notifications a notify or a notifyAll adds: none that no waiter *)
(* is left to consume.                                                      *)
NewlyAvailableUncapped(o, notify_all) ==
  IF notify_all THEN waiting_threads[o] ELSE 1
NewlyAvailable(o, notify_all) ==
  LET unnotified == waiting_threads[o] - pending_notifies[o] IN
  IF unnotified <= 0 THEN 0 ELSE IF notify_all THEN unnotified ELSE 1

NotifyMonitor(t, o, notify_all) ==
  LET newly_available == NewlyAvailable(o, notify_all) IN
  /\ pc[t] = "run"
  /\ Owns(t, o)
  /\ pending_notifies' = [pending_notifies EXCEPT ![o] = @ + newly_available]
  /\ asleep' = IF newly_available > 0 THEN NotifyAll ELSE asleep
  /\ UNCHANGED <<tracked, lock_count, owner_thread, waiting_threads, locals, held>>

(* Condvar::wait may return without a notification.                         *)
SpuriousWakeup(t) ==
  /\ t \in asleep
  /\ asleep' = asleep \ {t}
  /\ UNCHANGED <<tracked, fields, locals, held>>

(* Vm::execute returns, normally or with an uncaught exception.  Nothing    *)
(* releases the monitors the thread still holds.                            *)
Finish(t) ==
  /\ pc[t] = "run"
  /\ pc' = [pc EXCEPT ![t] = "done"]
  /\ UNCHANGED <<tracked, fields, target, saved_lock_count, asleep, held>>

-----------------------------------------------------------------------------
Step(t) ==
  \/ \E o \in Objects : EnterMonitor(t, o)
  \/ \E o \in Objects : ExitMonitor(t, o)
  \/ \E o \in Objects : IllegalMonitorState(t, o)
  \/ \E o \in Objects : WaitOnMonitor(t, o)
  \/ \E o \in Objects, all \in BOOLEAN : NotifyMonitor(t, o, all)
  \/ RetryEnter(t)
  \/ RetryWait(t)
  \/ SpuriousWakeup(t)
  \/ Finish(t)

Next == \E t \in Threads : Step(t)

Spec == Init /\ [][Next]_vars

-----------------------------------------------------------------------------
TypeOK ==
  /\ tracked \subseteq Objects
  /\ lock_count \in [Objects -> Nat]
  /\ owner_thread \in [Objects -> Threads \cup {NoThread}]
  /\ waiting_threads \in [Objects -> Nat]
  /\ pending_notifies \in [Objects -> Nat]
  /\ pc \in [Threads -> Phases]
  /\ target \in [Threads -> Objects]
  /\ saved_lock_count \in [Threads -> Nat]
  /\ asleep \subseteq Threads
  /\ held \in [Threads -> [Objects -> Int]]

(* The threads inside wait_on_monitor(o).                                   *)
WaitSet(o) == {t \in Threads : pc[t] = "wait" /\ target[t] = o}

(* What the shared state says thread t holds of o: the lock_count while t   *)
(* owns o, and the saved count while it waits on o.                         *)
Recorded(t, o) ==
  IF t \in WaitSet(o) THEN saved_lock_count[t]
  ELSE IF owner_thread[o] = t THEN lock_count[o] ELSE 0

(* Every thread's own view of its monitors agrees with the shared state:    *)
(* reentrant entries are counted exactly, a wait gives back as many as it   *)
(* took, and no two threads are inside one monitor.                         *)
Ownership ==
  /\ \A t \in Threads, o \in Objects : held[t][o] = Recorded(t, o)
  /\ \A o \in Objects : owner_thread[o] = NoThread <=> lock_count[o] = 0
  /\ \A t \in Threads : pc[t] = "wait" => owner_thread[target[t]] # t

(* Mutual exclusion as the bytecode sees it: two threads that have both     *)
(* entered o are never both outside Object.wait() on it.                    *)
MutualExclusion ==
  \A o \in Objects : \A s, t \in Threads :
    /\ held[s][o] > 0 /\ s \notin WaitSet(o)
    /\ held[t][o] > 0 /\ t \notin WaitSet(o)
    => s = t

(* No lost wake-up: a thread sleeps in enter_monitor only while somebody    *)
(* holds the monitor, and of a free monitor with pending notifications, as  *)
(* many waiters as there are notifications are awake to consume them.       *)
NoLostWakeup ==
  /\ \A t \in asleep :
       /\ pc[t] \in {"enter", "wait"}
       /\ pc[t] = "enter" => lock_count[target[t]] > 0
  /\ \A o \in Objects :
       lock_count[o] = 0 =>
         pending_notifies[o] <= Cardinality(WaitSet(o) \ asleep)

(* The counters describe the wait set: waiting_threads is its size, so the  *)
(* subtraction in wait_on_monitor never underflows, and there are never     *)
(* more pending notifications than threads left to consume them.            *)
WaitersCounted ==
  \A o \in Objects :
    /\ waiting_threads[o] = Cardinality(WaitSet(o))
    /\ pending_notifies[o] <= waiting_threads[o]

(* exit_monitor never drops the entry of a monitor that is owned, waited    *)
(* for or notified: an untracked monitor is in the default state.           *)
EntryKept ==
  \A o \in Objects \ tracked :
    /\ lock_count[o] = 0
    /\ owner_thread[o] = NoThread
    /\ WaitSet(o) = {}
    /\ pending_notifies[o] = 0
-----------------------------------------------------------------------------
(* The abstract monitor this module implements.  held is what the abstract  *)
(* module calls depth; lock_count, waiting_threads, saved_lock_count and    *)
(* the retry loops are its implementation.                                  *)
Abs == INSTANCE JavaMonitor WITH
         owner   <- owner_thread,
         depth   <- held,
         waiting <- [o \in Objects |-> WaitSet(o)],
         permits <- pending_notifies

(* Every step of the four functions is a step of a Java monitor or changes  *)
(* nothing the program can see.                                             *)
ImplementsJavaMonitor == Abs!Spec
=============================================================================
