---------------------------- MODULE MonitorsProofs ----------------------------
(***************************************************************************)
(* Proofs about Monitors.tla, for every finite set of threads, every set   *)
(* of objects and every MaxDepth.                                          *)
(***************************************************************************)
EXTENDS Monitors, FiniteSetTheorems, TLAPS

(* Updating a function, and a function of two arguments, keeps its type.    *)
LEMMA UpdateType ==
  ASSUME NEW S, NEW R, NEW f \in [S -> R], NEW x \in S, NEW v \in R
  PROVE  [f EXCEPT ![x] = v] \in [S -> R]
OBVIOUS

LEMMA UpdateType2 ==
  ASSUME NEW S, NEW T, NEW R, NEW f \in [S -> [T -> R]],
         NEW x \in S, NEW y \in T, NEW v \in R
  PROVE  [f EXCEPT ![x][y] = v] \in [S -> [T -> R]]
<1>1. f[x] \in [T -> R] OBVIOUS
<1>2. [f[x] EXCEPT ![y] = v] \in [T -> R] BY <1>1, UpdateType
<1> QED BY <1>2, UpdateType

(* A step of the object-monitor functions keeps the types: in particular    *)
(* lock_count, waiting_threads and pending_notifies, which are unsigned in  *)
(* the code, are never decremented below zero.  For waiting_threads this    *)
(* needs that the waiter itself is still counted.                           *)
TypeInv ==
  /\ TypeOK
  /\ \A o \in Objects : waiting_threads[o] = Cardinality(WaitSet(o))

LEMMA WaitSetFinite ==
  ASSUME NEW o \in Objects
  PROVE  IsFiniteSet(WaitSet(o))
BY MonitorsAssumption, FS_Subset DEF WaitSet

(* A thread that waits on o makes the counter of o positive.                *)
LEMMA WaiterCounted ==
  ASSUME TypeInv, NEW t \in Threads, pc[t] = "wait"
  PROVE  waiting_threads[target[t]] > 0
<1> DEFINE o == target[t]
<1>1. o \in Objects /\ t \in WaitSet(o) BY DEF TypeInv, TypeOK, WaitSet
<1>2. IsFiniteSet(WaitSet(o)) BY <1>1, WaitSetFinite
<1>3. Cardinality(WaitSet(o)) \in Nat BY <1>2, FS_CardinalityType
<1>4. Cardinality(WaitSet(o)) # 0 BY <1>1, <1>2, FS_EmptySet
<1> QED BY <1>1, <1>3, <1>4 DEF TypeInv

(* The counters follow the wait sets when no thread starts or ends a wait.  *)
LEMMA SameWaitSets ==
  ASSUME TypeInv, UNCHANGED waiting_threads,
         \A o \in Objects : WaitSet(o)' = WaitSet(o)
  PROVE  \A o \in Objects : waiting_threads'[o] = Cardinality(WaitSet(o)')
BY DEF TypeInv

LEMMA TakeOrSleepTypes ==
  ASSUME TypeInv, NEW t \in Threads, NEW o \in Objects,
         pc[t] \in {"run", "enter"}, TakeOrSleep(t, o)
  PROVE  TypeInv'
<1>1. TypeOK'
  <2>1. CASE Available(t, o)
    <3>1. held' = [held EXCEPT ![t][o] = @ + 1]
      BY <2>1 DEF TakeOrSleep
    <3>2. held' \in [Threads -> [Objects -> Int]]
      <4>1. held[t][o] + 1 \in Int BY DEF TypeInv, TypeOK
      <4> QED BY <3>1, <4>1, UpdateType2 DEF TypeInv, TypeOK
    <3>3. lock_count' \in [Objects -> Nat]
      BY <2>1 DEF TypeInv, TypeOK, TakeOrSleep
    <3>4. pc' \in [Threads -> Phases]
      BY <2>1 DEF TypeInv, TypeOK, TakeOrSleep, Phases
    <3>5. owner_thread' \in [Objects -> Threads \cup {NoThread}]
      BY <2>1 DEF TypeInv, TypeOK, TakeOrSleep
    <3> QED BY <2>1, <3>2, <3>3, <3>4, <3>5 DEF TypeInv, TypeOK, TakeOrSleep
  <2>2. CASE ~Available(t, o)
    <3>1. /\ asleep' = asleep \cup {t}
          /\ tracked' = tracked \cup {o}
          /\ pc' = [pc EXCEPT ![t] = "enter"]
          /\ target' = [target EXCEPT ![t] = o]
          /\ UNCHANGED <<owner_thread, lock_count, held, waiting_threads,
                         pending_notifies, saved_lock_count>>
      BY <2>2 DEF TakeOrSleep
    <3>2. pc' \in [Threads -> Phases] /\ target' \in [Threads -> Objects]
      BY <3>1 DEF TypeInv, TypeOK, Phases
    <3> QED BY <3>1, <3>2 DEF TypeInv, TypeOK
  <2> QED BY <2>1, <2>2
<1>2. \A p \in Objects : WaitSet(p)' = WaitSet(p)
  BY DEF TypeInv, TypeOK, TakeOrSleep, WaitSet
<1>3. UNCHANGED waiting_threads
  BY DEF TakeOrSleep
<1> QED BY <1>1, <1>2, <1>3, SameWaitSets DEF TypeInv

LEMMA TypeInvInit == Init => TypeInv
<1> SUFFICES ASSUME Init PROVE TypeInv
  OBVIOUS
<1>1. TypeOK
  BY DEF Init, TypeOK, Phases
<1>2. \A o \in Objects : WaitSet(o) = {}
  BY DEF Init, WaitSet
<1>3. \A o \in Objects : waiting_threads[o] = Cardinality(WaitSet(o))
  BY <1>2, FS_EmptySet DEF Init
<1> QED BY <1>1, <1>3 DEF TypeInv

LEMMA TypeInvStep == TypeInv /\ [Next]_vars => TypeInv'
<1> SUFFICES ASSUME TypeInv, [Next]_vars PROVE TypeInv'
  OBVIOUS
<1> USE DEF fields, locals
<1>1. ASSUME NEW t \in Threads, NEW o \in Objects, EnterMonitor(t, o)
      PROVE  TypeInv'
  BY <1>1, TakeOrSleepTypes DEF EnterMonitor
<1>2. ASSUME NEW t \in Threads, RetryEnter(t)
      PROVE  TypeInv'
  <2>1. target[t] \in Objects BY DEF TypeInv, TypeOK
  <2> QED BY <1>2, <2>1, TakeOrSleepTypes DEF RetryEnter
<1>3. ASSUME NEW t \in Threads, NEW o \in Objects, ExitMonitor(t, o)
      PROVE  TypeInv'
  <2>1. lock_count[o] \in Nat \ {0} BY <1>3 DEF TypeInv, TypeOK, ExitMonitor, Owns
  <2>2. TypeOK'
    <3>1. held' = [held EXCEPT ![t][o] = @ - 1]
      BY <1>3 DEF ExitMonitor
    <3>2. held' \in [Threads -> [Objects -> Int]]
      <4>1. held[t][o] - 1 \in Int BY DEF TypeInv, TypeOK
      <4> QED BY <3>1, <4>1, UpdateType2 DEF TypeInv, TypeOK
    <3>3. lock_count' \in [Objects -> Nat]
      <4>1. lock_count \in [Objects -> Nat] /\ lock_count[o] - 1 \in Nat
        BY <2>1 DEF TypeInv, TypeOK
      <4>2. lock_count' = [lock_count EXCEPT ![o] = @ - 1]
        BY <1>3 DEF ExitMonitor
      <4> QED BY <4>1, <4>2
    <3>4. owner_thread' \in [Objects -> Threads \cup {NoThread}]
      BY <1>3 DEF TypeInv, TypeOK, ExitMonitor
    <3> QED BY <1>3, <3>2, <3>3, <3>4 DEF TypeInv, TypeOK, ExitMonitor, NotifyAll
  <2>3. UNCHANGED waiting_threads /\ \A p \in Objects : WaitSet(p)' = WaitSet(p)
    BY <1>3 DEF ExitMonitor, WaitSet
  <2> QED BY <2>2, <2>3, SameWaitSets DEF TypeInv
<1>4. ASSUME NEW t \in Threads, NEW o \in Objects, IllegalMonitorState(t, o)
      PROVE  TypeInv'
  <2>1. TypeOK' BY <1>4 DEF TypeInv, TypeOK, IllegalMonitorState
  <2>2. UNCHANGED waiting_threads /\ \A p \in Objects : WaitSet(p)' = WaitSet(p)
    BY <1>4 DEF IllegalMonitorState, WaitSet
  <2> QED BY <2>1, <2>2, SameWaitSets DEF TypeInv
<1>5. ASSUME NEW t \in Threads, NEW o \in Objects, WaitOnMonitor(t, o)
      PROVE  TypeInv'
  <2>1. TypeOK'
    BY <1>5 DEF TypeInv, TypeOK, WaitOnMonitor, NotifyAll, Phases
  <2>2. \A p \in Objects \ {o} : WaitSet(p)' = WaitSet(p)
    BY <1>5 DEF TypeInv, TypeOK, WaitOnMonitor, WaitSet
  <2>3. WaitSet(o)' = WaitSet(o) \cup {t} /\ t \notin WaitSet(o)
    BY <1>5 DEF TypeInv, TypeOK, WaitOnMonitor, WaitSet
  <2>4. Cardinality(WaitSet(o)') = Cardinality(WaitSet(o)) + 1
    BY <2>3, WaitSetFinite, FS_AddElement
  <2>5. waiting_threads' = [waiting_threads EXCEPT ![o] = @ + 1]
    BY <1>5 DEF WaitOnMonitor
  <2>6. \A p \in Objects : waiting_threads'[p] = Cardinality(WaitSet(p)')
    BY <2>2, <2>4, <2>5 DEF TypeInv, TypeOK
  <2> QED BY <2>1, <2>6 DEF TypeInv
<1>6. ASSUME NEW t \in Threads, RetryWait(t)
      PROVE  TypeInv'
  <2>0. PICK o \in Objects : o = target[t]
    BY DEF TypeInv, TypeOK
  <2>1. o \in Objects /\ pc[t] = "wait" /\ t \in WaitSet(o)
    BY <1>6, <2>0 DEF TypeInv, TypeOK, RetryWait, WaitSet
  <2>2. waiting_threads[o] > 0
    BY <2>0, <2>1, WaiterCounted
  <2>3. TypeOK'
    <3>1. CASE CanReturn(t, o)
      <4>1. pending_notifies[o] \in Nat \ {0} /\ waiting_threads[o] \in Nat \ {0}
        BY <2>1, <2>2, <3>1 DEF TypeInv, TypeOK, CanReturn
      <4>2. /\ pending_notifies' \in [Objects -> Nat]
            /\ waiting_threads' \in [Objects -> Nat]
        <5>1. /\ pending_notifies' = [pending_notifies EXCEPT ![o] = @ - 1]
              /\ waiting_threads' = [waiting_threads EXCEPT ![o] = @ - 1]
          BY <2>0, <1>6, <3>1 DEF RetryWait
        <5>2. pending_notifies \in [Objects -> Nat] /\ waiting_threads \in [Objects -> Nat]
          BY DEF TypeInv, TypeOK
        <5>3. pending_notifies[o] - 1 \in Nat /\ waiting_threads[o] - 1 \in Nat
          BY <4>1
        <5> QED BY <2>1, <5>1, <5>2, <5>3
      <4>3. /\ lock_count' = [lock_count EXCEPT ![o] = saved_lock_count[t]]
            /\ owner_thread' = [owner_thread EXCEPT ![o] = t]
            /\ pc' = [pc EXCEPT ![t] = "run"]
            /\ tracked' = tracked \cup {o}
            /\ UNCHANGED <<target, saved_lock_count, asleep, held>>
        BY <2>0, <1>6, <3>1 DEF RetryWait, RestoredCount
      <4>4. /\ lock_count' \in [Objects -> Nat]
            /\ owner_thread' \in [Objects -> Threads \cup {NoThread}]
        BY <2>1, <4>3 DEF TypeInv, TypeOK
      <4>5. pc' \in [Threads -> Phases]
        BY <4>3 DEF TypeInv, TypeOK, Phases
      <4> QED
        BY <2>1, <4>2, <4>3, <4>4, <4>5 DEF TypeInv, TypeOK
    <3>2. CASE ~CanReturn(t, o)
      BY <2>0, <1>6, <2>1, <3>2 DEF TypeInv, TypeOK, RetryWait
    <3> QED BY <3>1, <3>2
  <2>4. CASE CanReturn(t, o)
    <3>1. \A p \in Objects \ {o} : WaitSet(p)' = WaitSet(p)
      BY <2>0, <1>6, <2>1, <2>4 DEF TypeInv, TypeOK, RetryWait, WaitSet
    <3>2. WaitSet(o)' = WaitSet(o) \ {t}
      BY <2>0, <1>6, <2>1, <2>4 DEF TypeInv, TypeOK, RetryWait, WaitSet
    <3>3. Cardinality(WaitSet(o)') = Cardinality(WaitSet(o)) - 1
      BY <2>1, <3>2, WaitSetFinite, FS_RemoveElement
    <3>4. waiting_threads' = [waiting_threads EXCEPT ![o] = @ - 1]
      BY <2>0, <1>6, <2>4 DEF RetryWait
    <3>5. /\ waiting_threads \in [Objects -> Nat]
          /\ \A p \in Objects : waiting_threads[p] = Cardinality(WaitSet(p))
      BY DEF TypeInv, TypeOK
    <3>6. \A p \in Objects : waiting_threads'[p] = Cardinality(WaitSet(p)')
      BY <2>1, <3>1, <3>3, <3>4, <3>5
    <3> QED BY <2>3, <3>6 DEF TypeInv
  <2>5. CASE ~CanReturn(t, o)
    <3>1. UNCHANGED waiting_threads /\ \A p \in Objects : WaitSet(p)' = WaitSet(p)
      BY <1>6, <2>0, <2>5 DEF RetryWait, WaitSet
    <3> QED BY <2>3, <3>1, SameWaitSets DEF TypeInv
  <2> QED BY <2>4, <2>5
<1>7. ASSUME NEW t \in Threads, NEW o \in Objects, NEW all \in BOOLEAN,
             NotifyMonitor(t, o, all)
      PROVE  TypeInv'
  <2>1. NewlyAvailable(o, all) \in Nat
    BY DEF TypeInv, TypeOK, NewlyAvailable
  <2>2. TypeOK'
    BY <1>7, <2>1 DEF TypeInv, TypeOK, NotifyMonitor, NotifyAll
  <2>3. UNCHANGED waiting_threads /\ \A p \in Objects : WaitSet(p)' = WaitSet(p)
    BY <1>7 DEF NotifyMonitor, WaitSet
  <2> QED BY <2>2, <2>3, SameWaitSets DEF TypeInv
<1>8. ASSUME NEW t \in Threads, SpuriousWakeup(t)
      PROVE  TypeInv'
  <2>1. TypeOK' BY <1>8 DEF TypeInv, TypeOK, SpuriousWakeup
  <2>2. UNCHANGED waiting_threads /\ \A p \in Objects : WaitSet(p)' = WaitSet(p)
    BY <1>8 DEF SpuriousWakeup, WaitSet
  <2> QED BY <2>1, <2>2, SameWaitSets DEF TypeInv
<1>9. ASSUME NEW t \in Threads, Finish(t)
      PROVE  TypeInv'
  <2>1. TypeOK' BY <1>9 DEF TypeInv, TypeOK, Finish, Phases
  <2>2. UNCHANGED waiting_threads /\ \A p \in Objects : WaitSet(p)' = WaitSet(p)
    BY <1>9 DEF TypeInv, TypeOK, Finish, WaitSet
  <2> QED BY <2>1, <2>2, SameWaitSets DEF TypeInv
<1>10. ASSUME UNCHANGED vars
       PROVE  TypeInv'
  <2>1. TypeOK' BY <1>10 DEF TypeInv, TypeOK, vars
  <2>2. UNCHANGED waiting_threads /\ \A p \in Objects : WaitSet(p)' = WaitSet(p)
    BY <1>10 DEF vars, WaitSet
  <2> QED BY <2>1, <2>2, SameWaitSets DEF TypeInv
<1> QED
  BY <1>1, <1>2, <1>3, <1>4, <1>5, <1>6, <1>7, <1>8, <1>9, <1>10 DEF Next, Step

THEOREM TypeCorrect == Spec => []TypeOK
<1>1. TypeInv => TypeOK BY DEF TypeInv
<1> QED BY <1>1, TypeInvInit, TypeInvStep, PTL DEF Spec

-----------------------------------------------------------------------------
(* Ownership needs one more fact to be inductive: a waiter remembers at     *)
(* least one entry, so the monitor it returns to is owned again.            *)
OwnInv ==
  /\ TypeInv
  /\ Ownership
  /\ \A t \in Threads : pc[t] = "wait" => saved_lock_count[t] > 0

LEMMA OwnInvInit == Init => OwnInv
BY TypeInvInit DEF Init, OwnInv, Ownership, Recorded, WaitSet, MonitorsAssumption

(* OwnInv spelt out for the leaves below, without the types they do not     *)
(* need.                                                                    *)
LEMMA OwnInvFacts ==
  ASSUME OwnInv
  PROVE  /\ lock_count \in [Objects -> Nat]
         /\ owner_thread \in [Objects -> Threads \cup {NoThread}]
         /\ pc \in [Threads -> Phases]
         /\ target \in [Threads -> Objects]
         /\ saved_lock_count \in [Threads -> Nat]
         /\ held \in [Threads -> [Objects -> Int]]
         /\ \A t \in Threads, o \in Objects :
              held[t][o] = IF pc[t] = "wait" /\ target[t] = o THEN saved_lock_count[t]
                           ELSE IF owner_thread[o] = t THEN lock_count[o] ELSE 0
         /\ \A o \in Objects : owner_thread[o] = NoThread <=> lock_count[o] = 0
         /\ \A t \in Threads : pc[t] = "wait" => owner_thread[target[t]] # t
         /\ \A t \in Threads : pc[t] = "wait" => saved_lock_count[t] > 0
BY DEF OwnInv, TypeInv, TypeOK, Ownership, Recorded, WaitSet

LEMMA TakeOrSleepOwns ==
  ASSUME OwnInv, TypeInv', NEW t \in Threads, NEW o \in Objects,
         pc[t] \in {"run", "enter"}, TakeOrSleep(t, o)
  PROVE  OwnInv'
<1>1. CASE Available(t, o)
  <2>1. /\ owner_thread' = [owner_thread EXCEPT ![o] = t]
        /\ lock_count' = [lock_count EXCEPT ![o] = @ + 1]
        /\ held' = [held EXCEPT ![t][o] = @ + 1]
        /\ pc' = [pc EXCEPT ![t] = "run"]
        /\ UNCHANGED <<target, saved_lock_count>>
    BY <1>1 DEF TakeOrSleep
  <2>2. owner_thread[o] \in {t, NoThread}
    BY <1>1, OwnInvFacts DEF Available
  <2>3. \A s \in Threads, p \in Objects : held'[s][p] = Recorded(s, p)'
    BY <2>1, <2>2, OwnInvFacts, MonitorsAssumption DEF Recorded, WaitSet
  <2>4. \A p \in Objects : owner_thread'[p] = NoThread <=> lock_count'[p] = 0
    BY <2>1, OwnInvFacts, MonitorsAssumption
  <2>5. \A s \in Threads : pc'[s] = "wait" =>
          owner_thread'[target'[s]] # s /\ saved_lock_count'[s] > 0
    BY <2>1, OwnInvFacts
  <2> QED BY <2>3, <2>4, <2>5 DEF OwnInv, Ownership
<1>2. CASE ~Available(t, o)
  <2>1. /\ pc' = [pc EXCEPT ![t] = "enter"]
        /\ target' = [target EXCEPT ![t] = o]
        /\ UNCHANGED <<owner_thread, lock_count, held, saved_lock_count>>
    BY <1>2 DEF TakeOrSleep
  <2>2. \A s \in Threads, p \in Objects : held'[s][p] = Recorded(s, p)'
    BY <2>1, OwnInvFacts DEF Recorded, WaitSet
  <2>3. \A s \in Threads : pc'[s] = "wait" =>
          owner_thread'[target'[s]] # s /\ saved_lock_count'[s] > 0
    BY <2>1, OwnInvFacts
  <2>4. \A p \in Objects : owner_thread'[p] = NoThread <=> lock_count'[p] = 0
    BY <2>1, OwnInvFacts
  <2> QED BY <2>2, <2>3, <2>4 DEF OwnInv, Ownership
<1> QED BY <1>1, <1>2

LEMMA OwnInvStep == OwnInv /\ [Next]_vars => OwnInv'
<1> SUFFICES ASSUME OwnInv, [Next]_vars PROVE OwnInv'
  OBVIOUS
<1>0. TypeInv /\ TypeInv'
  BY TypeInvStep DEF OwnInv
<1> USE DEF fields, locals
<1>1. ASSUME NEW t \in Threads, NEW o \in Objects, EnterMonitor(t, o)
      PROVE  OwnInv'
  BY <1>0, <1>1, TakeOrSleepOwns DEF EnterMonitor
<1>2. ASSUME NEW t \in Threads, RetryEnter(t)
      PROVE  OwnInv'
  <2>1. target[t] \in Objects BY OwnInvFacts
  <2> QED BY <1>0, <1>2, <2>1, TakeOrSleepOwns DEF RetryEnter
<1>3. ASSUME NEW t \in Threads, NEW o \in Objects, ExitMonitor(t, o)
      PROVE  OwnInv'
  <2>1. /\ pc[t] = "run"
        /\ owner_thread[o] = t
        /\ lock_count' = [lock_count EXCEPT ![o] = @ - 1]
        /\ held' = [held EXCEPT ![t][o] = @ - 1]
        /\ owner_thread' = IF lock_count[o] = 1
                           THEN [owner_thread EXCEPT ![o] = NoThread]
                           ELSE owner_thread
        /\ UNCHANGED <<pc, target, saved_lock_count>>
    BY <1>3 DEF ExitMonitor, Owns
  <2>2. \A s \in Threads, p \in Objects : held'[s][p] = Recorded(s, p)'
    BY <2>1, OwnInvFacts, MonitorsAssumption DEF Recorded, WaitSet
  <2>3. \A p \in Objects : owner_thread'[p] = NoThread <=> lock_count'[p] = 0
    BY <2>1, OwnInvFacts, MonitorsAssumption
  <2>4. \A s \in Threads : pc'[s] = "wait" =>
          owner_thread'[target'[s]] # s /\ saved_lock_count'[s] > 0
    BY <2>1, OwnInvFacts, MonitorsAssumption
  <2> QED BY <1>0, <2>2, <2>3, <2>4 DEF OwnInv, Ownership
<1>5. ASSUME NEW t \in Threads, NEW o \in Objects, WaitOnMonitor(t, o)
      PROVE  OwnInv'
  <2>1. /\ pc[t] = "run"
        /\ owner_thread[o] = t
        /\ lock_count[o] # 0
        /\ saved_lock_count' = [saved_lock_count EXCEPT ![t] = lock_count[o]]
        /\ lock_count' = [lock_count EXCEPT ![o] = 0]
        /\ owner_thread' = [owner_thread EXCEPT ![o] = NoThread]
        /\ pc' = [pc EXCEPT ![t] = "wait"]
        /\ target' = [target EXCEPT ![t] = o]
        /\ UNCHANGED held
    BY <1>5 DEF WaitOnMonitor, Owns
  <2>2. \A s \in Threads, p \in Objects : held'[s][p] = Recorded(s, p)'
    BY <2>1, OwnInvFacts, MonitorsAssumption DEF Recorded, WaitSet
  <2>3. \A p \in Objects : owner_thread'[p] = NoThread <=> lock_count'[p] = 0
    BY <2>1, OwnInvFacts, MonitorsAssumption
  <2>4. \A s \in Threads : pc'[s] = "wait" =>
          owner_thread'[target'[s]] # s /\ saved_lock_count'[s] > 0
    BY <2>1, OwnInvFacts, MonitorsAssumption
  <2> QED BY <1>0, <2>2, <2>3, <2>4 DEF OwnInv, Ownership
<1>6. ASSUME NEW t \in Threads, RetryWait(t), CanReturn(t, target[t])
      PROVE  OwnInv'
  <2>0. PICK o \in Objects : o = target[t]
    BY OwnInvFacts
  <2>1. /\ pc[t] = "wait"
        /\ owner_thread' = [owner_thread EXCEPT ![o] = t]
        /\ lock_count' = [lock_count EXCEPT ![o] = saved_lock_count[t]]
        /\ pc' = [pc EXCEPT ![t] = "run"]
        /\ UNCHANGED <<target, saved_lock_count, held>>
    BY <1>6, <2>0 DEF RetryWait, RestoredCount
  <2>2. owner_thread[o] = NoThread
    BY <1>6, <2>0, <2>1, OwnInvFacts DEF CanReturn, Available
  <2>3. \A s \in Threads, p \in Objects : held'[s][p] = Recorded(s, p)'
    BY <2>0, <2>1, <2>2, OwnInvFacts, MonitorsAssumption DEF Recorded, WaitSet
  <2>4. \A p \in Objects : owner_thread'[p] = NoThread <=> lock_count'[p] = 0
    BY <2>0, <2>1, OwnInvFacts, MonitorsAssumption
  <2>5. \A s \in Threads : pc'[s] = "wait" =>
          owner_thread'[target'[s]] # s /\ saved_lock_count'[s] > 0
    BY <2>1, OwnInvFacts
  <2> QED BY <1>0, <2>3, <2>4, <2>5 DEF OwnInv, Ownership
<1>7. ASSUME NEW t \in Threads, Finish(t)
      PROVE  OwnInv'
  <2>1. /\ pc[t] = "run"
        /\ pc' = [pc EXCEPT ![t] = "done"]
        /\ UNCHANGED <<owner_thread, lock_count, target, saved_lock_count, held>>
    BY <1>7 DEF Finish
  <2>2. \A s \in Threads, p \in Objects : held'[s][p] = Recorded(s, p)'
    BY <2>1, OwnInvFacts DEF Recorded, WaitSet
  <2>3. \A s \in Threads : pc'[s] = "wait" =>
          owner_thread'[target'[s]] # s /\ saved_lock_count'[s] > 0
    BY <2>1, OwnInvFacts
  <2> QED BY <1>0, <2>1, <2>2, <2>3 DEF OwnInv, Ownership
(* The other steps leave everything OwnInv speaks of alone.                 *)
<1>8. ASSUME UNCHANGED <<owner_thread, lock_count, pc, target, saved_lock_count, held>>
      PROVE  OwnInv'
  BY <1>0, <1>8 DEF OwnInv, Ownership, Recorded, WaitSet
<1>9. ASSUME NEW t \in Threads, RetryWait(t), ~CanReturn(t, target[t])
      PROVE  OwnInv'
  BY <1>8, <1>9 DEF RetryWait
<1>10. ASSUME NEW t \in Threads,
              \/ \E o \in Objects : IllegalMonitorState(t, o)
              \/ \E o \in Objects, all \in BOOLEAN : NotifyMonitor(t, o, all)
              \/ SpuriousWakeup(t)
       PROVE  OwnInv'
  BY <1>8, <1>10 DEF IllegalMonitorState, NotifyMonitor, SpuriousWakeup
<1>11. CASE UNCHANGED vars
  BY <1>8, <1>11 DEF vars
<1> QED
  BY <1>1, <1>2, <1>3, <1>5, <1>6, <1>7, <1>9, <1>10, <1>11 DEF Next, Step

(* The shared state of the monitors always agrees with what every thread    *)
(* has entered and not yet exited: enter_monitor, exit_monitor and both     *)
(* halves of wait_on_monitor keep lock_count and owner_thread exact.        *)
THEOREM OwnershipCorrect == Spec => []Ownership
<1>1. OwnInv => Ownership BY DEF OwnInv
<1> QED BY <1>1, OwnInvInit, OwnInvStep, PTL DEF Spec

(* Two threads are never inside the monitor of one object.                  *)
THEOREM MutualExclusionCorrect == Spec => []MutualExclusion
<1>1. TypeInv /\ Ownership => MutualExclusion
  BY DEF Ownership, MutualExclusion, Recorded, WaitSet
<1>2. OwnInv => MutualExclusion BY <1>1 DEF OwnInv
<1> QED BY <1>2, OwnInvInit, OwnInvStep, PTL DEF Spec


-----------------------------------------------------------------------------
(* A monitor without an entry in the map is in the default state, and its   *)
(* pending notifications never exceed its waiters.                          *)
CountInv ==
  /\ OwnInv
  /\ EntryKept
  /\ \A o \in Objects : pending_notifies[o] <= waiting_threads[o]

LEMMA CountInvInit == Init => CountInv
<1>1. Init => EntryKept
  BY DEF Init, EntryKept, WaitSet
<1>2. Init => \A o \in Objects : pending_notifies[o] <= waiting_threads[o]
  BY DEF Init
<1> QED BY <1>1, <1>2, OwnInvInit DEF CountInv

(* The wait set of o is empty exactly when its counter is zero.             *)
LEMMA NoWaiters ==
  ASSUME TypeInv, NEW o \in Objects
  PROVE  WaitSet(o) = {} <=> waiting_threads[o] = 0
BY WaitSetFinite, FS_EmptySet DEF TypeInv

(* CountInv in the terms of the counters, as the leaves below need it.      *)
LEMMA CountInvFacts ==
  ASSUME CountInv
  PROVE  /\ lock_count \in [Objects -> Nat]
         /\ owner_thread \in [Objects -> Threads \cup {NoThread}]
         /\ waiting_threads \in [Objects -> Nat]
         /\ pending_notifies \in [Objects -> Nat]
         /\ target \in [Threads -> Objects]
         /\ \A o \in Objects : owner_thread[o] = NoThread <=> lock_count[o] = 0
         /\ \A o \in Objects : pending_notifies[o] <= waiting_threads[o]
         /\ \A o \in Objects \ tracked :
              lock_count[o] = 0 /\ waiting_threads[o] = 0
BY NoWaiters DEF CountInv, OwnInv, TypeInv, TypeOK, Ownership, EntryKept

LEMMA CountInvStep == CountInv /\ [Next]_vars => CountInv'
<1> SUFFICES ASSUME CountInv, [Next]_vars PROVE CountInv'
  OBVIOUS
<1>0. OwnInv /\ OwnInv' /\ TypeInv /\ TypeInv'
  BY OwnInvStep DEF CountInv, OwnInv
(* It is enough to follow the counters.                                     *)
<1>1. ASSUME \A o \in Objects : pending_notifies'[o] <= waiting_threads'[o],
             \A o \in Objects \ tracked' : lock_count'[o] = 0 /\ waiting_threads'[o] = 0
      PROVE  CountInv'
  <2>1. \A o \in Objects : WaitSet(o)' = {} <=> waiting_threads'[o] = 0
    <3> SUFFICES ASSUME NEW o \in Objects
                 PROVE  WaitSet(o)' = {} <=> waiting_threads'[o] = 0
      OBVIOUS
    <3>1. IsFiniteSet(WaitSet(o)')
      BY MonitorsAssumption, FS_Subset DEF WaitSet
    <3>2. waiting_threads'[o] = Cardinality(WaitSet(o)')
      BY <1>0 DEF TypeInv
    <3> QED BY <3>1, <3>2, FS_EmptySet
  <2>2. /\ pending_notifies' \in [Objects -> Nat]
        /\ waiting_threads' \in [Objects -> Nat]
        /\ \A o \in Objects : owner_thread'[o] = NoThread <=> lock_count'[o] = 0
    BY <1>0 DEF OwnInv, TypeInv, TypeOK, Ownership
  <2>3. \A o \in Objects \ tracked' : pending_notifies'[o] = 0
    BY <1>1, <2>2
  <2>4. EntryKept'
    BY <1>1, <2>1, <2>2, <2>3 DEF EntryKept
  <2> QED BY <1>0, <1>1, <2>4 DEF CountInv
<1> USE DEF fields, locals
<1>2. ASSUME NEW t \in Threads, NEW o \in Objects, TakeOrSleep(t, o)
      PROVE  CountInv'
  <2>1. /\ tracked' = tracked \cup {o}
        /\ UNCHANGED <<waiting_threads, pending_notifies>>
        /\ lock_count' \in {lock_count, [lock_count EXCEPT ![o] = @ + 1]}
    BY <1>2 DEF TakeOrSleep
  <2>2. \A p \in Objects \ tracked' : lock_count'[p] = 0
    BY <2>1, CountInvFacts
  <2> QED BY <1>1, <2>1, <2>2, CountInvFacts
<1>3. ASSUME NEW t \in Threads, NEW o \in Objects, ExitMonitor(t, o)
      PROVE  CountInv'
  <2>1. /\ lock_count' = [lock_count EXCEPT ![o] = @ - 1]
        /\ UNCHANGED <<waiting_threads, pending_notifies>>
        /\ lock_count[o] # 0
        /\ \/ tracked' = tracked
           \/ tracked' = tracked \ {o} /\ lock_count[o] = 1 /\ waiting_threads[o] = 0
    BY <1>3 DEF ExitMonitor, Owns, Disposable
  <2>2. o \in tracked
    BY <2>1, CountInvFacts
  <2>3. \A p \in Objects \ tracked' : lock_count'[p] = 0 /\ waiting_threads'[p] = 0
    BY <2>1, <2>2, CountInvFacts
  <2> QED BY <1>1, <2>1, <2>3, CountInvFacts
<1>4. ASSUME NEW t \in Threads, NEW o \in Objects, WaitOnMonitor(t, o)
      PROVE  CountInv'
  <2>1. /\ lock_count' = [lock_count EXCEPT ![o] = 0]
        /\ waiting_threads' = [waiting_threads EXCEPT ![o] = @ + 1]
        /\ UNCHANGED <<tracked, pending_notifies>>
        /\ lock_count[o] # 0
    BY <1>4 DEF WaitOnMonitor, Owns
  <2>2. o \in tracked
    BY <2>1, CountInvFacts
  <2>3. \A p \in Objects : pending_notifies'[p] <= waiting_threads'[p]
    BY <2>1, CountInvFacts
  <2>4. \A p \in Objects \ tracked' : lock_count'[p] = 0 /\ waiting_threads'[p] = 0
    BY <2>1, <2>2, CountInvFacts
  <2> QED BY <1>1, <2>3, <2>4
<1>5. ASSUME NEW t \in Threads, RetryWait(t)
      PROVE  CountInv'
  <2>0. PICK o \in Objects : o = target[t]
    BY CountInvFacts
  <2>1. CASE CanReturn(t, o)
    <3>1. /\ pending_notifies' = [pending_notifies EXCEPT ![o] = @ - 1]
          /\ waiting_threads' = [waiting_threads EXCEPT ![o] = @ - 1]
          /\ lock_count' = [lock_count EXCEPT ![o] = RestoredCount(t)]
          /\ tracked' = tracked \cup {o}
      BY <1>5, <2>0, <2>1 DEF RetryWait
    <3>2. \A p \in Objects : pending_notifies'[p] <= waiting_threads'[p]
      BY <3>1, CountInvFacts
    <3>3. \A p \in Objects \ tracked' : lock_count'[p] = 0 /\ waiting_threads'[p] = 0
      BY <3>1, CountInvFacts
    <3> QED BY <1>1, <3>2, <3>3
  <2>2. CASE ~CanReturn(t, o)
    <3>1. tracked' = tracked \cup {o} /\ UNCHANGED fields
      BY <1>5, <2>0, <2>2 DEF RetryWait
    <3> QED BY <1>1, <3>1, CountInvFacts
  <2> QED BY <2>1, <2>2
<1>6. ASSUME NEW t \in Threads, NEW o \in Objects, NEW all \in BOOLEAN,
             NotifyMonitor(t, o, all)
      PROVE  CountInv'
  <2>1. /\ pending_notifies' = [pending_notifies EXCEPT ![o] = @ + NewlyAvailable(o, all)]
        /\ UNCHANGED <<tracked, lock_count, waiting_threads>>
    BY <1>6 DEF NotifyMonitor
  <2>2. /\ NewlyAvailable(o, all) \in Nat
        /\ pending_notifies[o] + NewlyAvailable(o, all) <= waiting_threads[o]
    BY CountInvFacts DEF NewlyAvailable
  <2>3. \A p \in Objects : pending_notifies'[p] <= waiting_threads'[p]
    BY <2>1, <2>2, CountInvFacts
  <2> QED BY <1>1, <2>1, <2>3, CountInvFacts
(* The other steps change none of the counters and drop no entry.           *)
<1>7. ASSUME UNCHANGED fields, tracked \subseteq tracked'
      PROVE  CountInv'
  BY <1>1, <1>7, CountInvFacts
<1>8. ASSUME NEW t \in Threads,
             \/ \E o \in Objects : IllegalMonitorState(t, o)
             \/ SpuriousWakeup(t)
             \/ Finish(t)
      PROVE  CountInv'
  BY <1>7, <1>8 DEF IllegalMonitorState, SpuriousWakeup, Finish
<1>9. CASE UNCHANGED vars
  BY <1>7, <1>9 DEF vars
<1>10. ASSUME NEW t \in Threads, RetryEnter(t)
       PROVE  CountInv'
  BY <1>2, <1>10, CountInvFacts DEF RetryEnter
<1>11. ASSUME NEW t \in Threads, NEW o \in Objects, EnterMonitor(t, o)
       PROVE  CountInv'
  BY <1>2, <1>11 DEF EnterMonitor
<1> QED
  BY <1>3, <1>4, <1>5, <1>6, <1>8, <1>9, <1>10, <1>11 DEF Next, Step

(* exit_monitor drops an entry only when the state it loses is the default  *)
(* one.                                                                     *)
THEOREM EntryKeptCorrect == Spec => []EntryKept
<1>1. CountInv => EntryKept BY DEF CountInv
<1> QED BY <1>1, CountInvInit, CountInvStep, PTL DEF Spec

(* waiting_threads is the number of threads inside Object.wait(), and there *)
(* are never more pending notifications than that.                          *)
THEOREM WaitersCountedCorrect == Spec => []WaitersCounted
<1>1. CountInv => WaitersCounted
  BY DEF CountInv, OwnInv, TypeInv, WaitersCounted
<1> QED BY <1>1, CountInvInit, CountInvStep, PTL DEF Spec


-----------------------------------------------------------------------------
(* The waiters of o that will look at the monitor again.                    *)
Awake(o) == WaitSet(o) \ asleep

WakeInv == CountInv /\ NoLostWakeup

LEMMA WakeInvFacts ==
  ASSUME WakeInv
  PROVE  /\ lock_count \in [Objects -> Nat]
         /\ owner_thread \in [Objects -> Threads \cup {NoThread}]
         /\ waiting_threads \in [Objects -> Nat]
         /\ pending_notifies \in [Objects -> Nat]
         /\ pc \in [Threads -> Phases]
         /\ target \in [Threads -> Objects]
         /\ saved_lock_count \in [Threads -> Nat]
         /\ asleep \subseteq Threads
         /\ \A o \in Objects : owner_thread[o] = NoThread <=> lock_count[o] = 0
         /\ \A o \in Objects : pending_notifies[o] <= waiting_threads[o]
         /\ \A o \in Objects : waiting_threads[o] = Cardinality(WaitSet(o))
         /\ \A t \in Threads : pc[t] = "wait" => saved_lock_count[t] > 0
         /\ \A t \in asleep : /\ pc[t] \in {"enter", "wait"}
                              /\ pc[t] = "enter" => lock_count[target[t]] > 0
         /\ \A o \in Objects :
              lock_count[o] = 0 => pending_notifies[o] <= Cardinality(Awake(o))
BY DEF WakeInv, CountInv, OwnInv, TypeInv, TypeOK, Ownership, NoLostWakeup, Awake

LEMMA AwakeFinite ==
  ASSUME NEW o \in Objects
  PROVE  IsFiniteSet(Awake(o)) /\ Cardinality(Awake(o)) \in Nat
BY WaitSetFinite, FS_Subset, FS_CardinalityType DEF Awake

LEMMA WakeInvInit == Init => WakeInv
<1> SUFFICES ASSUME Init PROVE WakeInv
  OBVIOUS
<1>1. \A o \in Objects : Awake(o) = {}
  BY DEF Init, Awake, WaitSet
<1>2. NoLostWakeup
  BY <1>1, FS_EmptySet DEF Init, NoLostWakeup, Awake
<1> QED BY <1>2, CountInvInit DEF WakeInv

LEMMA WakeInvStep == WakeInv /\ [Next]_vars => WakeInv'
<1> SUFFICES ASSUME WakeInv, [Next]_vars PROVE WakeInv'
  OBVIOUS
<1>0. CountInv /\ CountInv'
  BY CountInvStep DEF WakeInv
<1>a. ASSUME \A s \in asleep' : /\ pc'[s] \in {"enter", "wait"}
                                /\ pc'[s] = "enter" => lock_count'[target'[s]] > 0,
             \A p \in Objects :
               lock_count'[p] = 0 => pending_notifies'[p] <= Cardinality(Awake(p)')
      PROVE  WakeInv'
  BY <1>0, <1>a DEF WakeInv, NoLostWakeup, Awake
<1> USE DEF fields, locals
<1>1. ASSUME NEW t \in Threads, NEW o \in Objects, pc[t] \in {"run", "enter"},
             t \notin asleep, TakeOrSleep(t, o)
      PROVE  WakeInv'
  <2>1. CASE Available(t, o)
    <3>1. /\ lock_count' = [lock_count EXCEPT ![o] = @ + 1]
          /\ pc' = [pc EXCEPT ![t] = "run"]
          /\ UNCHANGED <<target, asleep, pending_notifies>>
      BY <1>1, <2>1 DEF TakeOrSleep
    <3>2. \A p \in Objects : Awake(p)' = Awake(p)
      BY <1>1, <3>1, WakeInvFacts DEF Awake, WaitSet
    <3>3. \A s \in asleep' : /\ pc'[s] \in {"enter", "wait"}
                             /\ pc'[s] = "enter" => lock_count'[target'[s]] > 0
      BY <1>1, <3>1, WakeInvFacts
    <3>4. \A p \in Objects :
            lock_count'[p] = 0 => pending_notifies'[p] <= Cardinality(Awake(p)')
      BY <3>1, <3>2, WakeInvFacts
    <3> QED BY <1>a, <3>3, <3>4
  <2>2. CASE ~Available(t, o)
    <3>1. /\ lock_count' = lock_count
          /\ asleep' = asleep \cup {t}
          /\ pc' = [pc EXCEPT ![t] = "enter"]
          /\ target' = [target EXCEPT ![t] = o]
          /\ UNCHANGED pending_notifies
      BY <1>1, <2>2 DEF TakeOrSleep
    <3>2. \A p \in Objects : Awake(p)' = Awake(p)
      BY <1>1, <3>1, WakeInvFacts DEF Awake, WaitSet
    <3>3. lock_count[o] > 0
      BY <2>2, WakeInvFacts DEF Available
    <3>4. \A s \in asleep' : /\ pc'[s] \in {"enter", "wait"}
                             /\ pc'[s] = "enter" => lock_count'[target'[s]] > 0
      BY <1>1, <3>1, <3>3, WakeInvFacts
    <3>5. \A p \in Objects :
            lock_count'[p] = 0 => pending_notifies'[p] <= Cardinality(Awake(p)')
      BY <3>1, <3>2, WakeInvFacts
    <3> QED BY <1>a, <3>4, <3>5
  <2> QED BY <2>1, <2>2
(* A running thread is not asleep.                                          *)
<1>b. \A t \in Threads : pc[t] = "run" => t \notin asleep
  BY WakeInvFacts
<1>2. ASSUME NEW t \in Threads, NEW o \in Objects, EnterMonitor(t, o)
      PROVE  WakeInv'
  BY <1>1, <1>2, <1>b DEF EnterMonitor
<1>3. ASSUME NEW t \in Threads, RetryEnter(t)
      PROVE  WakeInv'
  BY <1>1, <1>3, WakeInvFacts DEF RetryEnter
(* The last exit wakes every sleeper, so all waiters are awake.             *)
<1>4. ASSUME NEW t \in Threads, NEW o \in Objects, ExitMonitor(t, o)
      PROVE  WakeInv'
  <2>1. /\ lock_count' = [lock_count EXCEPT ![o] = @ - 1]
        /\ lock_count[o] # 0
        /\ UNCHANGED <<pc, target, pending_notifies>>
    BY <1>4 DEF ExitMonitor, Owns
  <2>2. \A p \in Objects : WaitSet(p)' = WaitSet(p)
    BY <2>1 DEF WaitSet
  <2>3. CASE lock_count[o] = 1
    <3>1. asleep' = {}
      BY <1>4, <2>3 DEF ExitMonitor, NotifyAll
    <3>2. \A p \in Objects : pending_notifies'[p] <= Cardinality(Awake(p)')
      BY <2>1, <2>2, <3>1, WakeInvFacts DEF Awake
    <3> QED BY <1>a, <3>1, <3>2
  <2>4. CASE lock_count[o] # 1
    <3>1. asleep' = asleep
      BY <1>4, <2>4 DEF ExitMonitor
    <3>2. \A p \in Objects : lock_count'[p] = 0 <=> lock_count[p] = 0
      BY <2>1, <2>4, WakeInvFacts
    <3>3. \A p \in Objects : lock_count'[p] \in Nat
      BY <1>0 DEF CountInv, OwnInv, TypeInv, TypeOK
    <3>4. \A s \in asleep' : /\ pc'[s] \in {"enter", "wait"}
                             /\ pc'[s] = "enter" => lock_count'[target'[s]] > 0
      BY <2>1, <3>1, <3>2, <3>3, WakeInvFacts
    <3>5. \A p \in Objects : Awake(p)' = Awake(p)
      BY <2>2, <3>1 DEF Awake
    <3>6. \A p \in Objects :
            lock_count'[p] = 0 => pending_notifies'[p] <= Cardinality(Awake(p)')
      BY <2>1, <3>2, <3>5, WakeInvFacts
    <3> QED BY <1>a, <3>4, <3>6
  <2> QED BY <2>3, <2>4
(* A new waiter wakes every other thread before it goes to sleep.           *)
<1>5. ASSUME NEW t \in Threads, NEW o \in Objects, WaitOnMonitor(t, o)
      PROVE  WakeInv'
  <2>1. /\ pc[t] = "run"
        /\ pc' = [pc EXCEPT ![t] = "wait"]
        /\ target' = [target EXCEPT ![t] = o]
        /\ asleep' = {t}
        /\ UNCHANGED pending_notifies
    BY <1>5 DEF WaitOnMonitor, NotifyAll
  <2>2. \A p \in Objects : Awake(p)' = WaitSet(p)
    BY <2>1, WakeInvFacts DEF Awake, WaitSet
  <2>3. \A p \in Objects : pending_notifies'[p] <= Cardinality(Awake(p)')
    BY <2>1, <2>2, WakeInvFacts
  <2>4. \A s \in asleep' : /\ pc'[s] \in {"enter", "wait"}
                           /\ pc'[s] = "enter" => lock_count'[target'[s]] > 0
    BY <2>1, WakeInvFacts
  <2> QED BY <1>a, <2>3, <2>4
<1>6. ASSUME NEW t \in Threads, RetryWait(t)
      PROVE  WakeInv'
  <2>0. PICK o \in Objects : o = target[t]
    BY WakeInvFacts
  <2>1. pc[t] = "wait" /\ t \notin asleep /\ UNCHANGED target
    BY <1>6 DEF RetryWait
  <2>2. CASE CanReturn(t, o)
    <3>1. /\ lock_count' = [lock_count EXCEPT ![o] = saved_lock_count[t]]
          /\ pending_notifies' = [pending_notifies EXCEPT ![o] = @ - 1]
          /\ pc' = [pc EXCEPT ![t] = "run"]
          /\ UNCHANGED asleep
      BY <1>6, <2>0, <2>2 DEF RetryWait, RestoredCount
    <3>2. saved_lock_count[t] > 0
      BY <2>1, WakeInvFacts
    <3>3. \A p \in Objects \ {o} : Awake(p)' = Awake(p)
      BY <2>0, <2>1, <3>1, WakeInvFacts DEF Awake, WaitSet
    <3>4. \A p \in Objects :
            lock_count'[p] = 0 => pending_notifies'[p] <= Cardinality(Awake(p)')
      BY <3>1, <3>2, <3>3, WakeInvFacts
    <3>5. \A s \in asleep' : /\ pc'[s] \in {"enter", "wait"}
                             /\ pc'[s] = "enter" => lock_count'[target'[s]] > 0
      BY <2>1, <3>1, <3>2, WakeInvFacts
    <3> QED BY <1>a, <3>4, <3>5
  <2>3. CASE ~CanReturn(t, o)
    <3>1. asleep' = asleep \cup {t} /\ UNCHANGED <<lock_count, pending_notifies, pc>>
      BY <1>6, <2>0, <2>3 DEF RetryWait
    <3>2. pending_notifies[o] = 0 \/ lock_count[o] # 0
      BY <2>3, WakeInvFacts DEF CanReturn, Available
    <3>3. \A p \in Objects \ {o} : Awake(p)' = Awake(p)
      BY <2>0, <2>1, <3>1 DEF Awake, WaitSet
    <3>4. IsFiniteSet(Awake(o)') /\ Cardinality(Awake(o)') \in Nat
      <4>1. IsFiniteSet(WaitSet(o)') BY MonitorsAssumption, FS_Subset DEF WaitSet
      <4>2. IsFiniteSet(Awake(o)') BY <4>1, FS_Subset DEF Awake
      <4> QED BY <4>2, FS_CardinalityType
    <3>5. \A p \in Objects :
            lock_count'[p] = 0 => pending_notifies'[p] <= Cardinality(Awake(p)')
      BY <3>1, <3>2, <3>3, <3>4, WakeInvFacts
    <3>6. \A s \in asleep' : /\ pc'[s] \in {"enter", "wait"}
                             /\ pc'[s] = "enter" => lock_count'[target'[s]] > 0
      BY <2>1, <3>1, WakeInvFacts
    <3> QED BY <1>a, <3>5, <3>6
  <2> QED BY <2>2, <2>3
(* A notification is added by the owner, so the monitor is not free.        *)
<1>7. ASSUME NEW t \in Threads, NEW o \in Objects, NEW all \in BOOLEAN,
             NotifyMonitor(t, o, all)
      PROVE  WakeInv'
  <2>1. /\ pending_notifies' = [pending_notifies EXCEPT ![o] = @ + NewlyAvailable(o, all)]
        /\ asleep' \in {asleep, {}}
        /\ lock_count[o] # 0
        /\ UNCHANGED <<lock_count, waiting_threads, pc, target>>
    BY <1>7 DEF NotifyMonitor, Owns, NotifyAll
  <2>2. \A p \in Objects : WaitSet(p)' = WaitSet(p)
    BY <2>1 DEF WaitSet
  <2>3. \A p \in Objects \ {o} :
          lock_count'[p] = 0 => pending_notifies'[p] <= Cardinality(Awake(p)')
    <3>1. CASE asleep' = asleep
      BY <2>1, <2>2, <3>1, WakeInvFacts DEF Awake
    <3>2. CASE asleep' = {}
      BY <2>1, <2>2, <3>2, WakeInvFacts DEF Awake
    <3> QED BY <2>1, <3>1, <3>2
  <2>4. \A s \in asleep' : /\ pc'[s] \in {"enter", "wait"}
                           /\ pc'[s] = "enter" => lock_count'[target'[s]] > 0
    BY <2>1, WakeInvFacts
  <2> QED BY <1>a, <2>1, <2>3, <2>4
<1>8. ASSUME NEW t \in Threads, SpuriousWakeup(t)
      PROVE  WakeInv'
  <2>1. asleep' = asleep \ {t} /\ UNCHANGED <<fields, locals>>
    BY <1>8 DEF SpuriousWakeup
  <2>2. \A p \in Objects : Awake(p) \subseteq Awake(p)' /\ Awake(p)' \subseteq WaitSet(p)
    BY <2>1 DEF Awake, WaitSet
  <2>3. \A p \in Objects : /\ Cardinality(Awake(p)) <= Cardinality(Awake(p)')
                           /\ Cardinality(Awake(p)) \in Nat
                           /\ Cardinality(Awake(p)') \in Nat
    BY <2>2, WaitSetFinite, FS_Subset, FS_CardinalityType
  <2>4. \A p \in Objects :
          lock_count'[p] = 0 => pending_notifies'[p] <= Cardinality(Awake(p)')
    BY <2>1, <2>3, WakeInvFacts
  <2>5. \A s \in asleep' : /\ pc'[s] \in {"enter", "wait"}
                           /\ pc'[s] = "enter" => lock_count'[target'[s]] > 0
    BY <2>1, WakeInvFacts
  <2> QED BY <1>a, <2>4, <2>5
<1>9. ASSUME NEW t \in Threads, Finish(t)
      PROVE  WakeInv'
  <2>1. /\ pc[t] = "run" /\ pc' = [pc EXCEPT ![t] = "done"]
        /\ UNCHANGED <<fields, target, asleep>>
    BY <1>9 DEF Finish
  <2>2. \A p \in Objects : Awake(p)' = Awake(p)
    BY <2>1, WakeInvFacts DEF Awake, WaitSet
  <2>3. \A s \in asleep' : /\ pc'[s] \in {"enter", "wait"}
                           /\ pc'[s] = "enter" => lock_count'[target'[s]] > 0
    BY <2>1, <1>b, WakeInvFacts
  <2>4. \A p \in Objects :
          lock_count'[p] = 0 => pending_notifies'[p] <= Cardinality(Awake(p)')
    BY <2>1, <2>2, WakeInvFacts
  <2> QED BY <1>a, <2>3, <2>4
<1>10. ASSUME UNCHANGED <<fields, locals, asleep>>
       PROVE  WakeInv'
  BY <1>0, <1>10 DEF WakeInv, NoLostWakeup, WaitSet
<1>11. ASSUME NEW t \in Threads, NEW o \in Objects, IllegalMonitorState(t, o)
       PROVE  WakeInv'
  BY <1>10, <1>11 DEF IllegalMonitorState
<1>12. CASE UNCHANGED vars
  BY <1>10, <1>12 DEF vars
<1> QED
  BY <1>2, <1>3, <1>4, <1>5, <1>6, <1>7, <1>8, <1>9, <1>11, <1>12 DEF Next, Step

(* No wake-up is lost: nobody sleeps on a free monitor in monitorenter, and *)
(* the pending notifications of a free monitor have waiters awake to use    *)
(* them.                                                                    *)
THEOREM NoLostWakeupCorrect == Spec => []NoLostWakeup
<1>1. WakeInv => NoLostWakeup BY DEF WakeInv
<1> QED BY <1>1, WakeInvInit, WakeInvStep, PTL DEF Spec

-----------------------------------------------------------------------------
(* Monitors.tla implements JavaMonitor.tla.                                 *)

(* The wait sets, as JavaMonitor sees them.                                 *)
Waiting == [o \in Objects |-> WaitSet(o)]

LEMMA CountInvView ==
  ASSUME CountInv
  PROVE  /\ owner_thread \in [Objects -> Threads \cup {NoThread}]
         /\ pending_notifies \in [Objects -> Nat]
         /\ pc \in [Threads -> Phases]
         /\ target \in [Threads -> Objects]
         /\ held \in [Threads -> [Objects -> Int]]
         /\ \A o \in Objects : owner_thread[o] = NoThread <=> lock_count[o] = 0
         /\ \A t \in Threads, o \in Objects : held[t][o] = Recorded(t, o)
         /\ \A t \in Threads : pc[t] = "wait" => owner_thread[target[t]] # t
         /\ \A o \in Objects : waiting_threads[o] = Cardinality(WaitSet(o))
BY DEF CountInv, OwnInv, TypeInv, TypeOK, Ownership

(* The instance has a Cardinality of its own, with the same definition.     *)
LEMMA SameCardinality == \A S : Abs!Cardinality(S) = Cardinality(S)
BY DEF Cardinality, Abs!Cardinality

LEMMA InitRefines == Init => Abs!Init
<1> SUFFICES ASSUME Init PROVE Abs!Init
  OBVIOUS
<1>1. \A o \in Objects : WaitSet(o) = {}
  BY DEF Init, WaitSet
<1> QED BY <1>1 DEF Init, Abs!Init

LEMMA StepRefines == CountInv /\ [Next]_vars => [Abs!Next]_Abs!vars
<1> SUFFICES ASSUME CountInv, [Next]_vars PROVE [Abs!Next]_Abs!vars
  OBVIOUS
<1> USE DEF fields, locals
(* A step that a Java program cannot see.                                   *)
<1>0. ASSUME UNCHANGED <<owner_thread, held, pending_notifies>>,
             \A p \in Objects : WaitSet(p)' = WaitSet(p)
      PROVE  UNCHANGED Abs!vars
  <2>1. Waiting' = Waiting BY <1>0 DEF Waiting
  <2> QED BY <1>0, <2>1 DEF Abs!vars, Waiting
<1>1. ASSUME NEW t \in Threads, NEW o \in Objects, pc[t] \in {"run", "enter"},
             TakeOrSleep(t, o)
      PROVE  [Abs!Next]_Abs!vars
  <2>1. \A p \in Objects : WaitSet(p)' = WaitSet(p)
    BY <1>1, CountInvView DEF TakeOrSleep, WaitSet
  <2>2. CASE Available(t, o)
    <3>1. Waiting' = Waiting BY <2>1 DEF Waiting
    <3>2. \A p \in Objects : t \notin Waiting[p]
      BY <1>1 DEF Waiting, WaitSet
    <3>3. owner_thread[o] \in {NoThread, t}
      BY <2>2, CountInvView DEF Available
    <3>4. /\ owner_thread' = [owner_thread EXCEPT ![o] = t]
          /\ held' = [held EXCEPT ![t][o] = @ + 1]
          /\ UNCHANGED pending_notifies
      BY <1>1, <2>2 DEF TakeOrSleep
    <3>5. Abs!Enter(t, o)
      BY <3>1, <3>2, <3>3, <3>4 DEF Abs!Enter, Waiting
    <3> QED BY <3>5 DEF Abs!Next
  <2>3. CASE ~Available(t, o)
    <3>1. UNCHANGED <<owner_thread, held, pending_notifies>>
      BY <1>1, <2>3 DEF TakeOrSleep
    <3> QED BY <1>0, <2>1, <3>1
  <2> QED BY <2>2, <2>3
<1>2. ASSUME NEW t \in Threads, NEW o \in Objects, EnterMonitor(t, o)
      PROVE  [Abs!Next]_Abs!vars
  BY <1>1, <1>2 DEF EnterMonitor
<1>3. ASSUME NEW t \in Threads, RetryEnter(t)
      PROVE  [Abs!Next]_Abs!vars
  BY <1>1, <1>3, CountInvView DEF RetryEnter
<1>4. ASSUME NEW t \in Threads, NEW o \in Objects, ExitMonitor(t, o)
      PROVE  [Abs!Next]_Abs!vars
  <2>1. /\ pc[t] = "run"
        /\ owner_thread[o] = t
        /\ held' = [held EXCEPT ![t][o] = @ - 1]
        /\ owner_thread' = IF lock_count[o] = 1
                           THEN [owner_thread EXCEPT ![o] = NoThread]
                           ELSE owner_thread
        /\ UNCHANGED <<pc, target, pending_notifies>>
    BY <1>4 DEF ExitMonitor, Owns
  <2>2. held[t][o] = lock_count[o]
    BY <2>1, CountInvView DEF Recorded, WaitSet
  <2>3. Waiting' = Waiting
    BY <2>1 DEF Waiting, WaitSet
  <2>4. Abs!Exit(t, o)
    BY <2>1, <2>2, <2>3 DEF Abs!Exit, Waiting
  <2> QED BY <2>4 DEF Abs!Next
<1>5. ASSUME NEW t \in Threads, NEW o \in Objects, WaitOnMonitor(t, o)
      PROVE  [Abs!Next]_Abs!vars
  <2>1. /\ pc[t] = "run"
        /\ owner_thread[o] = t
        /\ owner_thread' = [owner_thread EXCEPT ![o] = NoThread]
        /\ pc' = [pc EXCEPT ![t] = "wait"]
        /\ target' = [target EXCEPT ![t] = o]
        /\ UNCHANGED <<pending_notifies, held>>
    BY <1>5 DEF WaitOnMonitor, Owns
  <2>2. \A p \in Objects \ {o} : WaitSet(p)' = WaitSet(p)
    BY <2>1, CountInvView DEF WaitSet
  <2>3. WaitSet(o)' = WaitSet(o) \cup {t}
    BY <2>1, CountInvView DEF WaitSet
  <2>4. Waiting' = [Waiting EXCEPT ![o] = @ \cup {t}]
    BY <2>2, <2>3 DEF Waiting
  <2>5. Abs!Wait(t, o)
    BY <2>1, <2>4 DEF Abs!Wait, Waiting
  <2> QED BY <2>5 DEF Abs!Next
<1>6. ASSUME NEW t \in Threads, RetryWait(t)
      PROVE  [Abs!Next]_Abs!vars
  <2>0. PICK o \in Objects : o = target[t]
    BY CountInvView
  <2>1. pc[t] = "wait" /\ UNCHANGED <<target, held>>
    BY <1>6 DEF RetryWait
  <2>2. CASE CanReturn(t, o)
    <3>1. /\ owner_thread' = [owner_thread EXCEPT ![o] = t]
          /\ pending_notifies' = [pending_notifies EXCEPT ![o] = @ - 1]
          /\ pc' = [pc EXCEPT ![t] = "run"]
      BY <1>6, <2>0, <2>2 DEF RetryWait
    <3>2. owner_thread[o] = NoThread /\ pending_notifies[o] > 0
      BY <2>0, <2>1, <2>2, CountInvView DEF CanReturn, Available
    <3>3. \A p \in Objects \ {o} : WaitSet(p)' = WaitSet(p)
      BY <2>0, <2>1, <3>1, CountInvView DEF WaitSet
    <3>4. WaitSet(o)' = WaitSet(o) \ {t} /\ t \in WaitSet(o)
      BY <2>0, <2>1, <3>1, CountInvView DEF WaitSet
    <3>5. Waiting' = [Waiting EXCEPT ![o] = @ \ {t}] /\ t \in Waiting[o]
      BY <3>3, <3>4 DEF Waiting
    <3>6. Abs!Return(t, o)
      BY <2>1, <3>1, <3>2, <3>5 DEF Abs!Return, Waiting
    <3> QED BY <3>6 DEF Abs!Next
  <2>3. CASE ~CanReturn(t, o)
    <3>1. UNCHANGED <<owner_thread, held, pending_notifies, pc, target>>
      BY <1>6, <2>0, <2>3 DEF RetryWait
    <3> QED BY <1>0, <3>1 DEF WaitSet
  <2> QED BY <2>2, <2>3
<1>7. ASSUME NEW t \in Threads, NEW o \in Objects, NEW all \in BOOLEAN,
             NotifyMonitor(t, o, all)
      PROVE  [Abs!Next]_Abs!vars
  <2>1. /\ owner_thread[o] = t
        /\ pending_notifies' = [pending_notifies EXCEPT ![o] = @ + NewlyAvailable(o, all)]
        /\ UNCHANGED <<owner_thread, held, pc, target>>
    BY <1>7 DEF NotifyMonitor, Owns
  <2>2. \A p \in Objects : WaitSet(p)' = WaitSet(p)
    BY <2>1 DEF WaitSet
  <2>3. Waiting' = Waiting BY <2>2 DEF Waiting
  <2>4. pending_notifies[o] \in Nat /\ waiting_threads[o] = Cardinality(Waiting[o])
    BY CountInvView DEF Waiting
  <2>5. waiting_threads[o] \in Nat
    BY CountInvFacts
  <2>6. CASE waiting_threads[o] <= pending_notifies[o]
    <3>1. NewlyAvailable(o, all) = 0
      BY <2>4, <2>5, <2>6 DEF NewlyAvailable
    <3>2. pending_notifies' = pending_notifies
      BY <2>1, <2>4, <3>1, CountInvView
    <3> QED BY <1>0, <2>1, <2>2, <3>2
  <2>7. CASE waiting_threads[o] > pending_notifies[o]
    <3>1. NewlyAvailable(o, all) \in {1, waiting_threads[o] - pending_notifies[o]}
      BY <2>4, <2>5, <2>7 DEF NewlyAvailable
    <3>2. pending_notifies' \in {[pending_notifies EXCEPT ![o] = @ + 1],
                                 [pending_notifies EXCEPT ![o] = Cardinality(Waiting[o])]}
      <4>1. CASE NewlyAvailable(o, all) = 1
        <5>1. pending_notifies' = [pending_notifies EXCEPT ![o] = @ + 1]
          BY <2>1, <4>1
        <5> QED BY <5>1
      <4>2. CASE NewlyAvailable(o, all) = waiting_threads[o] - pending_notifies[o]
        <5>1. pending_notifies[o] + NewlyAvailable(o, all) = Cardinality(Waiting[o])
          BY <2>4, <2>5, <4>2
        <5>2. pending_notifies' = [pending_notifies EXCEPT ![o] = Cardinality(Waiting[o])]
          BY <2>1, <5>1
        <5> QED BY <5>2
      <4> QED BY <3>1, <4>1, <4>2
    <3>3. Abs!Notify(t, o)
      <4>1. pending_notifies[o] < Cardinality(Waiting[o])
        BY <2>4, <2>7
      <4>2. UNCHANGED <<owner_thread, held, Waiting>>
        BY <2>1, <2>3
      <4> QED BY <2>1, <3>2, <4>1, <4>2, SameCardinality, Zenon DEF Abs!Notify, Waiting
    <3> QED BY <3>3 DEF Abs!Next
  <2> QED BY <2>4, <2>5, <2>6, <2>7
<1>8. ASSUME NEW t \in Threads,
             \/ \E o \in Objects : IllegalMonitorState(t, o)
             \/ SpuriousWakeup(t)
      PROVE  [Abs!Next]_Abs!vars
  BY <1>0, <1>8 DEF IllegalMonitorState, SpuriousWakeup, WaitSet
<1>9. ASSUME NEW t \in Threads, Finish(t)
      PROVE  [Abs!Next]_Abs!vars
  <2>1. \A p \in Objects : WaitSet(p)' = WaitSet(p)
    BY <1>9, CountInvView DEF Finish, WaitSet
  <2> QED BY <1>0, <1>9, <2>1 DEF Finish
<1>10. CASE UNCHANGED vars
  BY <1>0, <1>10 DEF vars, WaitSet
<1> QED
  BY <1>2, <1>3, <1>4, <1>5, <1>6, <1>7, <1>8, <1>9, <1>10 DEF Next, Step

(* The four monitor functions implement the Java monitor: every execution   *)
(* of the map, the mutex and the condition variable is an execution of      *)
(* JavaMonitor in which the retries and wake-ups are invisible.             *)
THEOREM Refinement == Spec => ImplementsJavaMonitor
BY CountInvInit, CountInvStep, InitRefines, StepRefines, PTL
   DEF Spec, ImplementsJavaMonitor, Abs!Spec
=============================================================================
