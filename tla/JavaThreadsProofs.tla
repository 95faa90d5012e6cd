--------------------------- MODULE JavaThreadsProofs ---------------------------
(***************************************************************************)
(* Facts about Thread.start(), join() and interrupt() and about parking,   *)
(* for any VM threads and thread objects.  Types, parking and the handles  *)
(* need nothing more; that a permit is not replaced, that interrupt()      *)
(* lasts and that join() waits need a program in which one thread calls    *)
(* start(): its two critical sections do not exclude a second caller.      *)
(***************************************************************************)
EXTENDS JavaThreads, TLAPS

(* What a call in progress has looked up.                                   *)
Looked ==
  \A v \in Vms :
    /\ pc[v] \in {"permit", "spawn", "record", "join"} => index[v] \in Objects /\ child[v] \in Children
    /\ pc[v] \in {"park", "parked", "unpark"} => arc[v] \in Children

TypeInv == TypeOK /\ Looked

LEMMA TypeInit == Init => TypeInv
BY JavaThreadsAssumption DEF Init, TypeInv, TypeOK, Looked, Vms, Phases

LEMMA TypeStep == TypeInv /\ [Next]_vars => TypeInv'
<1>. SUFFICES ASSUME TypeInv, [Next]_vars PROVE TypeInv'
  OBVIOUS
<1>. USE JavaThreadsAssumption DEF TypeInv, TypeOK, Looked, Vms, Phases, Goto, maps, locals, history
<1>1. ASSUME NEW v \in Vms, NEW j \in Objects, StartCheck(v, j) PROVE TypeInv'
  BY <1>1 DEF StartCheck
<1>2. ASSUME NEW v \in Vms, StartPermit(v) PROVE TypeInv'
  BY <1>2 DEF StartPermit, PermitInserted
<1>3. ASSUME NEW v \in Vms, StartSpawn(v) PROVE TypeInv'
  BY <1>3 DEF StartSpawn
<1>4. ASSUME NEW v \in Vms, StartRecord(v) PROVE TypeInv'
  BY <1>4 DEF StartRecord
<1>5. ASSUME NEW v \in Vms, NEW j \in Objects, Join(v, j) PROVE TypeInv'
  BY <1>5 DEF Join, HandleTaken, Waited
<1>6. ASSUME NEW v \in Vms, JoinReturn(v) PROVE TypeInv'
  BY <1>6 DEF JoinReturn, Waited
<1>7. ASSUME NEW v \in Vms, NEW j \in Objects, Interrupt(v, j) PROVE TypeInv'
  BY <1>7 DEF Interrupt, Interrupted
<1>8. ASSUME NEW v \in Vms, Finish(v) PROVE TypeInv'
  BY <1>8 DEF Finish
<1>9. ASSUME NEW v \in Vms, Park(v) PROVE TypeInv'
  BY <1>9 DEF Park
<1>10. ASSUME NEW v \in Vms, PermitTest(v) PROVE TypeInv'
  BY <1>10 DEF PermitTest
<1>11. ASSUME NEW v \in Vms, SpuriousWakeup(v) PROVE TypeInv'
  BY <1>11 DEF SpuriousWakeup
<1>12. ASSUME NEW v \in Vms, ParkTimeout(v) PROVE TypeInv'
  BY <1>12 DEF ParkTimeout
<1>13. ASSUME NEW v \in Vms, NEW j \in Objects, Unpark(v, j) PROVE TypeInv'
  BY <1>13 DEF Unpark
<1>14. ASSUME NEW v \in Vms, Grant(v) PROVE TypeInv'
  BY <1>14 DEF Grant, NotifyOne, Sleepers
<1>15. CASE UNCHANGED vars
  BY <1>15 DEF vars
<1>. QED  BY <1>1, <1>2, <1>3, <1>4, <1>5, <1>6, <1>7, <1>8, <1>9, <1>10, <1>11, <1>12, <1>13, <1>14,
             <1>15 DEF Next, Step, Advance

LEMMA TypeInvariant == Spec => []TypeInv
BY TypeInit, TypeStep, PTL DEF Spec

(* The state of the threads and their maps keeps its type.                  *)
THEOREM TypeCorrect == Spec => []TypeOK
BY TypeInvariant, PTL DEF TypeInv

-----------------------------------------------------------------------------
(* A child has one owner: the start() that makes it, the map, or the join() *)
(* that has taken its handle.  It is not spawned before start() does.       *)
Owned ==
  /\ \A v \in Vms : child[v] # None => pc[v] \in {"permit", "spawn", "record", "join"}
  /\ \A v, w \in Vms : child[v] # None /\ child[v] = child[w] => v = w
  /\ \A v \in Vms : pc[v] \in {"permit", "spawn"} => pc[child[v]] = "free"
  /\ \A v \in Vms : pc[v] \in {"record", "join"} => java_thread_ref[child[v]] = index[v]
  /\ \A v \in Vms : java_thread_ref[v] # None => v \in Children /\ pc[v] # "free"
  /\ \A j \in Objects : handle[j] # None =>
       java_thread_ref[handle[j]] = j /\ \A v \in Vms : child[v] # handle[j]

OwnInv == TypeInv /\ Owned

LEMMA OwnedStep == OwnInv /\ [Next]_vars => Owned'
<1>. SUFFICES ASSUME OwnInv, [Next]_vars PROVE Owned'
  OBVIOUS
<1>0. /\ TypeOK /\ Owned /\ Looked /\ None \notin Vms /\ None \notin Objects
      /\ Children \subseteq Vms
  BY JavaThreadsAssumption DEF OwnInv, TypeInv, Vms
<1>. USE <1>0 DEF TypeOK, Owned, Goto
<1>1. ASSUME NEW v \in Vms, NEW j \in Objects, StartCheck(v, j) PROVE Owned'
  <2>1. PICK c \in Children \ Reserved : child' = [child EXCEPT ![v] = c]
    BY <1>1 DEF StartCheck
  <2>2. c \in Vms /\ pc[c] = "free" /\ \A w \in Vms : child[w] # c
    BY <2>1 DEF Reserved
  <2>3. /\ pc[v] = "run" /\ pc' = [pc EXCEPT ![v] = "permit"] /\ index' = [index EXCEPT ![v] = j]
        /\ handle' = handle /\ java_thread_ref' = java_thread_ref
    BY <1>1 DEF StartCheck, maps
  <2>4. child[v] = None /\ child'[v] = c /\ \A w \in Vms : w # v => child'[w] = child[w]
    BY <2>1, <2>3
  <2>5. \A k \in Objects : handle[k] # None => handle[k] # c
    BY <2>2
  <2>6. \A w \in Vms : pc'[w] \in {"permit", "spawn"} => pc'[child'[w]] = "free"
    BY <2>2, <2>3, <2>4
  <2>7. \A w, x \in Vms : child'[w] # None /\ child'[w] = child'[x] => w = x
    BY <2>2, <2>4
  <2>8. \A w \in Vms : /\ child'[w] # None => pc'[w] \in {"permit", "spawn", "record", "join"}
                       /\ pc'[w] \in {"record", "join"} => java_thread_ref[child'[w]] = index'[w]
                       /\ java_thread_ref[w] # None => w \in Children /\ pc'[w] # "free"
    BY <2>3, <2>4
  <2>9. \A k \in Objects : handle'[k] # None =>
          java_thread_ref'[handle'[k]] = k /\ \A w \in Vms : child'[w] # handle'[k]
    BY <2>3, <2>4, <2>5
  <2>10. java_thread_ref' = java_thread_ref
    BY <2>3
  <2>. HIDE DEF Owned
  <2>. QED  BY <2>6, <2>7, <2>8, <2>9, <2>10 DEF Owned
<1>2. ASSUME NEW v \in Vms, StartPermit(v) PROVE Owned'
  BY <1>2 DEF StartPermit, locals
<1>3. ASSUME NEW v \in Vms, StartSpawn(v) PROVE Owned'
  <2>1. /\ pc[v] = "spawn" /\ pc[child[v]] = "free" /\ child[v] \in Children /\ index[v] \in Objects
        /\ java_thread_ref' = [java_thread_ref EXCEPT ![child[v]] = index[v]]
        /\ pc' = [pc EXCEPT ![v] = "record", ![child[v]] = "run"]
        /\ handle' = handle /\ child' = child /\ index' = index
    BY <1>3 DEF StartSpawn, maps, locals, Looked
  <2>2. \A w \in Vms : w # v => child[w] # child[v]
    BY <2>1
  <2>3. child[v] # v /\ \A w \in Vms : w # v /\ w # child[v] => pc'[w] = pc[w]
    BY <2>1
  <2>4. pc'[v] = "record" /\ pc'[child[v]] = "run"
    BY <2>1, <2>3
  <2>5. \A x \in Vms : x # child[v] => java_thread_ref'[x] = java_thread_ref[x]
    BY <2>1
  <2>6. java_thread_ref'[child[v]] = index[v]
    BY <2>1
  <2>7. \A w \in Vms : pc'[w] \in {"permit", "spawn"} => w # v /\ pc[w] = pc'[w] /\ pc'[child[w]] = "free"
    <3>1. ASSUME NEW w \in Vms, pc'[w] \in {"permit", "spawn"}
          PROVE  w # v /\ pc[w] = pc'[w] /\ pc'[child[w]] = "free"
      <4>1. w # v /\ w # child[v] /\ pc[w] = pc'[w]
        BY <2>3, <2>4, <3>1
      <4>2. pc[child[w]] = "free" /\ child[w] \in Children
        BY <3>1, <4>1 DEF Looked
      <4>3. child[w] # v /\ child[w] # child[v]
        BY <2>1, <2>2, <4>1, <4>2
      <4>. QED  BY <2>3, <4>1, <4>2, <4>3
    <3>. QED  BY <3>1
  <2>8. ASSUME NEW w \in Vms, pc'[w] \in {"record", "join"} PROVE java_thread_ref'[child[w]] = index[w]
    <3>1. CASE w = v
      BY <2>6, <3>1
    <3>2. CASE w # v
      <4>1. pc[w] = pc'[w] /\ w # child[v]
        BY <2>3, <2>4, <2>8, <3>2
      <4>2. child[w] \in Children /\ child[w] # child[v]
        BY <2>2, <2>8, <3>2, <4>1 DEF Looked
      <4>. QED  BY <2>5, <2>8, <4>1, <4>2
    <3>. QED  BY <3>1, <3>2
  <2>9. \A w \in Vms : child[w] # None => pc'[w] \in {"permit", "spawn", "record", "join"}
    BY <2>1, <2>3, <2>4
  <2>10. \A w \in Vms : java_thread_ref'[w] # None => w \in Children /\ pc'[w] # "free"
    BY <2>1, <2>3, <2>4, <2>5
  <2>11. \A k \in Objects : handle[k] # None => java_thread_ref'[handle[k]] = k
    BY <2>1, <2>5
  <2>12. /\ \A x, w \in Vms : child[x] # None /\ child[x] = child[w] => x = w
         /\ \A k \in Objects : handle[k] # None => \A w \in Vms : child[w] # handle[k]
    OBVIOUS
  <2>13. handle' = handle /\ child' = child /\ index' = index
    BY <2>1
  <2>. HIDE DEF Owned
  <2>. QED  BY <2>7, <2>8, <2>9, <2>10, <2>11, <2>12, <2>13 DEF Owned
<1>4. ASSUME NEW v \in Vms, StartRecord(v) PROVE Owned'
  <2>1. /\ pc[v] = "record" /\ child[v] \in Children /\ index[v] \in Objects
        /\ java_thread_ref[child[v]] = index[v]
        /\ handle' = [handle EXCEPT ![index[v]] = child[v]]
        /\ child' = [child EXCEPT ![v] = None]
        /\ pc' = [pc EXCEPT ![v] = "run"]
        /\ java_thread_ref' = java_thread_ref /\ index' = index
    BY <1>4 DEF StartRecord, Looked
  <2>2. \A w \in Vms : w # v => child[w] # child[v]
    BY <2>1
  <2>3. \A k \in Objects : handle'[k] # None =>
          java_thread_ref'[handle'[k]] = k /\ \A w \in Vms : child'[w] # handle'[k]
    BY <2>1, <2>2
  <2>. QED  BY <2>1, <2>2, <2>3
<1>5. ASSUME NEW v \in Vms, NEW j \in Objects, Join(v, j) PROVE Owned'
  <2>1. pc[v] = "run" /\ child[v] = None /\ java_thread_ref' = java_thread_ref
    BY <1>5 DEF Join
  <2>2. CASE handle' = handle /\ pc' = pc /\ index' = index /\ child' = child
    BY <2>1, <2>2
  <2>3. CASE /\ handle[j] # None /\ handle' = HandleTaken(j)
             /\ child' = [child EXCEPT ![v] = handle[j]]
             /\ index' = [index EXCEPT ![v] = j]
             /\ pc' = [pc EXCEPT ![v] = "join"]
    <3>1. /\ java_thread_ref[handle[j]] = j /\ handle[j] \in Children
          /\ \A w \in Vms : child[w] # handle[j]
          /\ handle' = [handle EXCEPT ![j] = None]
      BY <2>3 DEF HandleTaken
    <3>2. \A k \in Objects : handle'[k] # None => k # j /\ handle'[k] = handle[k] /\ handle[k] # handle[j]
      BY <3>1
    <3>. QED  BY <2>1, <2>3, <3>1, <3>2
  <2>. QED  BY <1>5, <2>2, <2>3 DEF Join
<1>6. ASSUME NEW v \in Vms, JoinReturn(v) PROVE Owned'
  BY <1>6 DEF JoinReturn, maps
(* The steps about permits and flags.                                       *)
<1>12. ASSUME NEW v \in Vms, pc[v] \in {"run", "park", "parked", "unpark"},
              NEW l \in {"run", "park", "parked", "unpark", "done"},
              pc' = [pc EXCEPT ![v] = l],
              UNCHANGED <<handle, java_thread_ref, index, child>>
       PROVE  Owned'
  <2>1. child[v] = None
    BY <1>12
  <2>. QED  BY <1>12, <2>1
<1>7. ASSUME NEW v \in Vms, NEW j \in Objects, Interrupt(v, j) PROVE Owned'
  BY <1>7 DEF Interrupt, locals
<1>13. ASSUME NEW v \in Vms, NEW j \in Objects, Unpark(v, j) PROVE Owned'
  BY <1>12, <1>13 DEF Unpark, maps
<1>8. ASSUME NEW v \in Vms, Finish(v) \/ Park(v) PROVE Owned'
  BY <1>8, <1>12 DEF Finish, Park, maps, locals
<1>14. ASSUME NEW v \in Vms, SpuriousWakeup(v) PROVE Owned'
  BY <1>14 DEF SpuriousWakeup, maps, locals
<1>9. ASSUME NEW v \in Vms, PermitTest(v) PROVE Owned'
  BY <1>9, <1>12 DEF PermitTest, locals
<1>10. ASSUME NEW v \in Vms, ParkTimeout(v) \/ Grant(v) PROVE Owned'
  BY <1>10, <1>12 DEF ParkTimeout, Grant, locals
<1>11. CASE UNCHANGED vars
  BY <1>11 DEF vars, maps, locals
<1>. QED  BY <1>1, <1>2, <1>3, <1>4, <1>5, <1>6, <1>7, <1>8, <1>9, <1>10, <1>11, <1>13, <1>14
          DEF Next, Step, Advance

LEMMA OwnInvariant == Spec => []OwnInv
<1>1. Init => OwnInv
  BY TypeInit, JavaThreadsAssumption DEF Init, OwnInv, Owned, Vms
<1>2. OwnInv /\ [Next]_vars => OwnInv'
  BY OwnedStep, TypeStep DEF OwnInv
<1>. QED  BY <1>1, <1>2, PTL DEF Spec

(* A handle is joined once at most, by a join() of the object its thread    *)
(* was started for (join_java_thread takes it out of the map), whoever      *)
(* starts and joins.                                                        *)
THEOREM HandleNotSharedCorrect == Spec => []HandleNotShared
<1>1. OwnInv => HandleNotShared
  BY JavaThreadsAssumption DEF OwnInv, Owned, TypeInv, TypeOK, Looked, HandleNotShared, Runs, Vms
<1>. QED  BY <1>1, OwnInvariant, PTL

-----------------------------------------------------------------------------
(* Parking.  A permit that is granted while threads sleep on it wakes one,  *)
(* and a thread that is no longer woken has seen that there is none.        *)
LEMMA NoLostUnparkStep == OwnInv /\ NoLostUnpark /\ [Next]_vars => NoLostUnpark'
<1>. SUFFICES ASSUME OwnInv, NoLostUnpark, [Next]_vars PROVE NoLostUnpark'
  OBVIOUS
<1>0. pc \in [Vms -> Phases] /\ arc \in [Vms -> Children \cup {None}] /\ notified \subseteq Vms
  BY DEF OwnInv, TypeInv, TypeOK
<1>. USE <1>0 DEF NoLostUnpark, Sleepers, Goto
(* A step of a thread that is running and does not go to sleep.             *)
<1>1. ASSUME NEW v \in Vms, pc[v] \notin {"park", "parked"}, permit' = permit, notified' = notified,
             \A w \in Vms : pc[w] = "parked" => pc'[w] = "parked",
             \A w \in Vms : pc'[w] = "parked" => pc[w] = "parked",
             \A w \in Vms : w = v \/ arc'[w] = arc[w]
      PROVE  NoLostUnpark'
  BY <1>1
<1>2. ASSUME NEW v \in Vms, NEW j \in Objects,
             StartCheck(v, j) \/ Join(v, j) \/ Interrupt(v, j) \/ Unpark(v, j)
      PROVE  NoLostUnpark'
  BY <1>1, <1>2 DEF StartCheck, Join, Interrupt, Unpark, maps, locals, history, HandleTaken
<1>3. ASSUME NEW v \in Vms, StartPermit(v) \/ StartRecord(v) \/ JoinReturn(v) \/ Finish(v) \/ Park(v)
      PROVE  NoLostUnpark'
  BY <1>1, <1>3 DEF StartPermit, StartRecord, JoinReturn, Finish, Park, maps, locals, history
<1>9. ASSUME NEW v \in Vms, StartSpawn(v) PROVE NoLostUnpark'
  <2>1. pc[v] = "spawn" /\ pc[child[v]] = "free"
    BY <1>9 DEF StartSpawn, OwnInv, Owned
  <2>. QED  BY <1>1, <1>9, <2>1 DEF StartSpawn, maps, locals
<1>4. ASSUME NEW v \in Vms, PermitTest(v) PROVE NoLostUnpark'
  BY <1>4 DEF PermitTest, locals, Granted
<1>5. ASSUME NEW v \in Vms, SpuriousWakeup(v) PROVE NoLostUnpark'
  BY <1>5 DEF SpuriousWakeup, maps, locals
<1>6. ASSUME NEW v \in Vms, ParkTimeout(v) PROVE NoLostUnpark'
  BY <1>6 DEF ParkTimeout, locals
<1>7. ASSUME NEW v \in Vms, Grant(v) PROVE NoLostUnpark'
  <2>1. /\ pc[v] = "unpark" /\ permit' = permit \cup {arc[v]} /\ NotifyOne(arc[v])
        /\ pc' = [pc EXCEPT ![v] = "run"] /\ arc' = arc
    BY <1>7 DEF Grant, locals
  <2>. SUFFICES ASSUME NEW p \in permit', NEW s \in Sleepers(p)'
                PROVE  \E w \in notified' : pc'[w] = "parked" /\ arc'[w] = p
    OBVIOUS
  <2>2. s \in Sleepers(p) /\ s # v
    BY <2>1 DEF NotifyOne
  <2>3. CASE p = arc[v]
    BY <2>1, <2>2, <2>3 DEF NotifyOne
  <2>4. CASE p # arc[v]
    <3>1. PICK w \in notified : pc[w] = "parked" /\ arc[w] = p
      BY <2>1, <2>2, <2>4
    <3>2. w \in notified' /\ w # v
      BY <2>1, <3>1 DEF NotifyOne
    <3>. QED  BY <2>1, <3>1, <3>2
  <2>. QED  BY <2>3, <2>4
<1>8. CASE UNCHANGED vars
  BY <1>8 DEF vars, maps, locals
<1>. QED  BY <1>2, <1>3, <1>4, <1>5, <1>6, <1>7, <1>8, <1>9 DEF Next, Step, Advance

(* No lost unpark, whoever starts and parks: lock_support_park and          *)
(* lock_support_unpark, with wakeups that are spurious and waits that       *)
(* expire.                                                                  *)
THEOREM NoLostUnparkCorrect == Spec => []NoLostUnpark
<1>1. Init => NoLostUnpark
  BY DEF Init, NoLostUnpark
<1>. QED  BY <1>1, NoLostUnparkStep, OwnInvariant, PTL DEF Spec

-----------------------------------------------------------------------------
(* Programs in which one thread calls start().                              *)
OneStarter == \A v, w \in Starters : v = w

(* An object is started once: a start() that is between its sections is the *)
(* only one, and its object has no other child.                             *)
Once ==
  /\ \A v \in Vms : pc[v] \in {"permit", "spawn", "record"} => v \in Starters /\ ~ started[index[v]]
  /\ \A c \in Children : java_thread_ref[c] # None =>
       started[java_thread_ref[c]] \/ \E v \in Vms : pc[v] = "record" /\ child[v] = c
  /\ \A v \in Vms : pc[v] = "spawn" => parking[index[v]] # None
  /\ \A j \in Objects : interrupted[j] => started[j]

OnceInv == OwnInv /\ Once

(* A start() before it spawns has an object without a child.                *)
LEMMA Unspawned ==
  ASSUME OneStarter, OnceInv, NEW v \in Vms, pc[v] \in {"permit", "spawn"}
  PROVE  \A c \in Children : java_thread_ref[c] # index[v]
<1>. SUFFICES ASSUME NEW c \in Children, java_thread_ref[c] = index[v] PROVE FALSE
  OBVIOUS
<1>1. v \in Starters /\ ~ started[index[v]] /\ index[v] \in Objects /\ None \notin Objects
  BY JavaThreadsAssumption DEF OnceInv, Once, OwnInv, TypeInv, Looked
<1>2. PICK w \in Vms : pc[w] = "record"
  BY <1>1 DEF OnceInv, Once
<1>3. w \in Starters
  BY <1>2 DEF OnceInv, Once
<1>. QED  BY <1>1, <1>2, <1>3 DEF OneStarter

LEMMA OnceStep == OneStarter /\ OnceInv /\ [Next]_vars => Once'
<1>. SUFFICES ASSUME OneStarter, OnceInv, [Next]_vars PROVE Once'
  OBVIOUS
<1>0. /\ TypeOK /\ Owned /\ Looked /\ Once /\ None \notin Vms /\ None \notin Objects
      /\ Children \subseteq Vms
  BY JavaThreadsAssumption DEF OnceInv, OwnInv, TypeInv, Vms
<1>. USE <1>0 DEF TypeOK, Once, Goto
(* The steps that neither start a thread nor set a flag.                    *)
<1>1. ASSUME NEW v \in Vms, pc[v] \notin {"permit", "spawn", "record"},
             NEW l \in {"run", "join", "park", "parked", "unpark", "done"},
             pc' = pc \/ pc' = [pc EXCEPT ![v] = l],
             started' = started, interrupted' = interrupted, parking' = parking,
             java_thread_ref' = java_thread_ref,
             \A w \in Vms \ {v} : index'[w] = index[w] /\ child'[w] = child[w]
      PROVE  Once'
  <2>1. \A w \in Vms : pc[w] \in {"permit", "spawn", "record"} <=> pc'[w] \in {"permit", "spawn", "record"}
    BY <1>1
  <2>2. \A w \in Vms : w # v => pc'[w] = pc[w]
    BY <1>1
  <2>. QED  BY <1>1, <2>1, <2>2
<1>2. ASSUME NEW v \in Vms, NEW j \in Objects, StartCheck(v, j) PROVE Once'
  <2>1. /\ pc[v] = "run" /\ v \in Starters /\ ~ started[j]
        /\ pc' = [pc EXCEPT ![v] = "permit"] /\ index' = [index EXCEPT ![v] = j]
        /\ started' = started /\ interrupted' = interrupted /\ parking' = parking
        /\ java_thread_ref' = java_thread_ref
        /\ \A w \in Vms : w # v => child'[w] = child[w]
    BY <1>2 DEF StartCheck, Startable, maps
  <2>. QED  BY <2>1
<1>3. ASSUME NEW v \in Vms, StartPermit(v) PROVE Once'
  <2>1. /\ pc[v] = "permit" /\ index[v] \in Objects /\ child[v] \in Children
        /\ parking' = [parking EXCEPT ![index[v]] = child[v]]
        /\ pc' = [pc EXCEPT ![v] = "spawn"]
        /\ UNCHANGED <<started, interrupted, java_thread_ref, index, child>>
    BY <1>3 DEF StartPermit, PermitInserted, Looked, locals
  <2>2. \A w \in Vms : pc[w] = "spawn" => index[w] \in Objects
    BY DEF Looked
  <2>. QED  BY <2>1, <2>2
<1>4. ASSUME NEW v \in Vms, StartSpawn(v) PROVE Once'
  <2>1. /\ pc[v] = "spawn" /\ pc[child[v]] = "free" /\ child[v] \in Children /\ index[v] \in Objects
        /\ java_thread_ref' = [java_thread_ref EXCEPT ![child[v]] = index[v]]
        /\ pc' = [pc EXCEPT ![v] = "record", ![child[v]] = "run"]
        /\ UNCHANGED <<started, interrupted, parking, index, child>>
    BY <1>4 DEF StartSpawn, maps, locals, Looked, Owned
  <2>2. child[v] # v /\ pc'[v] = "record" /\ \A w \in Vms \ {v, child[v]} : pc'[w] = pc[w]
    BY <2>1
  <2>3. pc'[child[v]] = "run"
    BY <2>1, <2>2
  <2>. QED  BY <2>1, <2>2, <2>3
<1>5. ASSUME NEW v \in Vms, StartRecord(v) PROVE Once'
  <2>1. /\ pc[v] = "record" /\ v \in Starters /\ index[v] \in Objects /\ child[v] \in Children
        /\ java_thread_ref[child[v]] = index[v]
        /\ started' = [started EXCEPT ![index[v]] = TRUE]
        /\ interrupted' = [interrupted EXCEPT ![index[v]] = FALSE]
        /\ pc' = [pc EXCEPT ![v] = "run"]
        /\ UNCHANGED <<parking, java_thread_ref, index>>
    BY <1>5 DEF StartRecord, Looked, Owned
  <2>2. \A w \in Vms : pc'[w] \notin {"permit", "spawn", "record"}
    BY <2>1 DEF OneStarter
  <2>3. \A c \in Children : java_thread_ref[c] # None => started'[java_thread_ref[c]]
    <3>. SUFFICES ASSUME NEW c \in Children, java_thread_ref[c] # None PROVE started'[java_thread_ref[c]]
      OBVIOUS
    <3>1. CASE started[java_thread_ref[c]]
      BY <2>1, <3>1
    <3>2. ASSUME NEW w \in Vms, pc[w] = "record", child[w] = c PROVE started'[java_thread_ref[c]]
      <4>1. w = v
        BY <2>1, <3>2 DEF OneStarter
      <4>. QED  BY <2>1, <3>2, <4>1
    <3>. QED  BY <3>1, <3>2
  <2>4. \A j \in Objects : interrupted'[j] => started'[j]
    BY <2>1
  <2>. QED  BY <2>1, <2>2, <2>3, <2>4
<1>6. ASSUME NEW v \in Vms, NEW j \in Objects, Join(v, j) PROVE Once'
  BY <1>1, <1>6 DEF Join
<1>7. ASSUME NEW v \in Vms, NEW j \in Objects, Unpark(v, j) PROVE Once'
  BY <1>1, <1>7 DEF Unpark, maps
<1>8. ASSUME NEW v \in Vms, NEW j \in Objects, Interrupt(v, j) PROVE Once'
  BY <1>8 DEF Interrupt, Interrupted, locals
<1>9. ASSUME NEW v \in Vms, JoinReturn(v) \/ Finish(v) \/ Park(v) PROVE Once'
  BY <1>1, <1>9 DEF JoinReturn, Finish, Park, maps, locals
<1>10. ASSUME NEW v \in Vms, SpuriousWakeup(v) PROVE Once'
  BY <1>10 DEF SpuriousWakeup, maps, locals
<1>11. ASSUME NEW v \in Vms, PermitTest(v) PROVE Once'
  BY <1>1, <1>11 DEF PermitTest, locals
<1>12. ASSUME NEW v \in Vms, ParkTimeout(v) \/ Grant(v) PROVE Once'
  BY <1>1, <1>12 DEF ParkTimeout, Grant, locals
<1>13. CASE UNCHANGED vars
  BY <1>13 DEF vars, maps, locals
<1>. QED  BY <1>2, <1>3, <1>4, <1>5, <1>6, <1>7, <1>8, <1>9, <1>10, <1>11, <1>12, <1>13
          DEF Next, Step, Advance

LEMMA OnceInvariant == ASSUME OneStarter PROVE Spec => []OnceInv
<1>1. Init => Once
  BY JavaThreadsAssumption DEF Init, Once, Vms
<1>2. Init => OwnInv
  BY TypeInit, JavaThreadsAssumption DEF Init, OwnInv, Owned, Vms
<1>3. OnceInv /\ [Next]_vars => OnceInv'
  BY OnceStep, OwnedStep, TypeStep DEF OnceInv, OwnInv
<1>. QED  BY <1>1, <1>2, <1>3, PTL DEF Spec, OnceInv

(* Nothing clears an interrupt: start() could, and finds the flag down.     *)
THEOREM InterruptKeptCorrect == ASSUME OneStarter PROVE Spec => InterruptKept
<1>. DEFINE Keeps == \A j \in Objects : interrupted[j] => interrupted'[j]
<1>1. OnceInv /\ [Next]_vars => [Keeps]_vars
  <2>. SUFFICES ASSUME OnceInv, Next, NEW j \in Objects, interrupted[j] PROVE interrupted'[j]
    OBVIOUS
  <2>. PICK v \in Vms : Step(v)
    BY DEF Next
  <2>1. TypeOK /\ started[j] /\ interrupted \in [Objects -> BOOLEAN]
    BY DEF OnceInv, Once, OwnInv, TypeInv, TypeOK
  <2>2. CASE StartRecord(v)
    <3>1. ~ started[index[v]] /\ interrupted' = [interrupted EXCEPT ![index[v]] = FALSE]
      BY <2>2 DEF StartRecord, OnceInv, Once
    <3>. QED  BY <2>1, <3>1
  <2>3. ASSUME NEW k \in Objects, Interrupt(v, k) PROVE interrupted'[j]
    BY <2>1, <2>3 DEF Interrupt, Interrupted
  <2>4. interrupted' = interrupted \/ StartRecord(v) \/ \E k \in Objects : Interrupt(v, k)
    BY DEF Step, Advance, StartCheck, StartPermit, StartSpawn, Join, JoinReturn, Finish, Park, PermitTest,
           SpuriousWakeup, ParkTimeout, Unpark, Grant, maps
  <2>. QED  BY <2>2, <2>3, <2>4
<1>. QED  BY <1>1, OnceInvariant, PTL DEF Spec, InterruptKept

LEMMA SamePermitStep == OneStarter /\ OnceInv /\ SamePermit /\ [Next]_vars => SamePermit'
<1>. SUFFICES ASSUME OneStarter, OnceInv, SamePermit, [Next]_vars PROVE SamePermit'
  OBVIOUS
<1>0. /\ TypeOK /\ Owned /\ Looked /\ Once /\ None \notin Vms /\ None \notin Objects
      /\ Children \subseteq Vms
  BY JavaThreadsAssumption DEF OnceInv, OwnInv, TypeInv, Vms
<1>. USE <1>0 DEF TypeOK, SamePermit, Goto
(* The steps that neither make a permit nor look one up.                    *)
<1>1. ASSUME NEW v \in Vms, NEW l \in Phases, l \notin {"park", "parked"} \/ pc[v] \in {"park", "parked"},
             pc' = pc \/ pc' = [pc EXCEPT ![v] = l],
             parking' = parking, java_thread_ref' = java_thread_ref, arc' = arc
      PROVE  SamePermit'
  BY <1>1 DEF Phases
<1>2. ASSUME NEW v \in Vms, NEW j \in Objects, StartCheck(v, j) \/ Join(v, j) \/ Interrupt(v, j) PROVE SamePermit'
  <2>1. StartCheck(v, j) => SamePermit'
    BY <1>1 DEF StartCheck, maps, Phases
  <2>2. Join(v, j) => SamePermit'
    BY <1>1 DEF Join, Phases
  <2>3. Interrupt(v, j) => SamePermit'
    BY DEF Interrupt, locals
  <2>. QED  BY <1>2, <2>1, <2>2, <2>3
<1>3. ASSUME NEW v \in Vms, StartPermit(v) PROVE SamePermit'
  <2>1. \A c \in Children : java_thread_ref[c] # index[v]
    BY <1>3, Unspawned DEF StartPermit
  <2>2. /\ parking' = [parking EXCEPT ![index[v]] = child[v]]
        /\ pc' = [pc EXCEPT ![v] = "spawn"]
        /\ UNCHANGED <<java_thread_ref, arc>>
    BY <1>3 DEF StartPermit, PermitInserted, locals
  <2>3. \A c \in Children : java_thread_ref[c] # None => parking'[java_thread_ref[c]] = parking[java_thread_ref[c]]
    BY <2>1, <2>2
  <2>4. ASSUME NEW c \in Children, pc'[c] \in {"park", "parked"} PROVE arc[c] = parking'[java_thread_ref[c]]
    <3>1. c # v /\ pc[c] = pc'[c]
      BY <2>2, <2>4
    <3>2. arc[c] \in Children /\ arc[c] = parking[java_thread_ref[c]]
      BY <2>4, <3>1 DEF Looked
    <3>. QED  BY <2>1, <2>2, <3>2
  <2>. QED  BY <2>2, <2>3, <2>4
<1>4. ASSUME NEW v \in Vms, StartSpawn(v) PROVE SamePermit'
  <2>1. /\ pc[v] = "spawn" /\ child[v] \in Children /\ index[v] \in Objects
        /\ parking[index[v]] # None /\ pc[child[v]] = "free"
        /\ java_thread_ref' = [java_thread_ref EXCEPT ![child[v]] = index[v]]
        /\ pc' = [pc EXCEPT ![v] = "record", ![child[v]] = "run"]
        /\ UNCHANGED <<parking, arc>>
    BY <1>4 DEF StartSpawn, maps, locals, Looked, Once, Owned
  <2>2. child[v] # v /\ \A w \in Vms \ {v, child[v]} : pc'[w] = pc[w]
    BY <2>1
  <2>3. pc'[v] = "record" /\ pc'[child[v]] = "run"
    BY <2>1, <2>2
  <2>. QED  BY <2>1, <2>2, <2>3
<1>5. ASSUME NEW v \in Vms, StartRecord(v) \/ JoinReturn(v) \/ Finish(v) PROVE SamePermit'
  BY <1>1, <1>5 DEF StartRecord, JoinReturn, Finish, maps, locals, Phases
<1>6. ASSUME NEW v \in Vms, Park(v) PROVE SamePermit'
  BY <1>6 DEF Park, maps
<1>7. ASSUME NEW v \in Vms, PermitTest(v) PROVE SamePermit'
  BY <1>1, <1>7 DEF PermitTest, locals, Phases
<1>8. ASSUME NEW v \in Vms, SpuriousWakeup(v) PROVE SamePermit'
  BY <1>8 DEF SpuriousWakeup, maps, locals
<1>9. ASSUME NEW v \in Vms, ParkTimeout(v) \/ Grant(v) PROVE SamePermit'
  BY <1>1, <1>9 DEF ParkTimeout, Grant, locals, Phases
<1>10. ASSUME NEW v \in Vms, NEW j \in Objects, Unpark(v, j) PROVE SamePermit'
  BY <1>10 DEF Unpark, maps
<1>11. CASE UNCHANGED vars
  BY <1>11 DEF vars, maps, locals
<1>. QED  BY <1>2, <1>3, <1>4, <1>5, <1>6, <1>7, <1>8, <1>9, <1>10, <1>11 DEF Next, Step, Advance

(* Both sides of park() and unpark() use the permit start() made: it is     *)
(* there before the thread is, and no later start() replaces it.            *)
THEOREM SamePermitCorrect == ASSUME OneStarter PROVE Spec => []SamePermit
<1>1. Init => SamePermit
  BY JavaThreadsAssumption DEF Init, SamePermit, Vms
<1>2. OnceInv /\ SamePermit /\ [Next]_vars => SamePermit'
  BY SamePermitStep
<1>. QED  BY <1>1, <1>2, OnceInvariant, PTL DEF Spec

-----------------------------------------------------------------------------
(* The handle of a started thread is in the map, or a join() is waiting for *)
(* the thread, or the thread has ended.                                     *)
Accounted ==
  /\ \A c, d \in Children : java_thread_ref[c] # None /\ java_thread_ref[c] = java_thread_ref[d] => c = d
  /\ \A j \in start_returned : started[j]
  /\ joined \subseteq start_returned
  /\ \A c \in Children : java_thread_ref[c] \in start_returned =>
       \/ pc[c] = "done"
       \/ handle[java_thread_ref[c]] = c
       \/ \E v \in Vms : pc[v] = "join" /\ child[v] = c

JoinInv == OnceInv /\ Accounted /\ JoinWaits

LEMMA JoinStep == OneStarter /\ JoinInv /\ [Next]_vars => (Accounted /\ JoinWaits)'
<1>. SUFFICES ASSUME OneStarter, JoinInv, [Next]_vars PROVE (Accounted /\ JoinWaits)'
  OBVIOUS
<1>0. /\ TypeOK /\ Owned /\ Looked /\ Once /\ None \notin Vms /\ None \notin Objects
      /\ Children \subseteq Vms /\ Accounted /\ JoinWaits
  BY JavaThreadsAssumption DEF JoinInv, OnceInv, OwnInv, TypeInv, Vms
<1>. USE <1>0 DEF TypeOK, Accounted, JoinWaits, Runs, Goto
(* The steps that concern no handle.                                        *)
<1>1. ASSUME NEW v \in Vms, pc[v] \notin {"join", "done"}, NEW l \in Phases \ {"join"},
             pc' = pc \/ pc' = [pc EXCEPT ![v] = l],
             started' = started, handle' = handle, java_thread_ref' = java_thread_ref,
             start_returned' = start_returned, joined' = joined,
             \A w \in Vms \ {v} : child'[w] = child[w]
      PROVE  (Accounted /\ JoinWaits)'
  <2>1. \A w \in Vms : /\ pc'[w] = "join" <=> pc[w] = "join"
                       /\ pc[w] = "done" => pc'[w] = "done"
    BY <1>1
  <2>2. Accounted'
    BY <1>1, <2>1
  <2>3. JoinWaits'
    BY <1>1, <2>1
  <2>. QED  BY <2>2, <2>3
<1>2. ASSUME NEW v \in Vms, NEW j \in Objects, StartCheck(v, j) PROVE (Accounted /\ JoinWaits)'
  BY <1>1, <1>2 DEF StartCheck, maps, history, Phases
<1>3. ASSUME NEW v \in Vms, StartPermit(v) PROVE (Accounted /\ JoinWaits)'
  BY <1>1, <1>3 DEF StartPermit, locals, history, Phases
<1>4. ASSUME NEW v \in Vms, StartSpawn(v) PROVE (Accounted /\ JoinWaits)'
  <2>1. /\ pc[v] = "spawn" /\ child[v] \in Children /\ index[v] \in Objects /\ pc[child[v]] = "free"
        /\ ~ started[index[v]]
        /\ java_thread_ref' = [java_thread_ref EXCEPT ![child[v]] = index[v]]
        /\ pc' = [pc EXCEPT ![v] = "record", ![child[v]] = "run"]
        /\ UNCHANGED <<started, handle, child, start_returned, joined>>
    BY <1>4 DEF StartSpawn, maps, locals, history, Looked, Once, Owned
  <2>2. \A c \in Children : java_thread_ref[c] # index[v]
    BY <1>4, Unspawned DEF StartSpawn, JoinInv
  <2>3. child[v] # v /\ \A w \in Vms \ {v, child[v]} : pc'[w] = pc[w]
    BY <2>1
  <2>4. pc'[v] = "record" /\ pc'[child[v]] = "run"
    BY <2>1, <2>3
  <2>5. index[v] \notin start_returned /\ index[v] \notin joined
    BY <2>1
  <2>6. \A c \in Children : c # child[v] => java_thread_ref'[c] = java_thread_ref[c]
    BY <2>1
  <2>7. java_thread_ref'[child[v]] = index[v]
    BY <2>1
  <2>8. \A w \in Vms : /\ pc'[w] = "join" <=> pc[w] = "join"
                       /\ pc[w] = "done" => pc'[w] = "done"
    BY <2>1, <2>3, <2>4
  <2>9. \A c, d \in Children : java_thread_ref'[c] # None /\ java_thread_ref'[c] = java_thread_ref'[d] => c = d
    BY <2>2, <2>6, <2>7
  <2>10. \A c \in Children : java_thread_ref'[c] \in start_returned' =>
           \/ pc'[c] = "done"
           \/ handle'[java_thread_ref'[c]] = c
           \/ \E w \in Vms : pc'[w] = "join" /\ child'[w] = c
    BY <2>1, <2>5, <2>6, <2>7, <2>8
  <2>11. JoinWaits'
    BY <2>1, <2>5, <2>6, <2>7, <2>8
  <2>. QED  BY <2>1, <2>8, <2>9, <2>10, <2>11
<1>5. ASSUME NEW v \in Vms, StartRecord(v) PROVE (Accounted /\ JoinWaits)'
  <2>1. /\ pc[v] = "record" /\ index[v] \in Objects /\ child[v] \in Children /\ ~ started[index[v]]
        /\ java_thread_ref[child[v]] = index[v]
        /\ started' = [started EXCEPT ![index[v]] = TRUE]
        /\ handle' = [handle EXCEPT ![index[v]] = child[v]]
        /\ start_returned' = start_returned \cup {index[v]}
        /\ child' = [child EXCEPT ![v] = None]
        /\ pc' = [pc EXCEPT ![v] = "run"]
        /\ UNCHANGED <<java_thread_ref, joined>>
    BY <1>5 DEF StartRecord, Looked, Owned, Once
  <2>2. \A w \in Vms : /\ pc'[w] = "join" <=> pc[w] = "join"
                       /\ pc[w] = "done" => pc'[w] = "done"
                       /\ pc[w] = "join" => child'[w] = child[w]
    BY <2>1
  <2>3. \A c \in Children : java_thread_ref[c] \in start_returned' =>
          \/ pc'[c] = "done"
          \/ handle'[java_thread_ref[c]] = c
          \/ \E w \in Vms : pc'[w] = "join" /\ child'[w] = c
    <3>. SUFFICES ASSUME NEW c \in Children, java_thread_ref[c] \in start_returned'
                  PROVE  \/ pc'[c] = "done"
                         \/ handle'[java_thread_ref[c]] = c
                         \/ \E w \in Vms : pc'[w] = "join" /\ child'[w] = c
      OBVIOUS
    <3>1. CASE java_thread_ref[c] = index[v]
      BY <2>1, <3>1
    <3>2. CASE java_thread_ref[c] # index[v]
      BY <2>1, <2>2, <3>2
    <3>. QED  BY <3>1, <3>2
  <2>4. JoinWaits'
    BY <2>1, <2>2
  <2>5. \A j \in start_returned' : started'[j]
    BY <2>1
  <2>. QED  BY <2>1, <2>2, <2>3, <2>4, <2>5
<1>6. ASSUME NEW v \in Vms, NEW j \in Objects, Join(v, j) PROVE (Accounted /\ JoinWaits)'
  <2>1. /\ pc[v] = "run" /\ child[v] = None
        /\ UNCHANGED <<started, java_thread_ref, start_returned>>
    BY <1>6 DEF Join, Owned
  <2>2. CASE handle[j] = None /\ Waited(v, j) /\ UNCHANGED <<handle, pc, index, child>>
    <3>1. j \in start_returned => \A c \in Runs(j) :
            pc[c] = "done" \/ \E w \in Vms : pc[w] = "join" /\ child[w] = c
      BY <2>1, <2>2
    <3>2. JoinWaits'
      BY <2>1, <2>2, <3>1 DEF Waited
    <3>. QED  BY <2>1, <2>2, <3>2 DEF Waited
  <2>3. CASE /\ handle[j] # None /\ handle' = HandleTaken(j)
             /\ child' = [child EXCEPT ![v] = handle[j]]
             /\ pc' = [pc EXCEPT ![v] = "join"]
             /\ joined' = joined
    <3>1. /\ handle' = [handle EXCEPT ![j] = None] /\ pc'[v] = "join" /\ child'[v] = handle[j]
          /\ \A w \in Vms : /\ pc[w] = "join" => pc'[w] = "join" /\ child'[w] = child[w]
                            /\ pc[w] = "done" => pc'[w] = "done"
      BY <2>1, <2>3 DEF HandleTaken
    <3>2. \A c \in Children : java_thread_ref[c] \in start_returned =>
            \/ pc'[c] = "done"
            \/ handle'[java_thread_ref[c]] = c
            \/ \E w \in Vms : pc'[w] = "join" /\ child'[w] = c
      <4>. SUFFICES ASSUME NEW c \in Children, java_thread_ref[c] \in start_returned
                    PROVE  \/ pc'[c] = "done"
                           \/ handle'[java_thread_ref[c]] = c
                           \/ \E w \in Vms : pc'[w] = "join" /\ child'[w] = c
        OBVIOUS
      <4>1. CASE java_thread_ref[c] = j
        BY <2>1, <3>1, <4>1
      <4>2. CASE java_thread_ref[c] # j
        BY <2>1, <3>1, <4>2
      <4>. QED  BY <4>1, <4>2
    <3>3. JoinWaits'
      BY <2>1, <2>3, <3>1
    <3>. QED  BY <2>1, <2>3, <3>1, <3>2, <3>3
  <2>. QED  BY <1>6, <2>2, <2>3 DEF Join
<1>7. ASSUME NEW v \in Vms, JoinReturn(v) PROVE (Accounted /\ JoinWaits)'
  <2>1. /\ pc[v] = "join" /\ pc[child[v]] = "done" /\ child[v] \in Children /\ index[v] \in Objects
        /\ java_thread_ref[child[v]] = index[v]
        /\ Waited(v, index[v])
        /\ child' = [child EXCEPT ![v] = None]
        /\ pc' = [pc EXCEPT ![v] = "run"]
        /\ UNCHANGED <<started, handle, java_thread_ref, start_returned>>
    BY <1>7 DEF JoinReturn, Ended, maps, Looked, Owned
  <2>2. \A w \in Vms \ {v} : pc'[w] = pc[w] /\ child'[w] = child[w]
    BY <2>1
  <2>3. \A c \in Runs(index[v]) : c = child[v]
    BY <2>1
  <2>4. \A w \in Vms : pc[w] = "done" => pc'[w] = "done"
    BY <2>1, <2>2
  <2>5. JoinWaits'
    BY <2>1, <2>3, <2>4 DEF Waited
  <2>6. \A c \in Children : java_thread_ref[c] \in start_returned =>
          \/ pc'[c] = "done"
          \/ handle'[java_thread_ref[c]] = c
          \/ \E w \in Vms : pc'[w] = "join" /\ child'[w] = c
    BY <2>1, <2>2, <2>4
  <2>. QED  BY <2>1, <2>5, <2>6 DEF Waited
<1>8. ASSUME NEW v \in Vms, NEW j \in Objects, Interrupt(v, j) PROVE (Accounted /\ JoinWaits)'
  BY <1>8 DEF Interrupt, locals, history
<1>9. ASSUME NEW v \in Vms, Finish(v) \/ Park(v) PROVE (Accounted /\ JoinWaits)'
  BY <1>1, <1>9 DEF Finish, Park, maps, locals, history, Phases
<1>10. ASSUME NEW v \in Vms, SpuriousWakeup(v) PROVE (Accounted /\ JoinWaits)'
  BY <1>10 DEF SpuriousWakeup, maps, locals, history
<1>11. ASSUME NEW v \in Vms, PermitTest(v) PROVE (Accounted /\ JoinWaits)'
  BY <1>1, <1>11 DEF PermitTest, locals, history, Phases
<1>12. ASSUME NEW v \in Vms, ParkTimeout(v) \/ Grant(v) PROVE (Accounted /\ JoinWaits)'
  BY <1>1, <1>12 DEF ParkTimeout, Grant, locals, history, Phases
<1>13. ASSUME NEW v \in Vms, NEW j \in Objects, Unpark(v, j) PROVE (Accounted /\ JoinWaits)'
  BY <1>1, <1>13 DEF Unpark, maps, history, Phases
<1>14. CASE UNCHANGED vars
  BY <1>14 DEF vars, maps, locals, history
<1>. QED  BY <1>2, <1>3, <1>4, <1>5, <1>6, <1>7, <1>8, <1>9, <1>10, <1>11, <1>12, <1>13, <1>14
          DEF Next, Step, Advance

(* A join() called after start() has returned waits for the thread to end   *)
(* (join_java_thread), but for one that finds the handle taken by a join()  *)
(* that is still waiting.                                                   *)
THEOREM JoinWaitsCorrect == ASSUME OneStarter PROVE Spec => []JoinWaits
<1>1. Init => Accounted /\ JoinWaits
  BY JavaThreadsAssumption DEF Init, Accounted, JoinWaits, Runs, Vms
<1>2. Init /\ OnceInv => JoinInv
  BY <1>1 DEF JoinInv
<1>3. OnceInv' /\ JoinInv /\ [Next]_vars => JoinInv'
  BY JoinStep DEF JoinInv
<1>4. JoinInv => JoinWaits
  BY DEF JoinInv
<1>. QED  BY <1>2, <1>3, <1>4, OnceInvariant, PTL DEF Spec
=============================================================================
