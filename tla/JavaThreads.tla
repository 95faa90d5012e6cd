------------------------------ MODULE JavaThreads ------------------------------
(***************************************************************************)
(* java.lang.Thread and LockSupport: SharedThreads in                      *)
(* src/src/vm/thread.rs; start_java_thread, join_java_thread,              *)
(* spawn_invocation, lock_support_park and lock_support_unpark in          *)
(* src/src/vm/mod.rs; the natives of java/lang/Thread in                   *)
(* src/src/vm/builtin/invoke.rs.                                           *)
(*                                                                         *)
(* SharedThreads has two maps, `states` and `parking`, with a mutex each,  *)
(* and each parking permit has a mutex and a condition variable of its     *)
(* own.  A step is one critical section of one of them.                    *)
(***************************************************************************)
EXTENDS Naturals, FiniteSets

CONSTANTS
  Mains,     (* the VM threads that exist from the start                    *)
  Children,  (* the VM threads that start() can create; a bound             *)
  Objects,   (* the heap slots of the java.lang.Thread objects              *)
  None,      (* no entry, no handle, no java_thread_ref                     *)
  Starters,  (* the VM threads whose code calls start()                     *)
  Joiners    (* the VM threads whose code calls join()                      *)

Vms == Mains \cup Children

ASSUME JavaThreadsAssumption ==
  /\ Mains \cap Children = {}
  /\ None \notin Vms \cup Objects
  /\ IsFiniteSet(Vms)
  /\ Starters \subseteq Vms /\ Joiners \subseteq Vms

VARIABLES
  started, interrupted,  (* the fields of each JavaThreadState               *)
  handle,         (* JavaThreadState::handle: the VM thread it joins         *)
  parking,        (* the permit of each object, named for the child that     *)
                  (* start() made it for                                     *)
  permit,         (* the permits that are granted                            *)
  pc,             (* what each VM thread is doing, see Phases                *)
  java_thread_ref,
  index,          (* the object a call in progress is about                  *)
  child,          (* start(): the child being made; join(): the one joined   *)
  arc,            (* park() and unpark(): the permit looked up               *)
  notified,       (* the parked threads Condvar::notify_one has woken        *)
  start_returned, (* history: the objects some start() has returned for      *)
  joined          (* history: the objects some join() has returned for that  *)
                  (* was called after their start() had returned             *)

maps    == <<started, interrupted, handle, parking, permit>>
locals  == <<index, child, arc>>
history == <<start_returned, joined>>
vars    == <<maps, pc, java_thread_ref, locals, notified, history>>

(* "free": not spawned; "run": executing bytecode; "permit", "spawn" and    *)
(* "record": in start(); "join"; "park", "parked", "unpark"; "done".        *)
Phases == {"free", "run", "permit", "spawn", "record", "join",
           "park", "parked", "unpark", "done"}

Init ==
  /\ started = [j \in Objects |-> FALSE]
  /\ interrupted = [j \in Objects |-> FALSE]
  /\ handle = [j \in Objects |-> None]
  /\ parking = [j \in Objects |-> None]
  /\ permit = {}
  /\ pc = [v \in Vms |-> IF v \in Mains THEN "run" ELSE "free"]
  /\ java_thread_ref = [v \in Vms |-> None]
  /\ index = [v \in Vms |-> None]
  /\ child = [v \in Vms |-> None]
  /\ arc = [v \in Vms |-> None]
  /\ notified = {}
  /\ start_returned = {}
  /\ joined = {}

Goto(v, label) == pc' = [pc EXCEPT ![v] = label]

(* A definition named for a mistake (HandleLeft, EndedOrParked, ...) is      *)
(* the faulty form of the one after it; the specification never uses it.    *)

-----------------------------------------------------------------------------
(* Thread.start(), one section after the other.  The exception for an       *)
(* object that is already started changes nothing and is not a step; nor is *)
(* unpark() of a thread that has no permit.                                 *)
Startable(j) == ~started[j]

Reserved == {child[v] : v \in Vms} \cup {v \in Children : pc[v] # "free"}

StartCheck(v, j) ==
  /\ pc[v] = "run" /\ v \in Starters
  /\ Startable(j)
  /\ \E c \in Children \ Reserved : child' = [child EXCEPT ![v] = c]
  /\ index' = [index EXCEPT ![v] = j]
  /\ Goto(v, "permit")
  /\ UNCHANGED <<maps, java_thread_ref, arc, notified, history>>

(* The new permit replaces the one that is there.                           *)
PermitForgotten(v) == parking
PermitInserted(v) == [parking EXCEPT ![index[v]] = child[v]]

StartPermit(v) ==
  /\ pc[v] = "permit"
  /\ parking' = PermitInserted(v)
  /\ Goto(v, "spawn")
  /\ UNCHANGED <<started, interrupted, handle, permit, java_thread_ref, locals,
                 notified, history>>

StartSpawn(v) ==
  /\ pc[v] = "spawn"
  /\ java_thread_ref' = [java_thread_ref EXCEPT ![child[v]] = index[v]]
  /\ pc' = [pc EXCEPT ![v] = "record", ![child[v]] = "run"]
  /\ UNCHANGED <<maps, locals, notified, history>>

(* HashMap::insert: a state of its own, whatever was there.                 *)
StartRecord(v) ==
  LET j == index[v] IN
  /\ pc[v] = "record"
  /\ started' = [started EXCEPT ![j] = TRUE]
  /\ interrupted' = [interrupted EXCEPT ![j] = FALSE]
  /\ handle' = [handle EXCEPT ![j] = child[v]]
  /\ start_returned' = start_returned \cup {j}
  /\ child' = [child EXCEPT ![v] = None]
  /\ Goto(v, "run")
  /\ UNCHANGED <<parking, permit, java_thread_ref, index, arc, notified, joined>>

-----------------------------------------------------------------------------
(* Thread.join(): takes the handle, if it is still there, and joins it.     *)
Waited(v, j) == joined' = IF j \in start_returned THEN joined \cup {j} ELSE joined

HandleLeft(j) == handle
HandleTaken(j) == [handle EXCEPT ![j] = None]

Join(v, j) ==
  /\ pc[v] = "run" /\ v \in Joiners
  /\ \/ /\ handle[j] = None
        /\ Waited(v, j)
        /\ UNCHANGED <<handle, pc, index, child>>
     \/ /\ handle[j] # None
        /\ handle' = HandleTaken(j)
        /\ child' = [child EXCEPT ![v] = handle[j]]
        /\ index' = [index EXCEPT ![v] = j]
        /\ Goto(v, "join")
        /\ UNCHANGED joined
  /\ UNCHANGED <<started, interrupted, parking, permit, java_thread_ref, arc,
                 notified, start_returned>>

EndedOrParked(c) == pc[c] \in {"done", "parked"}
Ended(c) == pc[c] = "done"

JoinReturn(v) ==
  /\ pc[v] = "join"
  /\ Ended(child[v])
  /\ Waited(v, index[v])
  /\ child' = [child EXCEPT ![v] = None]
  /\ Goto(v, "run")
  /\ UNCHANGED <<maps, java_thread_ref, index, arc, notified, start_returned>>

(* Thread.interrupt(): get_mut(..).map(..), so nothing without an entry.    *)
InterruptToggles(j) == ~interrupted[j]
Interrupted(j) == TRUE

Interrupt(v, j) ==
  /\ pc[v] = "run"
  /\ started[j]
  /\ interrupted' = [interrupted EXCEPT ![j] = Interrupted(j)]
  /\ UNCHANGED <<started, handle, parking, permit, pc, java_thread_ref, locals,
                 notified, history>>

(* The closure of spawn_invocation returns: nothing touches the maps.       *)
Finish(v) ==
  /\ pc[v] = "run" /\ v \in Children
  /\ Goto(v, "done")
  /\ UNCHANGED <<maps, java_thread_ref, locals, notified, history>>

-----------------------------------------------------------------------------
(* LockSupport.park(): a thread that Thread.start() has not made, or whose  *)
(* permit is not in the map, returns at once.                               *)
Park(v) ==
  LET j == java_thread_ref[v] IN
  /\ pc[v] = "run"
  /\ j # None /\ parking[j] # None
  /\ arc' = [arc EXCEPT ![v] = parking[j]]
  /\ Goto(v, "park")
  /\ UNCHANGED <<maps, java_thread_ref, index, child, notified, history>>

(* Under the permit's mutex: consume the permit, or wait until there is one.*)
GrantedUnlessFirst(v) == pc[v] = "parked" /\ arc[v] \in permit
Granted(v) == arc[v] \in permit

PermitTest(v) ==
  /\ pc[v] = "park" \/ (pc[v] = "parked" /\ v \in notified)
  /\ \/ Granted(v) /\ permit' = permit \ {arc[v]} /\ Goto(v, "run")
     \/ ~Granted(v) /\ Goto(v, "parked") /\ UNCHANGED permit
  /\ notified' = notified \ {v}
  /\ UNCHANGED <<started, interrupted, handle, parking, java_thread_ref, locals, history>>

(* Condvar::wait may return by itself, and the wait of parkNanos expires;   *)
(* one that expires takes the permit along, if it has come meanwhile.       *)
SpuriousWakeup(v) ==
  /\ pc[v] = "parked"
  /\ notified' = notified \cup {v}
  /\ UNCHANGED <<maps, pc, java_thread_ref, locals, history>>

ParkTimeout(v) ==
  /\ pc[v] = "parked"
  /\ permit' = permit \ {arc[v]}
  /\ notified' = notified \ {v}
  /\ Goto(v, "run")
  /\ UNCHANGED <<started, interrupted, handle, parking, java_thread_ref, locals, history>>

Unpark(v, j) ==
  /\ pc[v] = "run"
  /\ parking[j] # None
  /\ arc' = [arc EXCEPT ![v] = parking[j]]
  /\ Goto(v, "unpark")
  /\ UNCHANGED <<maps, java_thread_ref, index, child, notified, history>>

Sleepers(p) == {v \in Vms : pc[v] = "parked" /\ v \notin notified /\ arc[v] = p}

NotifyOne(p) ==
  IF Sleepers(p) = {} THEN notified' = notified
  ELSE \E s \in Sleepers(p) : notified' = notified \cup {s}

Grant(v) ==
  /\ pc[v] = "unpark"
  /\ permit' = permit \cup {arc[v]}
  /\ NotifyOne(arc[v])
  /\ Goto(v, "run")
  /\ UNCHANGED <<started, interrupted, handle, parking, java_thread_ref, locals, history>>

-----------------------------------------------------------------------------
(* The steps a thread takes by itself, once in a call.                      *)
Advance(v) ==
  \/ StartPermit(v) \/ StartSpawn(v) \/ StartRecord(v)
  \/ JoinReturn(v) \/ PermitTest(v) \/ Grant(v)

Step(v) ==
  \/ Advance(v)
  \/ \E j \in Objects : StartCheck(v, j)
  \/ \E j \in Objects : Join(v, j)
  \/ \E j \in Objects : Interrupt(v, j)
  \/ \E j \in Objects : Unpark(v, j)
  \/ Park(v)
  \/ SpuriousWakeup(v)
  \/ ParkTimeout(v)
  \/ Finish(v)

Next == \E v \in Vms : Step(v)

Spec == Init /\ [][Next]_vars

-----------------------------------------------------------------------------
TypeOK ==
  /\ started \in [Objects -> BOOLEAN]
  /\ interrupted \in [Objects -> BOOLEAN]
  /\ handle \in [Objects -> Children \cup {None}]
  /\ parking \in [Objects -> Children \cup {None}]
  /\ permit \subseteq Children
  /\ pc \in [Vms -> Phases]
  /\ java_thread_ref \in [Vms -> Objects \cup {None}]
  /\ index \in [Vms -> Objects \cup {None}]
  /\ child \in [Vms -> Children \cup {None}]
  /\ arc \in [Vms -> Children \cup {None}]
  /\ notified \subseteq Vms
  /\ start_returned \subseteq Objects
  /\ joined \subseteq Objects

(* The VM threads that have been spawned for a java.lang.Thread object.     *)
Runs(j) == {v \in Children : java_thread_ref[v] = j}

(* A join() that follows start() returns only when the thread has ended, or *)
(* while another join() still waits for it: the handle is never lost to all *)
(* of them, whichever joiner takes it and however start() interleaves.      *)
JoinWaits ==
  \A j \in joined : \A v \in Runs(j) :
    pc[v] = "done" \/ \E w \in Vms : pc[w] = "join" /\ child[w] = v

(* A started thread always finds its permit, and it is the one unpark()     *)
(* grants: the two sides of park and unpark never use different permits.    *)
SamePermit ==
  \A v \in Children :
    /\ java_thread_ref[v] # None => parking[java_thread_ref[v]] # None
    /\ pc[v] \in {"park", "parked"} => arc[v] = parking[java_thread_ref[v]]

(* No lost unpark: nobody sleeps on a permit that has been granted, unless  *)
(* one of its sleepers has been woken and is about to take it.              *)
NoLostUnpark ==
  \A p \in permit :
    Sleepers(p) # {} =>
      \E v \in notified : pc[v] = "parked" /\ arc[v] = p

(* However many threads race for handle.take(), one thread at most joins a  *)
(* handle, and it waits for a thread that was started for its object.       *)
HandleNotShared ==
  /\ \A v, w \in Vms : pc[v] = "join" /\ pc[w] = "join" /\ child[v] = child[w] => v = w
  /\ \A v \in Vms : pc[v] = "join" => child[v] \in Runs(index[v])

(* interrupt() lasts: once isInterrupted() would answer true it keeps doing *)
(* so, for there is no call that clears the flag.                           *)
InterruptKept ==
  [][\A j \in Objects : interrupted[j] => interrupted'[j]]_vars
=============================================================================
