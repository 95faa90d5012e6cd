--------------------------------- MODULE Heap ---------------------------------
(***************************************************************************)
(* The heap and its collector: Heap in src/src/vm/heap.rs.                 *)
(*                                                                         *)
(* A reference is the index of a slot of the vector `values`; an object is *)
(* the references in its fields.  Slots are handed out by bumping tlab_top *)
(* through a buffer at the end of the vector.  gc(roots) marks everything  *)
(* the roots reach and sweeps either the slots below survivor_end (minor)  *)
(* or all of them (major); a major collection also gives the free slots at *)
(* the end back, so their indices are used again.                          *)
(*                                                                         *)
(* `roots` are the references the program holds outside the heap: frames,  *)
(* static fields, the string pool.  It may load a field of an object it    *)
(* holds, store into it, drop a reference and call gc with all it holds,   *)
(* which is what the comment on gc asks of its caller.  The whole Heap is  *)
(* behind one mutex, so an operation is a step.                            *)
(***************************************************************************)
EXTENDS Integers, FiniteSets

CONSTANTS
  Fields,       (* the reference fields (or elements) of an object           *)
  Null,         (* Reference::Null                                           *)
  None,         (* an empty slot                                             *)
  TlabSize,     (* tlab_size, 256 in the code                                *)
  MaxSlots,     (* bound on values.len()                                     *)
  MaxAllocs,    (* bound on the allocations of a run                         *)
  MaxRoots      (* bound on the references held outside the heap             *)

ASSUME HeapAssumption ==
  /\ TlabSize \in Nat \ {0}
  /\ MaxSlots \in Nat
  /\ MaxAllocs \in Nat
  /\ MaxRoots \in Nat
  /\ Null \notin Nat

VARIABLES
  len,                (* values.len()                                        *)
  values,             (* the slots; those from len on are None               *)
  tlab_top,           (* the next slot to hand out                           *)
  tlab_limit,         (* the end of the buffer                               *)
  survivor_end,       (* the end of the region a minor collection sweeps     *)
  remembered_set,     (* (source, target) pairs noted by the write barrier   *)
  live_count,         (* live objects after the last collection              *)
  allocs_since_gc,
  total_allocations,  (* GcStats::total_allocations                          *)
  freed,              (* GcStats::freed                                      *)
  roots

tlab  == <<tlab_top, tlab_limit>>
stats == <<live_count, allocs_since_gc, total_allocations, freed>>
vars  == <<len, values, tlab, survivor_end, remembered_set, stats, roots>>

Slots == 0 .. MaxSlots - 1

Object == [Fields -> Slots \cup {Null}]

ASSUME NoneAssumption == None \notin Object

Occupied == {s \in Slots : values[s] # None}

Init ==
  /\ len = 0
  /\ values = [s \in Slots |-> None]
  /\ tlab_top = 0
  /\ tlab_limit = 0
  /\ survivor_end = 0
  /\ remembered_set = {}
  /\ live_count = 0
  /\ allocs_since_gc = 0
  /\ total_allocations = 0
  /\ freed = 0
  /\ roots = {}

-----------------------------------------------------------------------------
(* The references in the fields of the object in slot s.                    *)
Children(s) ==
  IF values[s] = None THEN {} ELSE {values[s][f] : f \in Fields} \ {Null}

(* The mark phase pops an index, marks it and pushes its children, until    *)
(* nothing is left: it marks the least set that holds its roots and the     *)
(* children of its members.                                                 *)
Closed(M) == \A s \in M : Children(s) \subseteq M

Mentioned(from) == from \cup UNION {Children(s) : s \in Slots}

Reach(from) ==
  {s \in Mentioned(from) :
     \A M \in SUBSET Mentioned(from) : from \subseteq M /\ Closed(M) => s \in M}

(* As in Monitors.tla, a definition named for a mistake is the faulty form  *)
(* of the next one and is never used.                                       *)
MarkRootsOnly(from) == from
MarkOneLevel(from) == from \cup UNION {Children(s) : s \in from}
Mark(from) == Reach(from)

(* Where allocate finds the next slot: in the buffer, or in a new one that  *)
(* refill_tlab appends to the vector.                                       *)
Exhausted == tlab_top >= tlab_limit

NextSlotFromStart == IF Exhausted THEN survivor_end ELSE tlab_top
NextSlot == IF Exhausted THEN len ELSE tlab_top

Allocate(object) ==
  LET slot == NextSlot IN
  /\ total_allocations < MaxAllocs
  /\ Cardinality(roots) < MaxRoots
  /\ Exhausted => len + TlabSize <= MaxSlots
  /\ len' = IF Exhausted THEN len + TlabSize ELSE len
  /\ tlab_limit' = IF Exhausted THEN len + TlabSize ELSE tlab_limit
  /\ tlab_top' = slot + 1
  /\ values' = [values EXCEPT ![slot] = object]
  /\ allocs_since_gc' = allocs_since_gc + 1
  /\ total_allocations' = total_allocations + 1
  /\ roots' = roots \cup {slot}
  /\ UNCHANGED <<survivor_end, remembered_set, live_count, freed>>

(* write_barrier, called before the store with a non-null value.            *)
BarrierOnEveryStore(source, target) ==
  IF source >= survivor_end THEN remembered_set \cup {<<source, target>>}
  ELSE remembered_set
Barrier(source, target) ==
  IF target # Null /\ source >= survivor_end /\ target < survivor_end
  THEN remembered_set \cup {<<source, target>>}
  ELSE remembered_set

(* set_object_field_from_declaring and store_reference_array_element.       *)
Store(s, f, v) ==
  /\ remembered_set' = Barrier(s, v)
  /\ values' = [values EXCEPT ![s][f] = v]
  /\ UNCHANGED <<len, tlab, survivor_end, stats, roots>>

(* The same with a field or an index that does not exist: the barrier has   *)
(* noted a store that does not happen.                                      *)
StoreFails(s, v) ==
  /\ remembered_set' = Barrier(s, v)
  /\ UNCHANGED <<len, values, tlab, survivor_end, stats, roots>>

(* VarHandle writes and System.arraycopy store without the barrier.         *)
StoreUnbarriered(s, f, v) ==
  /\ values' = [values EXCEPT ![s][f] = v]
  /\ UNCHANGED <<len, tlab, survivor_end, remembered_set, stats, roots>>

(* The program copies a reference out of an object, or forgets one.         *)
Load(s, f) ==
  /\ values[s] # None
  /\ values[s][f] # Null
  /\ Cardinality(roots) < MaxRoots
  /\ roots' = roots \cup {values[s][f]}
  /\ UNCHANGED <<len, values, tlab, survivor_end, remembered_set, stats>>

Drop(s) ==
  /\ roots' = roots \ {s}
  /\ UNCHANGED <<len, values, tlab, survivor_end, remembered_set, stats>>

-----------------------------------------------------------------------------
(* The objects the sweep of the first `end` slots frees.                    *)
GarbageOffByOne(marked, end) == {s \in Occupied \ marked : s + 1 < end}
Garbage(marked, end) == {s \in Occupied \ marked : s < end}

(* What both collections do with the counters, given the slots they free.   *)
CountFreedOnly(free) ==
  /\ freed' = freed + Cardinality(free)
  /\ live_count' = Cardinality(Occupied \ free)
  /\ UNCHANGED <<allocs_since_gc, total_allocations>>
CountFreed(free) ==
  /\ freed' = freed + Cardinality(free)
  /\ live_count' = Cardinality(Occupied \ free)
  /\ allocs_since_gc' = 0
  /\ UNCHANGED total_allocations

Sweep(free) == values' = [s \in Slots |-> IF s \in free THEN None ELSE values[s]]

IsMinor == len < survivor_end * 2

(* minor_gc_internal(rs) and the rest of gc: the buffer is reset twice, so  *)
(* the vector grows by two buffers of which the first is never used.        *)
MinorGc(rs) ==
  LET marked == Mark(rs \cup {p[2] : p \in remembered_set})
      free   == Garbage(marked, survivor_end) IN
  /\ IsMinor
  /\ len + 2 * TlabSize <= MaxSlots
  /\ remembered_set' = {}
  /\ Sweep(free)
  /\ CountFreed(free)
  /\ len' = len + 2 * TlabSize
  /\ tlab_top' = len + TlabSize
  /\ tlab_limit' = len + 2 * TlabSize
  /\ UNCHANGED <<survivor_end, roots>>

(* The length that is left when the empty slots at the end are popped.      *)
Trimmed(kept) ==
  CHOOSE n \in 0 .. len :
    /\ \A s \in kept : s < n
    /\ n > 0 => n - 1 \in kept

(* The young generation is everything that is left.                         *)
BoundaryBeforeTrim(end) == len
Boundary(end) == end

(* major_gc_internal(rs) and the rest of gc.  The remembered set stays.     *)
MajorGc(rs) ==
  LET free == Garbage(Mark(rs), len)
      kept == Occupied \ free
      end  == Trimmed(kept) IN
  /\ ~IsMinor
  /\ end + TlabSize <= MaxSlots
  /\ Sweep(free)
  /\ CountFreed(free)
  /\ survivor_end' = Boundary(end)
  /\ len' = end + TlabSize
  /\ tlab_top' = end
  /\ tlab_limit' = end + TlabSize
  /\ UNCHANGED <<remembered_set, roots>>

Gc(rs) == MinorGc(rs) \/ MajorGc(rs)

-----------------------------------------------------------------------------
Next ==
  \/ \E object \in [Fields -> roots \cup {Null}] : Allocate(object)
  \/ \E s \in roots, f \in Fields, v \in roots \cup {Null} : Store(s, f, v)
  \/ \E s \in roots, v \in roots : StoreFails(s, v)
  \/ \E s \in roots, f \in Fields, v \in roots \cup {Null} : StoreUnbarriered(s, f, v)
  \/ \E s \in roots, f \in Fields : Load(s, f)
  \/ \E s \in roots : Drop(s)
  \/ Gc(roots)

Spec == Init /\ [][Next]_vars

-----------------------------------------------------------------------------
TypeOK ==
  /\ len \in 0 .. MaxSlots
  /\ values \in [Slots -> Object \cup {None}]
  /\ tlab_top \in 0 .. MaxSlots
  /\ tlab_limit \in 0 .. MaxSlots
  /\ survivor_end \in 0 .. MaxSlots
  /\ remembered_set \subseteq Slots \X Slots
  /\ live_count \in Nat
  /\ allocs_since_gc \in Nat
  /\ total_allocations \in Nat
  /\ freed \in Nat
  /\ roots \subseteq Slots

(* No reference dangles: every slot the program can reach holds an object.  *)
(* A collection frees garbage only, although stores may bypass the barrier  *)
(* and although a minor collection forgets the remembered set.              *)
NoDangling == Reach(roots) \subseteq Occupied

(* The allocator never hands out a slot that holds an object: the buffer is *)
(* empty and lies inside the vector, after the region a collection has left *)
(* behind and after indices freed by a major collection.                    *)
TlabFree ==
  /\ tlab_limit <= len
  /\ \A s \in Slots : s >= len \/ (tlab_top <= s /\ s < tlab_limit) => values[s] = None

(* The mark loop indexes `marked` with every child it finds, unchecked:     *)
(* every reference in an object, reachable or not, is below values.len().   *)
ChildrenInRange ==
  \A s \in Occupied : \A c \in Children(s) : c < len

(* The three ways of counting live objects agree.                           *)
Accounting ==
  /\ Cardinality(Occupied) = live_count + allocs_since_gc
  /\ Cardinality(Occupied) = total_allocations - freed

(* survivor_end is at most the length, so that the sweep of a minor         *)
(* collection stays inside the vector, and the buffer is never below it.    *)
BoundariesOrdered ==
  survivor_end <= len /\ (tlab_limit > 0 => survivor_end <= tlab_top)

(* A collection that frees anything leaves every object the program can     *)
(* reach as it was, through however many others it is reached.              *)
GcKeepsReachable ==
  [][freed' # freed => \A s \in Reach(roots) : values'[s] = values[s]]_vars

(* A major collection, recognised by the boundary it moves or confirms,     *)
(* leaves nothing but what the roots reach.                                 *)
MajorCollectsAll ==
  [][MajorGc(roots) => Occupied' = Reach(roots)]_vars
===============================================================================
