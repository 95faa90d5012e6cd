------------------------------ MODULE HeapProofs ------------------------------
(***************************************************************************)
(* Facts about the heap and its collector, for any object layout, buffer   *)
(* size and bounds: nothing the program can reach is freed or changed by a *)
(* collection, the allocator hands out empty slots only, and the counters  *)
(* agree with the slots.                                                   *)
(*                                                                         *)
(* The argument rests on one fact about marking: what the roots reach is   *)
(* the least set closed under the fields of its objects, so that any step  *)
(* is checked by naming a set that is closed after it.                     *)
(***************************************************************************)
EXTENDS Heap, FiniteSetTheorems, WellFoundedInduction, TLAPS

(* The program stays within the slots there are.                            *)
LEMMA SlotsFinite ==
  /\ IsFiniteSet(Slots) /\ Slots \subseteq Nat
  /\ \A S : S \subseteq Slots => IsFiniteSet(S) /\ Cardinality(S) \in Nat
<1>1. IsFiniteSet(Slots)
  BY FS_Interval, HeapAssumption DEF Slots
<1>2. \A S : S \subseteq Slots => IsFiniteSet(S) /\ Cardinality(S) \in Nat
  BY <1>1, FS_Subset, FS_CardinalityType
<1>. QED  BY <1>1, <1>2 DEF Slots

LEMMA ChildrenAreSlots ==
  ASSUME TypeOK
  PROVE  \A s \in Slots : Children(s) \subseteq Slots
BY DEF TypeOK, Children, Object

-----------------------------------------------------------------------------
(* Marking.                                                                 *)
LEMMA ReachHoldsRoots ==
  ASSUME NEW from
  PROVE  from \subseteq Reach(from)
BY DEF Reach, Mentioned

LEMMA ReachIsSlots ==
  ASSUME TypeOK, NEW from, from \subseteq Slots
  PROVE  Reach(from) \subseteq Slots
BY ChildrenAreSlots DEF Reach, Mentioned

LEMMA ReachIsClosed ==
  ASSUME TypeOK, NEW from, from \subseteq Slots
  PROVE  Closed(Reach(from))
<1>. SUFFICES ASSUME NEW s \in Reach(from), NEW c \in Children(s) PROVE c \in Reach(from)
  BY DEF Closed
<1>1. s \in Slots
  BY ReachIsSlots
<1>2. c \in Mentioned(from)
  BY <1>1 DEF Mentioned
<1>3. ASSUME NEW M \in SUBSET Mentioned(from), from \subseteq M, Closed(M) PROVE c \in M
  BY <1>3 DEF Reach, Closed
<1>. QED  BY <1>2, <1>3 DEF Reach

LEMMA ReachIsLeast ==
  ASSUME TypeOK, NEW from, from \subseteq Slots, NEW M, from \subseteq M, Closed(M)
  PROVE  Reach(from) \subseteq M
<1>. DEFINE N == M \cap Reach(from)
<1>1. from \subseteq N
  BY ReachHoldsRoots
<1>2. Closed(N)
  BY ReachIsClosed DEF Closed
<1>3. N \in SUBSET Mentioned(from)
  BY DEF Reach
<1>4. Reach(from) \subseteq N
  BY <1>1, <1>2, <1>3 DEF Reach
<1>. QED  BY <1>4

LEMMA ReachGrows ==
  ASSUME TypeOK, NEW few, NEW more, few \subseteq more, more \subseteq Slots
  PROVE  Reach(few) \subseteq Reach(more)
BY ReachHoldsRoots, ReachIsClosed, ReachIsLeast

-----------------------------------------------------------------------------
(* The inductive invariant: the properties and, for the boundaries and the  *)
(* slots a collection keeps, that no object lies beyond the length.         *)
HeapInv ==
  /\ TypeOK
  /\ NoDangling
  /\ TlabFree
  /\ ChildrenInRange
  /\ Accounting
  /\ BoundariesOrdered

LEMMA RootsOccupied == NoDangling => roots \subseteq Occupied
BY ReachHoldsRoots DEF NoDangling

LEMMA HeapInit == Init => HeapInv
<1>. SUFFICES ASSUME Init PROVE HeapInv
  OBVIOUS
<1>. USE DEF Init
<1>1. TypeOK
  BY HeapAssumption DEF TypeOK, Slots
<1>2. Occupied = {}
  BY DEF Occupied
<1>3. \A s \in Slots : Children(s) = {}
  BY DEF Children
<1>4. Reach(roots) = {}
  BY <1>3 DEF Reach, Mentioned
<1>5. Cardinality(Occupied) = 0
  BY <1>2, FS_EmptySet
<1>. QED  BY <1>1, <1>2, <1>4, <1>5 DEF HeapInv, NoDangling, TlabFree, ChildrenInRange, Accounting,
                                        BoundariesOrdered

Least ==
  TypeOK => \A from, M : from \subseteq Slots /\ from \subseteq M /\ Closed(M) => Reach(from) \subseteq M

LEMMA ReachLeast == Least
BY ReachIsLeast DEF Least

(* NoDangling is kept by a step after which some closed set of objects      *)
(* holds the roots.                                                         *)
LEMMA NoDanglingKept ==
  ASSUME TypeOK', NEW M, roots' \subseteq M, Closed(M)', M \subseteq Occupied'
  PROVE  NoDangling'
<1>1. roots' \subseteq Slots
  BY DEF TypeOK
<1>2. Least'
  BY ReachLeast, PTL
<1>3. Reach(roots)' \subseteq M
  BY <1>1, <1>2 DEF Least
<1>. QED  BY <1>3 DEF NoDangling

(* No Slots are gained or lost when only fields change.                     *)
LEMMA BarrierType ==
  ASSUME TypeOK, NEW s \in Slots, NEW v \in Slots \cup {Null}
  PROVE  Barrier(s, v) \subseteq Slots \X Slots
BY HeapAssumption DEF TypeOK, Barrier

(* A store, with or without the barrier: the object stays an object, and a  *)
(* new reference in it is one the program held.                             *)
LEMMA StoreStep ==
  ASSUME HeapInv, NEW s \in roots, NEW f \in Fields, NEW v \in roots \cup {Null},
         values' = [values EXCEPT ![s][f] = v],
         remembered_set' \subseteq Slots \X Slots,
         UNCHANGED <<len, tlab, survivor_end, stats, roots>>
  PROVE  HeapInv'
<1>. USE DEF HeapInv
<1>1. /\ s \in Slots /\ s \in Occupied /\ v \in Slots \cup {Null}
      /\ roots \subseteq Occupied /\ roots \subseteq Slots
  BY RootsOccupied DEF TypeOK
<1>2. values[s] \in Object
  BY <1>1 DEF TypeOK, Occupied
<1>3. [values[s] EXCEPT ![f] = v] \in Object
  BY <1>1, <1>2 DEF Object
<1>4. values' = [values EXCEPT ![s] = [values[s] EXCEPT ![f] = v]]
  OBVIOUS
<1>5. values' \in [Slots -> Object \cup {None}]
  BY <1>3, <1>4 DEF TypeOK
<1>6. TypeOK'
  BY <1>5 DEF TypeOK, tlab, stats
<1>7. Occupied' = Occupied
  BY <1>1, <1>3, <1>4, NoneAssumption DEF Occupied, TypeOK
<1>8. \A x \in Slots : x # s => Children(x)' = Children(x)
  BY <1>4 DEF Children, TypeOK
<1>9. Children(s)' \subseteq Children(s) \cup roots
  <2>1. values'[s] = [values[s] EXCEPT ![f] = v]
    BY <1>1, <1>4 DEF TypeOK
  <2>2. values[s] # None /\ values'[s] # None
    BY <1>2, <1>3, <2>1, NoneAssumption
  <2>3. Children(s)' = {values'[s][g] : g \in Fields} \ {Null}
    BY <2>2 DEF Children
  <2>4. Children(s) = {values[s][g] : g \in Fields} \ {Null}
    BY <2>2 DEF Children
  <2>5. \A g \in Fields : values'[s][g] = v \/ values'[s][g] = values[s][g]
    BY <1>2, <2>1 DEF Object
  <2>. QED  BY <2>3, <2>4, <2>5
<1>10. NoDangling'
  <2>1. Closed(Reach(roots)) /\ roots \subseteq Reach(roots) /\ Reach(roots) \subseteq Slots
    BY <1>1, ReachIsClosed, ReachHoldsRoots, ReachIsSlots
  <2>. DEFINE M == Reach(roots)
  <2>. HIDE DEF M
  <2>2. \A x \in M : \A c \in Children(x)' : c \in M
    BY <1>8, <1>9, <2>1 DEF Closed, M
  <2>3. M \subseteq Occupied' /\ roots' \subseteq M
    BY <1>7, <2>1 DEF NoDangling, M
  <2>. SUFFICES ASSUME NEW M1, M1 = M PROVE NoDangling'
    OBVIOUS
  <2>4. Closed(M1)'
    BY <2>2 DEF Closed
  <2>. QED  BY <1>6, <2>3, <2>4, NoDanglingKept
<1>11. TlabFree'
  <2>1. \A x \in Slots : values[x] = None => values'[x] = None
    BY <1>7 DEF Occupied
  <2>. QED  BY <2>1 DEF TlabFree, tlab
<1>12. ChildrenInRange'
  <2>1. \A r \in roots : r < len
    <3>1. \A r \in Slots : r >= len => values[r] = None
      BY DEF TlabFree
    <3>. QED  BY <1>1, <3>1, SlotsFinite DEF TypeOK, Occupied
  <2>2. \A x \in Occupied : x \in Slots
    BY DEF Occupied
  <2>. QED  BY <1>7, <1>8, <1>9, <2>1, <2>2 DEF ChildrenInRange
<1>13. Accounting' /\ BoundariesOrdered'
  BY <1>7 DEF Accounting, BoundariesOrdered, tlab, stats
<1>. QED  BY <1>6, <1>10, <1>11, <1>12, <1>13

(* The steps that change nothing but what the program holds: it forgets a   *)
(* reference or takes one out of an object it can reach.                    *)
LEMMA RootsStep ==
  ASSUME HeapInv, roots' \subseteq Reach(roots),
         remembered_set' \subseteq Slots \X Slots,
         UNCHANGED <<len, values, tlab, survivor_end, stats>>
  PROVE  HeapInv'
<1>. USE DEF HeapInv
<1>1. roots \subseteq Slots /\ Reach(roots) \subseteq Slots /\ Closed(Reach(roots))
  BY ReachIsClosed, ReachIsSlots DEF TypeOK
<1>2. TypeOK'
  BY <1>1 DEF TypeOK, tlab, stats
<1>3. Occupied' = Occupied /\ \A x : Children(x)' = Children(x)
  BY DEF Occupied, Children
<1>4. NoDangling'
  <2>. SUFFICES ASSUME NEW M, M = Reach(roots) PROVE NoDangling'
    OBVIOUS
  <2>1. Closed(M)'
    BY <1>1, <1>3 DEF Closed
  <2>2. roots' \subseteq M /\ M \subseteq Occupied'
    BY <1>3 DEF NoDangling
  <2>. QED  BY <1>2, <2>1, <2>2, NoDanglingKept
<1>. QED  BY <1>2, <1>3, <1>4 DEF TlabFree, ChildrenInRange, Accounting, BoundariesOrdered, tlab, stats

(* A new object goes to an empty slot, and refers to objects the program    *)
(* holds.                                                                   *)
LEMMA AllocateStep ==
  ASSUME HeapInv, NEW object \in [Fields -> roots \cup {Null}], Allocate(object)
  PROVE  HeapInv'
<1>. PICK slot : slot = NextSlot
  OBVIOUS
<1>. USE DEF HeapInv
<1>1. /\ len' = IF Exhausted THEN len + TlabSize ELSE len
      /\ tlab_limit' = IF Exhausted THEN len + TlabSize ELSE tlab_limit
      /\ tlab_top' = slot + 1
      /\ values' = [values EXCEPT ![slot] = object]
      /\ allocs_since_gc' = allocs_since_gc + 1
      /\ total_allocations' = total_allocations + 1
      /\ roots' = roots \cup {slot}
      /\ UNCHANGED <<survivor_end, remembered_set, live_count, freed>>
      /\ Exhausted => len + TlabSize <= MaxSlots
  BY DEF Allocate
<1>2. /\ slot \in Nat /\ slot < len' /\ len' \in 0 .. MaxSlots /\ len <= len' /\ slot < tlab_limit'
      /\ slot \in Slots /\ values[slot] = None /\ tlab_limit' \in 0 .. MaxSlots /\ tlab_limit' <= len'
      /\ survivor_end <= slot
      /\ \A s \in Slots : s >= len' \/ (slot + 1 <= s /\ s < tlab_limit') => values[s] = None /\ s # slot
  <2>1. TlabSize \in Nat \ {0} /\ MaxSlots \in Nat
    BY HeapAssumption
  <2>2. CASE Exhausted
    <3>1. slot = len /\ len' = len + TlabSize /\ tlab_limit' = len + TlabSize /\ len + TlabSize <= MaxSlots
      BY <1>1, <2>2 DEF NextSlot
    <3>2. \A s \in Slots : s >= len => values[s] = None
      BY DEF TlabFree
    <3>. QED  BY <2>1, <3>1, <3>2 DEF TypeOK, Slots, BoundariesOrdered
  <2>3. CASE ~ Exhausted
    <3>1. slot = tlab_top /\ len' = len /\ tlab_limit' = tlab_limit /\ tlab_top < tlab_limit
      BY <1>1, <2>3 DEF NextSlot, Exhausted, TypeOK
    <3>. QED  BY <2>1, <3>1 DEF TypeOK, Slots, TlabFree, BoundariesOrdered
  <2>. QED  BY <2>2, <2>3
<1>3. roots \subseteq Occupied /\ roots \subseteq Slots /\ slot \notin Occupied /\ object \in Object
  BY <1>2, RootsOccupied DEF Occupied, TypeOK, Object
<1>4. TypeOK'
  <2>1. values' \in [Slots -> Object \cup {None}]
    BY <1>1, <1>2, <1>3 DEF TypeOK
  <2>2. tlab_top' \in 0 .. MaxSlots
    BY <1>1, <1>2, HeapAssumption
  <2>3. allocs_since_gc' \in Nat /\ total_allocations' \in Nat /\ roots' \subseteq Slots
    BY <1>1, <1>2, <1>3 DEF TypeOK
  <2>. QED  BY <1>1, <1>2, <2>1, <2>2, <2>3 DEF TypeOK
<1>5. Occupied' = Occupied \cup {slot}
  BY <1>1, <1>2, <1>3, NoneAssumption DEF Occupied, TypeOK
<1>6. /\ \A x \in Slots : x # slot => Children(x)' = Children(x)
      /\ Children(slot)' \subseteq roots
  <2>1. values'[slot] = object
    BY <1>1, <1>2 DEF TypeOK
  <2>2. object # None /\ object \in [Fields -> roots \cup {Null}] /\ \A f \in Fields : object[f] \in roots \cup {Null}
    BY <1>3, NoneAssumption
  <2>3. \A x \in Slots : x # slot => values'[x] = values[x]
    BY <1>1 DEF TypeOK
  <2>4. Children(slot)' = {object[f] : f \in Fields} \ {Null}
    BY <2>1, <2>2 DEF Children
  <2>5. Children(slot)' \subseteq roots
    BY <2>2, <2>4
  <2>. QED  BY <2>3, <2>5 DEF Children
<1>7. NoDangling'
  <2>. SUFFICES ASSUME NEW M, M = Reach(roots) \cup {slot} PROVE NoDangling'
    OBVIOUS
  <2>1. Closed(Reach(roots)) /\ roots \subseteq Reach(roots) /\ Reach(roots) \subseteq Slots
    BY <1>3, ReachIsClosed, ReachHoldsRoots, ReachIsSlots
  <2>2. Closed(M)'
    <3>. SUFFICES ASSUME NEW x \in M PROVE Children(x)' \subseteq M
      BY DEF Closed
    <3>1. CASE x = slot
      BY <1>6, <2>1, <3>1
    <3>2. CASE x # slot
      <4>1. x \in Reach(roots) /\ x \in Slots
        BY <2>1, <3>2
      <4>. QED  BY <1>6, <2>1, <3>2, <4>1 DEF Closed
    <3>. QED  BY <3>1, <3>2
  <2>3. roots' \subseteq M /\ M \subseteq Occupied'
    BY <1>1, <1>5, <2>1 DEF NoDangling
  <2>. QED  BY <1>4, <2>2, <2>3, NoDanglingKept
<1>8. TlabFree'
  BY <1>1, <1>2 DEF TlabFree, TypeOK
<1>9. ChildrenInRange'
  <2>1. \A r \in roots : r < len
    <3>1. \A r \in Slots : r >= len => values[r] = None
      BY DEF TlabFree
    <3>. QED  BY <1>3, <3>1, SlotsFinite DEF TypeOK, Occupied
  <2>2. \A x \in Occupied : \A c \in Children(x)' : c \in Slots /\ c < len
    BY <1>3, <1>6, ChildrenAreSlots DEF ChildrenInRange, Occupied
  <2>3. \A c \in Children(slot)' : c \in Slots /\ c < len
    BY <1>3, <1>6, <2>1
  <2>4. len \in Nat /\ len' \in Nat
    BY <1>2 DEF TypeOK
  <2>5. \A c \in Slots : c < len => c < len'
    BY <1>2, <2>4, SlotsFinite
  <2>. QED  BY <1>5, <2>2, <2>3, <2>5 DEF ChildrenInRange
<1>10. Accounting'
  <2>1. IsFiniteSet(Occupied) /\ Cardinality(Occupied) \in Nat
    BY SlotsFinite DEF Occupied
  <2>2. Cardinality(Occupied') = Cardinality(Occupied) + 1
    BY <1>3, <1>5, <2>1, FS_AddElement
  <2>. QED  BY <1>1, <2>1, <2>2 DEF Accounting, TypeOK
<1>11. BoundariesOrdered'
  BY <1>1, <1>2 DEF BoundariesOrdered, TypeOK
<1>. QED  BY <1>4, <1>7, <1>8, <1>9, <1>10, <1>11

-----------------------------------------------------------------------------
(* What both collections have in common: they free objects the program      *)
(* cannot reach and count them.                                             *)
LEMMA SweepStep ==
  ASSUME HeapInv, NEW free, free \subseteq Occupied \ Reach(roots), Sweep(free), CountFreed(free),
         len' \in 0 .. MaxSlots, tlab_top' \in 0 .. MaxSlots, tlab_limit' \in 0 .. MaxSlots,
         survivor_end' \in 0 .. MaxSlots, remembered_set' \subseteq remembered_set, roots' = roots
  PROVE  /\ TypeOK' /\ NoDangling' /\ Accounting'
         /\ Occupied' = Occupied \ free
         /\ \A s \in Slots \ free : values'[s] = values[s] /\ Children(s)' = Children(s)
<1>. USE DEF HeapInv
<1>1. /\ \A s \in Slots : values'[s] = IF s \in free THEN None ELSE values[s]
      /\ values' \in [Slots -> Object \cup {None}]
      /\ free \subseteq Occupied
  BY DEF Sweep, TypeOK
<1>2. Occupied' = Occupied \ free
  BY <1>1 DEF Occupied
<1>3. \A s \in Slots \ free : values'[s] = values[s] /\ Children(s)' = Children(s)
  BY <1>1 DEF Children
<1>4. /\ IsFiniteSet(Occupied) /\ IsFiniteSet(free)
      /\ Cardinality(Occupied) \in Nat /\ Cardinality(free) \in Nat
      /\ Cardinality(Occupied \ free) \in Nat
      /\ Cardinality(Occupied \ free) = Cardinality(Occupied) - Cardinality(free)
  <2>1. Occupied \subseteq Slots /\ free \subseteq Slots /\ Occupied \ free \subseteq Slots
    BY <1>1 DEF Occupied
  <2>2. Occupied \cap free = free
    BY <1>1
  <2>. QED  BY <2>1, <2>2, SlotsFinite, FS_Difference
<1>5. /\ freed' = freed + Cardinality(free)
      /\ live_count' = Cardinality(Occupied \ free)
      /\ allocs_since_gc' = 0
      /\ total_allocations' = total_allocations
  BY DEF CountFreed
<1>6. TypeOK'
  BY <1>1, <1>4, <1>5 DEF TypeOK
<1>7. Accounting'
  BY <1>2, <1>4, <1>5 DEF Accounting, TypeOK
<1>8. NoDangling'
  <2>. PICK M : M = Reach(roots)
    OBVIOUS
  <2>1. Closed(M) /\ roots \subseteq M /\ M \subseteq Slots /\ M \subseteq Occupied
    BY ReachIsClosed, ReachHoldsRoots, ReachIsSlots DEF NoDangling, TypeOK
  <2>2. Closed(M)'
    BY <1>3, <2>1 DEF Closed
  <2>3. M \subseteq Occupied'
    BY <1>2, <2>1
  <2>. QED  BY <1>6, <2>1, <2>2, <2>3, NoDanglingKept
<1>. QED  BY <1>2, <1>3, <1>6, <1>7, <1>8

(* A minor collection marks from the remembered set too.                    *)
LEMMA MinorGcStep ==
  ASSUME HeapInv, MinorGc(roots)
  PROVE  /\ HeapInv'
         /\ \A s \in Reach(roots) : values'[s] = values[s]
<1>. DEFINE targets == {p[2] : p \in remembered_set}
<1>. PICK free : free = Garbage(Mark(roots \cup targets), survivor_end)
  OBVIOUS
<1>. USE DEF HeapInv
<1>1. /\ len + 2 * TlabSize <= MaxSlots
      /\ remembered_set' = {} /\ Sweep(free) /\ CountFreed(free)
      /\ len' = len + 2 * TlabSize
      /\ tlab_top' = len + TlabSize
      /\ tlab_limit' = len + 2 * TlabSize
      /\ survivor_end' = survivor_end /\ roots' = roots
  BY DEF MinorGc
<1>2. /\ TlabSize \in Nat \ {0} /\ MaxSlots \in Nat
      /\ len \in 0 .. MaxSlots /\ survivor_end \in 0 .. MaxSlots /\ survivor_end <= len
  BY HeapAssumption DEF TypeOK, BoundariesOrdered
<1>3. free \subseteq Occupied \ Reach(roots)
  <2>1. targets \subseteq Slots /\ roots \subseteq Slots
    BY DEF TypeOK
  <2>2. Reach(roots) \subseteq Mark(roots \cup targets)
    BY <2>1, ReachGrows DEF Mark
  <2>. QED  BY <2>2 DEF Garbage
<1>4. /\ TypeOK' /\ NoDangling' /\ Accounting'
      /\ Occupied' = Occupied \ free
      /\ \A s \in Slots \ free : values'[s] = values[s] /\ Children(s)' = Children(s)
  <2>1. /\ len' \in 0 .. MaxSlots /\ tlab_top' \in 0 .. MaxSlots /\ tlab_limit' \in 0 .. MaxSlots
        /\ survivor_end' \in 0 .. MaxSlots
    BY <1>1, <1>2
  <2>2. remembered_set' \subseteq remembered_set
    BY <1>1
  <2>. QED  BY <1>1, <1>3, <2>1, <2>2, SweepStep
<1>5. \A s \in Slots : values[s] = None => values'[s] = None
  BY <1>4 DEF Occupied
<1>6. TlabFree'
  <2>1. \A s \in Slots : s >= len => values[s] = None
    BY DEF TlabFree
  <2>2. \A s \in Slots : s >= len' \/ (tlab_top' <= s /\ s < tlab_limit') => s >= len
    BY <1>1, <1>2, SlotsFinite
  <2>. QED  BY <1>1, <1>2, <1>5, <2>1, <2>2 DEF TlabFree
<1>7. ChildrenInRange'
  <2>1. \A s \in Occupied' : s \in Slots \ free /\ s \in Occupied /\ Children(s)' = Children(s)
    BY <1>4 DEF Occupied
  <2>2. \A s \in Occupied : Children(s) \subseteq Slots
    BY ChildrenAreSlots DEF Occupied
  <2>3. \A c \in Slots : c < len => c < len'
    BY <1>1, <1>2, SlotsFinite
  <2>. QED  BY <2>1, <2>2, <2>3 DEF ChildrenInRange
<1>8. BoundariesOrdered'
  BY <1>1, <1>2 DEF BoundariesOrdered
<1>9. \A s \in Reach(roots) : s \in Slots \ free
  BY <1>3, ReachIsSlots DEF TypeOK
<1>. QED  BY <1>4, <1>6, <1>7, <1>8, <1>9

(* Popping the empty slots ends one past the last object.                   *)
LEMMA TrimmedEnds ==
  ASSUME TypeOK, NEW kept, kept \subseteq Slots, \A s \in kept : s < len
  PROVE  /\ Trimmed(kept) \in 0 .. len
         /\ \A s \in kept : s < Trimmed(kept)
<1>. DEFINE Ends(n) == (\A s \in kept : s < n) /\ (n > 0 => n - 1 \in kept)
            above == {n \in 0 .. len : \A s \in kept : s < n}
<1>1. len \in Nat /\ kept \subseteq Nat
  BY SlotsFinite DEF TypeOK
<1>2. above \subseteq Nat /\ len \in above
  BY <1>1
<1>3. \E n \in above : \A m \in above : ~ (<<m, n>> \in OpToRel(<, Nat))
  BY <1>2, NatLessThanWellFounded, WFMin
<1>4. PICK n \in above : \A m \in above : ~ (m < n)
  BY <1>2, <1>3 DEF OpToRel
<1>5. n \in 0 .. len /\ Ends(n)
  <2>1. ASSUME n > 0, n - 1 \notin kept PROVE FALSE
    <3>1. n - 1 \in 0 .. len
      BY <1>1, <2>1
    <3>2. \A s \in kept : s < n - 1
      BY <1>1, <2>1
    <3>. QED  BY <1>4, <3>1, <3>2
  <2>. QED  BY <2>1
<1>. QED  BY <1>5 DEF Trimmed

(* A major collection keeps what the program can reach and no more.         *)
LEMMA MajorGcStep ==
  ASSUME HeapInv, MajorGc(roots)
  PROVE  /\ HeapInv'
         /\ Occupied' = Reach(roots)
         /\ \A s \in Reach(roots) : values'[s] = values[s]
<1>. PICK free : free = Garbage(Mark(roots), len)
  OBVIOUS
<1>. PICK end : end = Trimmed(Occupied \ free)
  OBVIOUS
<1>. USE DEF HeapInv
<1>1. /\ end + TlabSize <= MaxSlots
      /\ Sweep(free) /\ CountFreed(free)
      /\ survivor_end' = end
      /\ len' = end + TlabSize
      /\ tlab_top' = end
      /\ tlab_limit' = end + TlabSize
      /\ remembered_set' = remembered_set /\ roots' = roots
  BY DEF MajorGc, Boundary
<1>2. free = Occupied \ Reach(roots)
  <2>1. \A s \in Occupied : s < len
    BY SlotsFinite DEF TlabFree, Occupied, TypeOK
  <2>. QED  BY <2>1 DEF Garbage, Mark
<1>3. Occupied \ free = Reach(roots) /\ Reach(roots) \subseteq Slots
  BY <1>2 DEF NoDangling, Occupied
<1>4. end \in 0 .. len /\ \A s \in Reach(roots) : s < end
  <2>1. \A s \in Occupied : s < len
    BY SlotsFinite DEF TlabFree, Occupied, TypeOK
  <2>2. Occupied \ free \subseteq Slots
    BY DEF Occupied
  <2>. QED  BY <1>3, <2>1, <2>2, TrimmedEnds
<1>5. TlabSize \in Nat \ {0} /\ MaxSlots \in Nat /\ len \in 0 .. MaxSlots
  BY HeapAssumption DEF TypeOK
<1>6. end \in Nat /\ end \in 0 .. MaxSlots /\ end + TlabSize \in 0 .. MaxSlots
  BY <1>1, <1>4, <1>5
<1>7. /\ TypeOK' /\ NoDangling' /\ Accounting'
      /\ Occupied' = Occupied \ free
      /\ \A s \in Slots \ free : values'[s] = values[s] /\ Children(s)' = Children(s)
  BY <1>1, <1>2, <1>6, SweepStep
<1>8. TlabFree'
  <2>. SUFFICES ASSUME NEW s \in Slots, s >= len' \/ (tlab_top' <= s /\ s < tlab_limit')
                PROVE  values'[s] = None
    BY <1>1, <1>5, <1>6 DEF TlabFree
  <2>1. s \in Nat
    BY SlotsFinite
  <2>2. ~ (s < end)
    BY <1>1, <1>5, <1>6, <2>1
  <2>3. s \notin Occupied'
    BY <1>3, <1>4, <1>7, <2>2
  <2>. QED  BY <2>3 DEF Occupied
<1>9. ChildrenInRange'
  <2>1. Closed(Reach(roots))
    BY ReachIsClosed DEF TypeOK
  <2>2. \A s \in Occupied' : Children(s)' \subseteq Reach(roots)
    BY <1>3, <1>7, <2>1 DEF Closed
  <2>3. ASSUME NEW s \in Reach(roots) PROVE s < len'
    <3>1. s \in Nat /\ s < end
      BY <1>3, <1>4, SlotsFinite
    <3>. QED  BY <1>1, <1>5, <1>6, <3>1
  <2>. QED  BY <2>2, <2>3 DEF ChildrenInRange
<1>10. BoundariesOrdered'
  BY <1>1, <1>5, <1>6 DEF BoundariesOrdered
<1>11. \A s \in Reach(roots) : s \in Slots \ free
  BY <1>2, <1>3
<1>. QED  BY <1>3, <1>7, <1>8, <1>9, <1>10, <1>11

-----------------------------------------------------------------------------
LEMMA HeapStep == HeapInv /\ [Next]_vars => HeapInv'
<1>. SUFFICES ASSUME HeapInv, [Next]_vars PROVE HeapInv'
  OBVIOUS
<1>1. roots \subseteq Slots /\ roots \subseteq Reach(roots) /\ remembered_set \subseteq Slots \X Slots
  BY ReachHoldsRoots DEF HeapInv, TypeOK
<1>2. ASSUME NEW object \in [Fields -> roots \cup {Null}], Allocate(object) PROVE HeapInv'
  BY <1>2, AllocateStep
<1>3. ASSUME NEW s \in roots, NEW f \in Fields, NEW v \in roots \cup {Null}, Store(s, f, v) PROVE HeapInv'
  <2>1. Barrier(s, v) \subseteq Slots \X Slots
    BY <1>1, BarrierType DEF HeapInv
  <2>. QED  BY <1>3, <2>1, StoreStep DEF Store
<1>4. ASSUME NEW s \in roots, NEW v \in roots, StoreFails(s, v) PROVE HeapInv'
  <2>1. Barrier(s, v) \subseteq Slots \X Slots
    BY <1>1, BarrierType DEF HeapInv
  <2>. QED  BY <1>1, <1>4, <2>1, RootsStep DEF StoreFails
<1>5. ASSUME NEW s \in roots, NEW f \in Fields, NEW v \in roots \cup {Null}, StoreUnbarriered(s, f, v)
      PROVE  HeapInv'
  BY <1>1, <1>5, StoreStep DEF StoreUnbarriered
<1>6. ASSUME NEW s \in roots, NEW f \in Fields, Load(s, f) PROVE HeapInv'
  <2>1. values[s][f] \in Children(s)
    BY <1>6 DEF Load, Children
  <2>2. values[s][f] \in Reach(roots)
    BY <1>1, <2>1, ReachIsClosed DEF Closed, HeapInv
  <2>. QED  BY <1>1, <1>6, <2>2, RootsStep DEF Load
<1>7. ASSUME NEW s \in roots, Drop(s) PROVE HeapInv'
  BY <1>1, <1>7, RootsStep DEF Drop
<1>8. ASSUME Gc(roots) PROVE HeapInv'
  BY <1>8, MinorGcStep, MajorGcStep DEF Gc
<1>9. CASE UNCHANGED vars
  BY <1>1, <1>9, RootsStep DEF vars
<1>. QED  BY <1>2, <1>3, <1>4, <1>5, <1>6, <1>7, <1>8, <1>9 DEF Next

LEMMA HeapInvariant == Spec => []HeapInv
BY HeapInit, HeapStep, PTL DEF Spec

(* The heap keeps its type.                                                 *)
THEOREM TypeCorrect == Spec => []TypeOK
BY HeapInvariant, PTL DEF HeapInv

(* No reference the program can reach dangles, whatever is collected when,  *)
(* and with stores that bypass the barrier (Heap::gc, write_barrier).       *)
THEOREM NoDanglingCorrect == Spec => []NoDangling
BY HeapInvariant, PTL DEF HeapInv

(* The allocation buffer is empty and lies inside the vector (allocate,     *)
(* refill_tlab and the end of gc).                                          *)
THEOREM TlabFreeCorrect == Spec => []TlabFree
BY HeapInvariant, PTL DEF HeapInv

(* The mark loop never indexes its bitmap out of range (mark in gc).        *)
THEOREM ChildrenInRangeCorrect == Spec => []ChildrenInRange
BY HeapInvariant, PTL DEF HeapInv

(* The three counts of live objects agree (GcStats and live_count).         *)
THEOREM AccountingCorrect == Spec => []Accounting
BY HeapInvariant, PTL DEF HeapInv

(* The young generation ends inside the vector and below the buffer.        *)
THEOREM BoundariesOrderedCorrect == Spec => []BoundariesOrdered
BY HeapInvariant, PTL DEF HeapInv

(* A collection changes no object the program can reach.                    *)
THEOREM GcKeepsReachableCorrect == Spec => GcKeepsReachable
<1>. DEFINE Keeps == freed' # freed => \A s \in Reach(roots) : values'[s] = values[s]
<1>1. HeapInv /\ [Next]_vars => [Keeps]_vars
  <2>. SUFFICES ASSUME HeapInv, Next, freed' # freed PROVE \A s \in Reach(roots) : values'[s] = values[s]
    BY DEF vars, stats
  <2>1. Gc(roots)
    BY DEF Next, Allocate, Store, StoreFails, StoreUnbarriered, Load, Drop, stats
  <2>. QED  BY <2>1, MinorGcStep, MajorGcStep DEF Gc
<1>. QED  BY <1>1, HeapInvariant, PTL DEF Spec, GcKeepsReachable

(* A major collection leaves nothing but what the roots reach.              *)
THEOREM MajorCollectsAllCorrect == Spec => MajorCollectsAll
<1>1. HeapInv => (MajorGc(roots) => Occupied' = Reach(roots))
  BY MajorGcStep
<1>2. HeapInv /\ [Next]_vars => [MajorGc(roots) => Occupied' = Reach(roots)]_vars
  BY <1>1
<1>. QED  BY <1>2, HeapInvariant, PTL DEF Spec, MajorCollectsAll
=============================================================================
