------------------------------- MODULE Interning -------------------------------
(***************************************************************************)
(* The string pool: Vm::intern_string in src/src/vm/mod.rs, which resolves *)
(* the string constants of a class being registered, and the native of     *)
(* java/lang/String.intern in src/src/vm/builtin/invoke.rs.                *)
(*                                                                         *)
(* The heap and the pool have a mutex each.  intern_string looks up,       *)
(* allocates and inserts in three critical sections; the native looks up   *)
(* and inserts in one.                                                     *)
(***************************************************************************)
EXTENDS Naturals, FiniteSets

CONSTANTS
  Threads,
  Strings,       (* the string values                                       *)
  ClassStrings,  (* those that occur as string constants of classes that    *)
                 (* are registered meanwhile                                *)
  Null,          (* no reference                                            *)
  MaxSlots       (* bound on the strings allocated                          *)

ASSUME InterningAssumption ==
  /\ ClassStrings \subseteq Strings
  /\ MaxSlots \in Nat
  /\ Null \notin Nat

VARIABLES
  heap,         (* the string in each allocated slot                        *)
  string_pool,  (* the reference of each pooled string, or Null             *)
  pc, value, reference,  (* the call in progress of each thread             *)
  interned      (* history: the references that interning has returned      *)

vars == <<heap, string_pool, pc, value, reference, interned>>

Slots == DOMAIN heap
Phases == {"run", "allocate", "insert", "native"}

Init ==
  /\ heap = [s \in {} |-> Null]
  /\ string_pool = [v \in Strings |-> Null]
  /\ pc = [t \in Threads |-> "run"]
  /\ value \in [Threads -> Strings]
  /\ reference = [t \in Threads |-> Null]
  /\ interned = {}

Goto(t, label) == pc' = [pc EXCEPT ![t] = label]

(* The slot the heap hands out.  A definition named for a mistake           *)
(* (NextSlotReused, PooledNever) is the faulty form of the one after it;    *)
(* the specification never uses it.                                         *)
NextSlotReused == IF Slots = {} THEN 0 ELSE Cardinality(Slots) - 1
NextSlot == Cardinality(Slots)

Allocate(v) == [s \in Slots \cup {NextSlot} |-> IF s = NextSlot THEN v ELSE heap[s]]

(* A string the program builds, equal to no other reference.                *)
NewString(t, v) ==
  /\ pc[t] = "run"
  /\ Cardinality(Slots) < MaxSlots
  /\ heap' = Allocate(v)
  /\ UNCHANGED <<string_pool, pc, value, reference, interned>>

InternString(t, v) ==
  /\ pc[t] = "run"
  /\ \/ /\ string_pool[v] # Null
        /\ interned' = interned \cup {string_pool[v]}
        /\ UNCHANGED <<pc, value>>
     \/ /\ string_pool[v] = Null
        /\ value' = [value EXCEPT ![t] = v]
        /\ Goto(t, "allocate")
        /\ UNCHANGED interned
  /\ UNCHANGED <<heap, string_pool, reference>>

InternAllocate(t) ==
  /\ pc[t] = "allocate"
  /\ Cardinality(Slots) < MaxSlots
  /\ heap' = Allocate(value[t])
  /\ reference' = [reference EXCEPT ![t] = NextSlot]
  /\ Goto(t, "insert")
  /\ UNCHANGED <<string_pool, value, interned>>

(* HashMap::insert, whatever another thread has pooled since the lookup.    *)
InternInsert(t) ==
  /\ pc[t] = "insert"
  /\ string_pool' = [string_pool EXCEPT ![value[t]] = reference[t]]
  /\ interned' = interned \cup {reference[t]}
  /\ Goto(t, "run")
  /\ UNCHANGED <<heap, value, reference>>

(* String.intern(): read the characters under the heap's mutex, then look   *)
(* up and insert under the pool's.                                          *)
Intern(t, s) ==
  /\ pc[t] = "run"
  /\ value' = [value EXCEPT ![t] = heap[s]]
  /\ reference' = [reference EXCEPT ![t] = s]
  /\ Goto(t, "native")
  /\ UNCHANGED <<heap, string_pool, interned>>

PooledNever(v) == FALSE
Pooled(v) == string_pool[v] # Null

InternPool(t) ==
  LET v == value[t] IN
  /\ pc[t] = "native"
  /\ \/ /\ Pooled(v)
        /\ interned' = interned \cup {string_pool[v]}
        /\ UNCHANGED string_pool
     \/ /\ ~Pooled(v)
        /\ string_pool' = [string_pool EXCEPT ![v] = reference[t]]
        /\ interned' = interned \cup {reference[t]}
  /\ Goto(t, "run")
  /\ UNCHANGED <<heap, value, reference>>

-----------------------------------------------------------------------------
Next ==
  \E t \in Threads :
    \/ \E v \in Strings : NewString(t, v)
    \/ \E v \in ClassStrings : InternString(t, v)
    \/ InternAllocate(t)
    \/ InternInsert(t)
    \/ \E s \in Slots : Intern(t, s)
    \/ InternPool(t)

Spec == Init /\ [][Next]_vars

-----------------------------------------------------------------------------
(* The string is pooled under its own value, so interning never changes the *)
(* characters a program sees.                                               *)
PoolOfOwnValue ==
  \A v \in Strings : string_pool[v] # Null =>
    string_pool[v] \in Slots /\ heap[string_pool[v]] = v

(* What String.intern() alone has interned is canonical: equal strings are  *)
(* one reference, whichever threads have asked and in whatever order.       *)
(* String constants are left out: intern_string looks up and inserts under  *)
(* two acquisitions, and two threads that register classes with the same    *)
(* constant get two references.                                             *)
NativeInternedOnce ==
  \A r, s \in interned :
    heap[r] = heap[s] /\ heap[r] \notin ClassStrings => r = s

(* The pooled reference of such a string stays: what `==` has answered of   *)
(* interned strings it keeps answering.                                     *)
NativePoolStable ==
  [][\A v \in Strings \ ClassStrings : string_pool[v] # Null =>
        string_pool'[v] = string_pool[v]]_vars
=============================================================================
