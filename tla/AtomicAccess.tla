---------------------------- MODULE AtomicAccess ----------------------------
(***************************************************************************)
(* One variable accessed by several threads through the natives of         *)
(* java.util.concurrent.atomic, jdk.internal.misc.Unsafe and               *)
(* java.lang.invoke.VarHandle.  An object and an array are behind the      *)
(* mutex of the heap, a static field behind the one of the runtime state;  *)
(* a native locks it, works on the slot and unlocks it, once or twice.     *)
(***************************************************************************)
EXTENDS MachineInts

CONSTANTS Accessor,   \* the threads
          Datum       \* arguments the calls may have, values <<kind, datum>>

ASSUME AccessorAssumption == {"free", "poisoned"} \cap Accessor = {}
ASSUME DatumAssumption == \A d \in Datum : d = <<d[1], d[2]>> /\ d[1] \in {"I", "J", "A", "F"}

VARIABLES
  place,    \* "field", "element" (of an array) or "static"
  slot,     \* the Value of the variable
  checks,   \* the build panics when an addition overflows
  lock,     \* who holds the mutex: a thread, "free" or "poisoned"
  call,     \* the call of each thread
  section,  \* how many critical sections it has left; in one when it has the lock
  seen,     \* the value it found in its first one
  answer    \* what it was told

avars == <<place, slot, checks, lock, call, section, seen, answer>>

NoCall == [m |-> "none"]
Nothing == <<"none">>
Zero(k) == IF k = "A" THEN <<k, "null">> ELSE <<k, 0>>
True == <<"I", 1>>
False == <<"I", 0>>

-----------------------------------------------------------------------------
(* What a call does to the slot: the value it leaves there and its answer. *)

Effect(v, told) == [left |-> v, told |-> told]
Swap(v, old, new) == IF v = old THEN new ELSE v
SumOf(v, n) == <<v[1], Wrap(v[1], v[2] + n)>>

\* The natives of an Atomic class, all on field 0 of the object.
AtomicInteger == {"get", "set", "getAndSet", "compareAndSet", "incrementAndGet",
                  "decrementAndGet", "addAndGet", "getAndAdd"}
AtomicLong == {"get", "set", "getAndSet", "compareAndSet", "incrementAndGet",
               "decrementAndGet", "addAndGet"}
AtomicReference == {"get", "set", "getAndSet", "compareAndSet"}
LongAdder == {"add", "sum", "increment", "decrement", "reset"}

Delta(c) == CASE c.m \in {"incrementAndGet", "increment"} -> 1
              [] c.m \in {"decrementAndGet", "decrement"} -> -1
              [] OTHER -> c.x[2]
Adds(c) == c.m \in {"incrementAndGet", "decrementAndGet", "addAndGet", "getAndAdd",
                    "add", "increment", "decrement"}

AtomicEffect(c, v) ==
  CASE c.m \in {"get", "sum"} -> Effect(v, v)
    [] c.m = "set" -> Effect(c.x, <<"void">>)
    [] c.m = "getAndSet" -> Effect(c.x, v)
    [] c.m = "compareAndSet" -> Effect(Swap(v, c.x, c.y), IF v = c.x THEN True ELSE False)
    [] c.m = "getAndAdd" -> Effect(SumOf(v, Delta(c)), v)
    [] c.m = "reset" -> Effect(Zero("J"), <<"void">>)
    [] c.m \in {"add", "increment", "decrement"} -> Effect(SumOf(v, Delta(c)), <<"void">>)
    [] OTHER -> Effect(SumOf(v, Delta(c)), SumOf(v, Delta(c)))

\* `current + delta` in a build that checks for overflow.
Overflows(c, v) ==
  checks /\ c.api \in {"Atomic", "LongAdder"} /\ Adds(c) /\ v[2] + Delta(c) \notin IntsOf(v[1])

\* Unsafe: a slot of a field that holds another kind reads as zero and is
\* overwritten, an array of another kind is left alone.
UnsafeView(k, v) == IF v[1] = k THEN v ELSE Zero(k)
Foreign(k, v) == place = "element" /\ v[1] # k

UnsafeCas(c, v) ==
  IF Foreign(c.k, v) \/ UnsafeView(c.k, v) # c.x THEN Effect(v, False) ELSE Effect(c.y, True)
UnsafeGetAndAdd(c, v) ==
  LET old == UnsafeView(c.k, v) IN Effect(IF Foreign(c.k, v) THEN v ELSE SumOf(old, c.x[2]), old)
UnsafeGetAndSet(c, v) == Effect(IF Foreign(c.k, v) THEN v ELSE c.x, UnsafeView(c.k, v))
UnsafeGetPut(c, v) ==
  CASE c.m = "get" -> Effect(v, UnsafeView(c.k, v))
    [] c.m = "set" -> Effect(IF Foreign(c.k, v) THEN v ELSE c.x, <<"void">>)

UnsafeEffect(c, v) ==
  CASE c.m = "compareAndSet" -> UnsafeCas(c, v)
    [] c.m = "getAndAdd" -> UnsafeGetAndAdd(c, v)
    [] c.m = "getAndSet" -> UnsafeGetAndSet(c, v)
    [] c.m \in {"get", "set"} -> UnsafeGetPut(c, v)

\* VarHandle: the access mode of a method and what it does to a Value, or to an
\* element of an array of each kind.
AccessModes == {"get", "set", "compareAndSet", "compareAndExchange", "getAndSet",
                "getAndAdd", "getAndBitwiseOr", "getAndBitwiseAnd", "getAndBitwiseXor"}

\* An int and a long are compared as numbers.
ValueEqual(a, b) == a = b \/ ({a[1], b[1]} = {"I", "J"} /\ a[2] = b[2])

CombineRmw(mode, v, x) ==
  LET k == v[1] IN
  CASE mode = "getAndAdd" -> SumOf(v, x[2])
    [] mode = "getAndBitwiseOr" -> <<k, OrOf(k, v[2], x[2])>>
    [] mode = "getAndBitwiseAnd" -> <<k, AndOf(k, v[2], x[2])>>
    [] mode = "getAndBitwiseXor" -> <<k, XorOf(k, v[2], x[2])>>

SlotEffect(c, v) ==
  CASE c.m = "get" -> Effect(v, v)
    [] c.m = "set" -> Effect(c.x, <<"void">>)
    [] c.m = "getAndSet" -> Effect(c.x, v)
    [] c.m = "compareAndSet" ->
         IF ValueEqual(v, c.x) THEN Effect(c.y, True) ELSE Effect(v, False)
    [] c.m = "compareAndExchange" -> Effect(IF ValueEqual(v, c.x) THEN c.y ELSE v, v)
    [] OTHER -> IF v[1] \in {"I", "J"} THEN Effect(CombineRmw(c.m, v, c.x), v)
                ELSE Effect(v, <<"unsupported">>)

IntElementEffect(c, v) ==
  CASE c.m = "get" -> Effect(v, v)
    [] c.m = "set" -> Effect(c.x, <<"void">>)
    [] c.m = "getAndSet" -> Effect(c.x, v)
    [] c.m = "compareAndSet" -> Effect(Swap(v, c.x, c.y), IF v = c.x THEN True ELSE False)
    [] c.m = "compareAndExchange" -> Effect(Swap(v, c.x, c.y), v)
    [] OTHER -> Effect(CombineRmw(c.m, v, c.x), v)
LongElementEffect(c, v) == IntElementEffect(c, v)
ReferenceElementEffect(c, v) ==
  IF c.m \in {"get", "set", "getAndSet", "compareAndSet", "compareAndExchange"}
  THEN IntElementEffect(c, v) ELSE Effect(v, <<"unsupported">>)
FloatElementEffect(c, v) ==
  IF c.m \in {"get", "set"} THEN IntElementEffect(c, v) ELSE Effect(v, <<"unsupported">>)

ElementEffect(c, v) ==
  CASE v[1] = "I" -> IntElementEffect(c, v)
    [] v[1] = "J" -> LongElementEffect(c, v)
    [] v[1] = "A" -> ReferenceElementEffect(c, v)
    [] v[1] = "F" -> FloatElementEffect(c, v)

EffectOf(c, v) ==
  CASE c.api \in {"Atomic", "LongAdder"} -> AtomicEffect(c, v)
    [] c.api = "Unsafe" -> UnsafeEffect(c, v)
    [] c.api = "VarHandle" -> IF place = "element" THEN ElementEffect(c, v) ELSE SlotEffect(c, v)

-----------------------------------------------------------------------------
(* The calls a thread may make of the variable.                            *)

Arguments(k) == {d \in Datum : d[1] = k}
NoArgument == {"get", "sum", "reset", "increment", "decrement", "incrementAndGet",
               "decrementAndGet"}
TwoArguments == {"compareAndSet", "compareAndExchange"}
Asked(api, k, methods, ats) ==
  UNION {[api : {api}, k : {k}, m : {m}, at : ats,
          x : IF m \in NoArgument THEN {Nothing} ELSE Arguments(k),
          y : IF m \in TwoArguments THEN Arguments(k) ELSE {Nothing}] : m \in methods}
\* An Unsafe call reaches a static field only through a null base.
Anchors(where) == CASE where = "field" -> {"there", "null"}
                    [] where = "element" -> {"there", "null", "outside"}
                    [] where = "static" -> {"null"}
KindCalls(k, where) ==
  (IF where # "field" THEN {}
   ELSE Asked("Atomic", k, CASE k = "I" -> AtomicInteger [] k = "J" -> AtomicLong
                             [] k = "A" -> AtomicReference [] OTHER -> {}, {"there"})
        \cup Asked("LongAdder", k, IF k = "J" THEN LongAdder ELSE {}, {"there"}))
  \cup (IF k = "F" THEN {}
        ELSE Asked("Unsafe", k, {"compareAndSet", "getAndSet", "get", "set"}
                     \cup (IF k = "A" THEN {} ELSE {"getAndAdd"}), Anchors(where)))
  \cup Asked("VarHandle", k, AccessModes,
             IF where = "static" THEN {"there"} ELSE Anchors(where))

-----------------------------------------------------------------------------

AccessInit ==
  /\ place \in {"field", "element", "static"}
  /\ slot \in {Zero(k) : k \in {"I", "J", "A", "F"}} \cup {<<k, MaxOf(k)>> : k \in {"I", "J"}}
  /\ checks \in BOOLEAN
  /\ lock = "free"
  /\ call = [t \in Accessor |-> NoCall]
  /\ section = [t \in Accessor |-> 0]
  /\ seen = [t \in Accessor |-> Nothing]
  /\ answer = [t \in Accessor |-> Nothing]

SectionsPerRmw(c) == IF c.m \in {"getAndSet", "getAndAdd"} THEN 2 ELSE 1
\* getAndSet of the Atomic classes locks the heap to read and again to write.
Sections(c) == IF c.api = "Atomic" /\ c.m = "getAndSet" THEN 2 ELSE 1

Invoke(t) ==
  /\ call[t] = NoCall
  /\ \E c \in KindCalls(slot[1], place) :
       /\ call' = [call EXCEPT ![t] = c]
       /\ section' = [section EXCEPT ![t] = Sections(c)]
  /\ UNCHANGED <<place, slot, checks, lock, seen, answer>>

Tell(t, a) ==
  /\ answer' = [answer EXCEPT ![t] = a]
  /\ section' = [section EXCEPT ![t] = 0]
Waiting(t) == section[t] > 0 /\ lock # t
Here(t) == call[t].at = "there"

\* A null target is refused before the mutex is locked.
RefuseNull(t) ==
  /\ Waiting(t) /\ call[t].at = "null"
  /\ Tell(t, <<"NullPointerException">>)
  /\ UNCHANGED <<place, slot, checks, lock, call, seen>>

Enter(t) ==
  /\ Waiting(t) /\ call[t].at # "null" /\ lock = "free"
  /\ lock' = t
  /\ seen' = [seen EXCEPT ![t] = IF @ = Nothing THEN slot ELSE @]
  /\ UNCHANGED <<place, slot, checks, call, section, answer>>

\* lock().unwrap() of a mutex another thread left by panicking.
EnterPoisoned(t) ==
  /\ Waiting(t) /\ call[t].at # "null" /\ lock = "poisoned"
  /\ Tell(t, <<"panic">>)
  /\ UNCHANGED <<place, slot, checks, lock, call, seen>>

OutOfRange(t) ==
  /\ lock = t /\ call[t].at = "outside"
  /\ lock' = "free"
  /\ Tell(t, <<"ArrayIndexOutOfBoundsException">>)
  /\ UNCHANGED <<place, slot, checks, call, seen>>

Overflow(t) ==
  /\ lock = t /\ Here(t) /\ Overflows(call[t], seen[t])
  /\ lock' = "poisoned"
  /\ Tell(t, <<"panic">>)
  /\ UNCHANGED <<place, slot, checks, call, seen>>

\* The end of a section that only reads.
LeaveFirst(t) ==
  /\ lock = t /\ section[t] = 2
  /\ lock' = "free"
  /\ section' = [section EXCEPT ![t] = 1]
  /\ UNCHANGED <<place, slot, checks, call, seen, answer>>

Leave(t) ==
  LET e == EffectOf(call[t], seen[t]) IN
  /\ lock = t /\ section[t] = 1 /\ Here(t) /\ ~Overflows(call[t], seen[t])
  /\ slot' = e.left
  /\ lock' = "free"
  /\ Tell(t, e.told)
  /\ UNCHANGED <<place, checks, call, seen>>

AccessNext == \E t \in Accessor :
  \/ Invoke(t) \/ RefuseNull(t) \/ Enter(t) \/ EnterPoisoned(t)
  \/ OutOfRange(t) \/ Overflow(t) \/ LeaveFirst(t) \/ Leave(t)

AccessSpec == AccessInit /\ [][AccessNext]_avars

-----------------------------------------------------------------------------

AllCalls == [where \in {"field", "element", "static"} |->
               UNION {KindCalls(k, where) : k \in {"I", "J", "A", "F"}}]
Cells == INSTANCE AtomicCell WITH
  Thread <- Accessor, Calls <- AllCalls, cell <- slot, asked <- call,
  early <- [t \in Accessor |->
              IF call[t] # NoCall /\ Sections(call[t]) = 2 /\ section[t] = 1
              THEN seen[t] ELSE Nothing]

\* Whatever the calls of the threads and however they interleave, each takes
\* effect at one instant (getAndSet of an Atomic class at two) and does what the
\* Java documentation says of it, for every place a variable may have.
ImplementsCells == Cells!Spec
=============================================================================
