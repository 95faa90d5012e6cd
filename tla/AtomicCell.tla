----------------------------- MODULE AtomicCell -----------------------------
(***************************************************************************)
(* What AtomicInteger, AtomicLong, AtomicReference, LongAdder, Unsafe and  *)
(* VarHandle promise about one variable: a call takes effect at one        *)
(* instant between its invocation and its answer, and means what its Java  *)
(* documentation says.  Two exceptions are part of this promise because    *)
(* the program makes them: getAndSet of the Atomic classes reads and       *)
(* writes at two instants, and a build that checks for overflow may die    *)
(* instead of wrapping.                                                    *)
(***************************************************************************)
EXTENDS MachineInts

CONSTANTS Thread, Calls   \* Calls[place]: what may be asked of a variable there

VARIABLES
  place,    \* where the variable is: a field, an element, a static field
  cell,     \* its value, <<kind, datum>>
  asked,    \* what each thread asked, NoCall before
  early,    \* what getAndSet of an Atomic class has read already
  answer    \* Nothing until the call has taken effect

cellVars == <<place, cell, asked, early, answer>>

NoCall == [m |-> "none"]
Nothing == <<"none">>
Zero(k) == IF k = "A" THEN <<k, "null">> ELSE <<k, 0>>
Plus(v, n) == <<v[1], Wrap(v[1], v[2] + n)>>

Added(c) == CASE c.m \in {"incrementAndGet", "increment"} -> 1
              [] c.m \in {"decrementAndGet", "decrement"} -> -1
              [] OTHER -> c.x[2]
Additions == {"getAndAdd", "addAndGet", "add", "incrementAndGet", "increment",
              "decrementAndGet", "decrement"}
Bitwises == {"getAndBitwiseOr", "getAndBitwiseAnd", "getAndBitwiseXor"}

\* The variable after the call.
After(c, v) ==
  CASE c.m \in {"set", "getAndSet"} -> c.x
    [] c.m = "reset" -> Zero(v[1])
    [] c.m \in {"compareAndSet", "compareAndExchange"} -> IF v = c.x THEN c.y ELSE v
    [] c.m \in Additions -> Plus(v, Added(c))
    [] c.m = "getAndBitwiseOr" -> <<v[1], OrOf(v[1], v[2], c.x[2])>>
    [] c.m = "getAndBitwiseAnd" -> <<v[1], AndOf(v[1], v[2], c.x[2])>>
    [] c.m = "getAndBitwiseXor" -> <<v[1], XorOf(v[1], v[2], c.x[2])>>
    [] OTHER -> v

\* What the caller is told.
Told(c, v) ==
  CASE c.m \in {"set", "reset", "add", "increment", "decrement"} -> <<"void">>
    [] c.m = "compareAndSet" -> IF v = c.x THEN <<"I", 1>> ELSE <<"I", 0>>
    [] c.m \in {"addAndGet", "incrementAndGet", "decrementAndGet"} -> After(c, v)
    [] OTHER -> v

\* Arithmetic is for integers, and an element of a float array can only be read
\* and written (Java allows more).
Refused(c) ==
  /\ c.api = "VarHandle"
  /\ \/ c.m \in Additions \cup Bitwises /\ cell[1] \notin {"I", "J"}
     \/ place = "element" /\ cell[1] = "F" /\ c.m \notin {"get", "set"}

TwoInstants(c) == c.api = "Atomic" /\ c.m = "getAndSet"
Pending(t) == asked[t] # NoCall /\ answer[t] = Nothing

-----------------------------------------------------------------------------

Init ==
  /\ place \in {"field", "element", "static"}
  /\ cell \in {Zero(k) : k \in {"I", "J", "A", "F"}} \cup {<<k, MaxOf(k)>> : k \in {"I", "J"}}
  /\ asked = [t \in Thread |-> NoCall]
  /\ early = [t \in Thread |-> Nothing]
  /\ answer = [t \in Thread |-> Nothing]

Ask(t) ==
  /\ asked[t] = NoCall
  /\ asked'[t] \in Calls[place]
  /\ asked' = [asked EXCEPT ![t] = asked'[t]]
  /\ UNCHANGED <<place, cell, early, answer>>

Answer(t, a) ==
  /\ answer' = [answer EXCEPT ![t] = a]
  /\ early' = [early EXCEPT ![t] = Nothing]
  /\ UNCHANGED <<place, asked>>

\* The instant at which a call takes effect.
Take(t) ==
  LET c == asked[t] IN
  /\ Pending(t) /\ c.at = "there" /\ ~Refused(c) /\ ~TwoInstants(c)
  /\ cell' = After(c, cell)
  /\ Answer(t, Told(c, cell))

\* getAndSet of an Atomic class: it writes, then tells what it read earlier.
TakeRead(t) ==
  /\ Pending(t) /\ TwoInstants(asked[t]) /\ early[t] = Nothing
  /\ early' = [early EXCEPT ![t] = cell]
  /\ UNCHANGED <<place, cell, asked, answer>>
TakeWrite(t) ==
  /\ Pending(t) /\ early[t] # Nothing
  /\ cell' = asked[t].x
  /\ Answer(t, early[t])

\* No variable to access: the call throws and changes nothing.
Throw(t) ==
  /\ Pending(t)
  /\ \/ asked[t].at = "null" /\ Answer(t, <<"NullPointerException">>)
     \/ asked[t].at = "outside" /\ Answer(t, <<"ArrayIndexOutOfBoundsException">>)
     \/ asked[t].at = "there" /\ Refused(asked[t]) /\ Answer(t, <<"unsupported">>)
  /\ UNCHANGED cell

\* A checked addition that overflows ends its thread, and the thread of every
\* call on that memory afterwards.
Die(t) ==
  /\ Pending(t)
  /\ \/ /\ asked[t].api \in {"Atomic", "LongAdder"} /\ asked[t].m \in Additions
        /\ cell[2] + Added(asked[t]) \notin IntsOf(cell[1])
     \/ \E u \in Thread : answer[u] = <<"panic">>
  /\ Answer(t, <<"panic">>)
  /\ UNCHANGED cell

Next == \E t \in Thread : Ask(t) \/ Take(t) \/ TakeRead(t) \/ TakeWrite(t) \/ Throw(t) \/ Die(t)
Spec == Init /\ [][Next]_cellVars
=============================================================================
