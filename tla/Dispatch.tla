------------------------------ MODULE Dispatch ------------------------------
(***************************************************************************)
(* Which method a call runs: the resolution of a method in a hierarchy of  *)
(* classes and interfaces, the inline cache of an invokevirtual site, the  *)
(* natives that shadow a method or stand in for a missing one, and lambda  *)
(* proxies.  One method name, every hierarchy of the given classes.        *)
(***************************************************************************)
EXTENDS SequencesExt

CONSTANTS Classes, Interfaces,
          Root,          \* the class every hierarchy starts from
          Shapes         \* hierarchies an instance looks at

VARIABLES
  shape,     \* [super, interfaces, declares, shadowed, builtin, target]
  cache,     \* the entry of the call site in the frame
  called     \* the last call: how, on which class, and what ran

dvars == <<shape, cache, called>>

Nobody == "none"
NotFound == <<"MethodNotFound", Nobody>>
Types == Classes \cup Interfaces

\* Names are loaded as classes or as interfaces.
ASSUME TypesAssumption ==
  /\ IsFiniteSet(Classes) /\ IsFiniteSet(Interfaces)
  /\ Classes \cap Interfaces = {} /\ Nobody \notin Types

\* No class is above itself; interfaces may be listed twice or in circles.
ASSUME ShapesAssumption == \A s \in Shapes :
  /\ s.super \in [Classes -> Classes \cup {Nobody}]
  /\ \E rank \in [Classes -> 0 .. Cardinality(Classes)] :
       \A c \in Classes : s.super[c] # Nobody => rank[s.super[c]] < rank[c]
  /\ s.interfaces \in [Types -> Seq(Interfaces)]
  /\ s.declares \in [Types -> {"Bytecode", "Native", Nobody}]
  /\ s.target \in Classes

\* Abstract methods are not in the table of a class.
Declares(c) == shape.declares[c] # Nobody
Method(c) == <<shape.declares[c], c>>    \* <<"Bytecode" or "Native", where>>
SuperOf(c) == IF c \in Classes THEN shape.super[c] ELSE Nobody

Above(s) ==
  IF SuperOf(Last(s)) = Nobody THEN s ELSE Append(s, SuperOf(Last(s)))
Chain(c) ==
  LET up[n \in 0 .. Cardinality(Classes)] == IF n = 0 THEN <<c>> ELSE Above(up[n - 1])
  IN up[Cardinality(Classes)]

Add(seen, i) == IF i \in ToSet(seen) THEN seen ELSE Append(seen, i)
Added(seen, new) ==
  LET acc[n \in 0 .. Len(new)] == IF n = 0 THEN seen ELSE Add(acc[n - 1], new[n])
  IN acc[Len(new)]

\* resolve_method: the classes upwards, then the interfaces in the order they
\* were met, each followed by the ones it extends.
Visit(c, met, n) ==
  LET all == Chain(c) \o met
  IN IF n > Len(all) THEN met ELSE Added(met, shape.interfaces[all[n]])
InterfacesMet(c) ==
  LET most == Len(Chain(c)) + Cardinality(Interfaces)
      met[n \in 0 .. most] == IF n = 0 THEN <<>> ELSE Visit(c, met[n - 1], n)
  IN met[most]

Places(s) == {n \in DOMAIN s : Declares(s[n])}
FirstDeclared(s) == IF Places(s) = {} THEN NotFound ELSE Method(s[Min(Places(s))])
Resolve(c) == FirstDeclared(Chain(c) \o InterfacesMet(c))

\* is_instance_of: everything reachable upwards.
Parents(d) == ToSet(shape.interfaces[d]) \cup ({SuperOf(d)} \ {Nobody})
IsInstanceOf(c, target) ==
  \A S \in SUBSET Types : c \in S /\ (\A d \in S : Parents(d) \subseteq S) => target \in S

\* A native that shadows the method, and one that stands in when it is missing.
HasNativeOverride(c) == c \in shape.shadowed
NativeFallback(c) == IF c \in shape.builtin THEN <<"Native", c>> ELSE NotFound

\* dispatch_instance_method, for invokeinterface and invokespecial.
DispatchInstance(c) ==
  IF HasNativeOverride(c) THEN <<"Native", c>>
  ELSE IF Resolve(c) = NotFound THEN NativeFallback(c) ELSE Resolve(c)

\* A proxy runs its captured target, resolved in the class the lambda names; an
\* interpreted call looks a native up in that class, wherever it was found.
DispatchLambda ==
  LET m == Resolve(shape.target)
  IN IF m[1] = "Native" THEN <<"Native", shape.target>> ELSE m

-----------------------------------------------------------------------------

DispatchInit ==
  /\ shape \in Shapes
  /\ cache = [resolved_class |-> Nobody, method |-> NotFound]
  /\ called = [how |-> Nobody, on |-> Root, ran |-> NotFound]

CachedForAny(c) == cache.resolved_class # Nobody
\* get_cached_invoke: the entry serves receivers of the class it was found in.
Cached(c) == cache.resolved_class = c

Ran(how, c, m) == called' = [how |-> how, on |-> c, ran |-> m]

InvokeVirtual(c) ==
  /\ IF HasNativeOverride(c) THEN Ran("virtual", c, <<"Native", c>>) /\ UNCHANGED cache
     ELSE IF Cached(c) THEN Ran("virtual", c, cache.method) /\ UNCHANGED cache
     ELSE IF Resolve(c) = NotFound THEN Ran("virtual", c, NativeFallback(c)) /\ UNCHANGED cache
     ELSE /\ Ran("virtual", c, Resolve(c))
          /\ cache' = [resolved_class |-> Resolve(c)[2], method |-> Resolve(c)]
  /\ UNCHANGED shape

InvokeInterface(c) ==
  /\ Ran("interface", c, DispatchInstance(c))
  /\ UNCHANGED <<shape, cache>>

\* A native that calls back, by call_virtual: no shadows and no stand-ins.
CallVirtual(c) ==
  /\ Ran("callback", c, Resolve(c))
  /\ UNCHANGED <<shape, cache>>

InvokeLambda ==
  /\ Ran("lambda", shape.target, DispatchLambda)
  /\ UNCHANGED <<shape, cache>>

CallLambda ==
  /\ Ran("callback", shape.target, Resolve(shape.target))
  /\ UNCHANGED <<shape, cache>>

DispatchNext ==
  \/ \E c \in Classes : InvokeVirtual(c) \/ InvokeInterface(c) \/ CallVirtual(c)
  \/ InvokeLambda \/ CallLambda

DispatchSpec == DispatchInit /\ [][DispatchNext]_dvars

-----------------------------------------------------------------------------
(* What the Java virtual machine specification selects.                    *)

Candidates(c) == {i \in Interfaces : Declares(i) /\ IsInstanceOf(c, i)}
MostSpecific(c) ==
  {i \in Candidates(c) : \A j \in Candidates(c) \ {i} : ~IsInstanceOf(j, i)}
Unambiguous(c) == Places(Chain(c)) # {} \/ Cardinality(Candidates(c)) <= 1
Selected(c) ==
  IF Places(Chain(c)) # {} THEN FirstDeclared(Chain(c))
  ELSE IF Candidates(c) = {} THEN NotFound
  ELSE Method(CHOOSE i \in MostSpecific(c) : TRUE)

\* However a method is called and whatever the call site met before, the method
\* of the receiver's own class runs: the one the specification selects, except
\* that a native that shadows it comes first and one that stands in for it last,
\* where no interface overrides the default method of another and no two offer
\* one.  A lambda over an inherited native is the other exception.
DispatchAgrees ==
  LET c == called.on
      direct == called.how \in {"callback", "lambda"} IN
  called.how # Nobody =>
    IF ~direct /\ HasNativeOverride(c) THEN called.ran = <<"Native", c>>
    ELSE Unambiguous(c) =>
      IF ~direct /\ Selected(c) = NotFound THEN called.ran = NativeFallback(c)
      ELSE IF called.how = "lambda" /\ Selected(c)[1] = "Native" THEN called.ran[1] = "Native"
      ELSE called.ran = Selected(c)
=============================================================================
