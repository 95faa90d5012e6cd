--------------------------- MODULE TieringProofs ---------------------------
(***************************************************************************)
(* What Tiering.tla checks on small instances, for any number of methods,  *)
(* activations and compilations.                                           *)
(*                                                                         *)
(* An activation of compiled code, and one that stands in for compiled     *)
(* code, lies on an interpreted frame; that is why a step that leaves one  *)
(* never uncovers another whose thread-local words it has just cleared.    *)
(***************************************************************************)
EXTENDS Tiering, SequenceTheorems, TLAPS

Code == [v : Nat, forced : BOOLEAN]

Activation ==
  [kind : {"interp", "jit"}, m : Methods, base : BOOLEAN, fallback : BOOLEAN, took : BOOLEAN,
   how : {"call", "osr", "execute"}, calls : Nat, throwing : BOOLEAN,
   done : {"no", "ok", "throw"}, code : Code, reason : Reasons \cup {NoReason},
   raised : BOOLEAN]

TypeInv ==
  /\ stack \in Seq(Activation)
  /\ jit \in BOOLEAN /\ threshold \in Nat /\ versions \in Nat
  /\ code \in [Keys -> Code] /\ entries \in [Keys -> Code]
  /\ sites \in [Keys -> [DOMAIN Counted -> Nat]]
  /\ only \subseteq Keys /\ current \in {"none", "vm", "fallback"}
  /\ pending \in BOOLEAN

\* What an activation lies on: compiled code was entered from an interpreted
\* frame, and a resumed activation takes the place of compiled code.
Rests(a, s) ==
  a.kind = "jit" \/ a.how # "call" => s # <<>> /\ s[1].kind = "interp"

Beneath(s) ==
  \A i \in 1 .. Len(s) :
    s[i].kind = "jit" \/ s[i].how # "call" => i < Len(s) /\ s[i + 1].kind = "interp"

\* The innermost compiled activation has raised an exception.
InnermostRaised(s) ==
  \E i \in 1 .. Len(s) : /\ s[i].kind = "jit" /\ s[i].raised
                         /\ \A j \in 1 .. i - 1 : s[j].kind = "interp"

\* What is installed is what the manager holds.
Installed == \A k \in Keys : entries[k] = NoCode \/ entries[k] = code[k]

Inv ==
  /\ TypeInv
  /\ Beneath(stack)
  /\ pending => InnermostRaised(stack)
  /\ HelpersFindVm
  /\ Installed

-----------------------------------------------------------------------------
(* Stacks.                                                                 *)

\* What a push does to a stack.
LEMMA Pushed ==
  ASSUME NEW S, NEW s \in Seq(S), NEW a \in S
  PROVE  /\ <<a>> \o s \in Seq(S) /\ <<a>> \o s # <<>>
         /\ Len(<<a>> \o s) = Len(s) + 1
         /\ (<<a>> \o s)[1] = a
         /\ \A i \in 1 .. Len(s) : (<<a>> \o s)[i + 1] = s[i]
         /\ Head(<<a>> \o s) = a /\ Tail(<<a>> \o s) = s
<1>1. <<a>> \in Seq(S) /\ Len(<<a>>) = 1 /\ <<a>>[1] = a
  OBVIOUS
<1>2. /\ <<a>> \o s \in Seq(S) /\ Len(<<a>> \o s) = Len(s) + 1
      /\ \A i \in 1 .. Len(s) + 1 : (<<a>> \o s)[i] = IF i <= 1 THEN a ELSE s[i - 1]
  BY <1>1
<1>3. (<<a>> \o s)[1] = a /\ \A i \in 1 .. Len(s) : (<<a>> \o s)[i + 1] = s[i]
  BY <1>2
<1>4. Head(<<a>> \o s) = a /\ <<a>> \o s # <<>>
  BY <1>2, <1>3
<1>5. Tail(<<a>> \o s) = s
  <2> DEFINE c == <<a>> \o s
  <2>1. /\ Tail(c) \in Seq(S) /\ Len(Tail(c)) = Len(s)
        /\ \A i \in 1 .. Len(s) : Tail(c)[i] = c[i + 1]
    BY <1>2, <1>4
  <2>2. \A i \in 1 .. Len(s) : Tail(c)[i] = s[i]
    BY <2>1, <1>3
  <2> QED BY <2>1, <2>2, SeqEqual
<1> QED BY <1>2, <1>3, <1>4, <1>5

\* A stack that is not empty is its top pushed on the rest.
LEMMA TopAndRest ==
  ASSUME NEW S, NEW s \in Seq(S), s # <<>>
  PROVE  /\ Head(s) \in S /\ Tail(s) \in Seq(S) /\ Len(Tail(s)) = Len(s) - 1
         /\ s[1] = Head(s)
         /\ s = <<Head(s)>> \o Tail(s)
<1>1. /\ Head(s) \in S /\ Tail(s) \in Seq(S) /\ Len(Tail(s)) = Len(s) - 1
      /\ s[1] = Head(s) /\ Len(s) \in Nat \ {0}
      /\ \A i \in 1 .. Len(s) - 1 : Tail(s)[i] = s[i + 1]
  OBVIOUS
<1> DEFINE c == <<Head(s)>> \o Tail(s)
<1>2. /\ c \in Seq(S) /\ Len(c) = Len(s) /\ c[1] = s[1]
      /\ \A i \in 1 .. Len(s) - 1 : c[i + 1] = s[i + 1]
  BY <1>1, Pushed
<1>3. \A i \in 1 .. Len(s) : c[i] = s[i]
  <2>1. TAKE i \in 1 .. Len(s)
  <2>2. i = 1 \/ (i - 1 \in 1 .. Len(s) - 1 /\ i = (i - 1) + 1)
    BY <1>1
  <2> QED BY <1>2, <2>2
<1>4. c = s
  BY <1>2, <1>3, SeqEqual
<1> QED BY <1>1, <1>4

\* Beneath, read from the top.
LEMMA BeneathPushed ==
  ASSUME NEW s \in Seq(Activation), NEW a \in Activation
  PROVE  Beneath(<<a>> \o s) <=> Rests(a, s) /\ Beneath(s)
<1> DEFINE c == <<a>> \o s
<1>1. /\ Len(c) = Len(s) + 1 /\ Len(s) \in Nat /\ c[1] = a
      /\ \A i \in 1 .. Len(s) : c[i + 1] = s[i]
      /\ s # <<>> <=> 1 <= Len(s)
  BY Pushed
<1> HIDE DEF c
<1>2. ASSUME Beneath(c) PROVE Rests(a, s) /\ Beneath(s)
  <2>1. Rests(a, s)
    BY <1>1, <1>2 DEF Beneath, Rests
  <2>2. ASSUME NEW i \in 1 .. Len(s), s[i].kind = "jit" \/ s[i].how # "call"
        PROVE  i < Len(s) /\ s[i + 1].kind = "interp"
    <3>1. c[i + 1] = s[i] /\ i + 1 \in 1 .. Len(c)
      BY <1>1
    <3>2. i + 1 < Len(c) /\ c[(i + 1) + 1].kind = "interp"
      BY <1>2, <2>2, <3>1 DEF Beneath
    <3>3. i < Len(s) /\ i + 1 \in 1 .. Len(s)
      BY <1>1, <3>2
    <3> QED BY <1>1, <3>2, <3>3
  <2> QED BY <2>1, <2>2 DEF Beneath
<1>3. ASSUME Rests(a, s), Beneath(s) PROVE Beneath(c)
  <2>1. ASSUME NEW i \in 1 .. Len(c), c[i].kind = "jit" \/ c[i].how # "call"
        PROVE  i < Len(c) /\ c[i + 1].kind = "interp"
    <3>1. CASE i = 1
      BY <1>1, <1>3, <2>1, <3>1 DEF Rests
    <3>2. CASE i # 1
      <4>1. i - 1 \in 1 .. Len(s) /\ c[i] = s[i - 1]
        <5>1. i - 1 \in 1 .. Len(s) /\ (i - 1) + 1 = i
          BY <1>1, <3>2
        <5> QED BY <1>1, <5>1
      <4>2. i - 1 < Len(s) /\ s[(i - 1) + 1].kind = "interp"
        BY <1>3, <2>1, <4>1 DEF Beneath
      <4>3. i \in 1 .. Len(s) /\ (i - 1) + 1 = i
        BY <1>1, <4>1, <4>2
      <4> QED BY <1>1, <4>2, <4>3
    <3> QED BY <3>1, <3>2
  <2> QED BY <2>1 DEF Beneath
<1> QED BY <1>2, <1>3 DEF c

\* InnermostRaised, read from the top.
LEMMA RaisedPushed ==
  ASSUME NEW s \in Seq(Activation), NEW a \in Activation
  PROVE  InnermostRaised(<<a>> \o s) <=>
           (a.kind = "jit" /\ a.raised) \/ (a.kind = "interp" /\ InnermostRaised(s))
<1> DEFINE c == <<a>> \o s
<1>1. /\ Len(c) = Len(s) + 1 /\ Len(s) \in Nat /\ c[1] = a
      /\ \A i \in 1 .. Len(s) : c[i + 1] = s[i]
  BY Pushed
<1> HIDE DEF c
<1>2. ASSUME NEW i \in 1 .. Len(c), c[i].kind = "jit", c[i].raised,
             \A j \in 1 .. i - 1 : c[j].kind = "interp"
      PROVE  (a.kind = "jit" /\ a.raised) \/ (a.kind = "interp" /\ InnermostRaised(s))
  <2>1. CASE i = 1
    BY <1>1, <1>2, <2>1
  <2>2. CASE i # 1
    <3>1. i - 1 \in 1 .. Len(s) /\ (i - 1) + 1 = i /\ 1 \in 1 .. i - 1
      BY <1>1, <2>2
    <3>2. s[i - 1] = c[i] /\ a.kind = "interp"
      BY <1>1, <1>2, <3>1
    <3>3. ASSUME NEW j \in 1 .. (i - 1) - 1 PROVE s[j].kind = "interp"
      <4>1. j \in 1 .. Len(s) /\ j + 1 \in 1 .. i - 1
        BY <3>1, <1>1
      <4> QED BY <1>1, <1>2, <4>1
    <3> QED BY <1>2, <3>1, <3>2, <3>3 DEF InnermostRaised
  <2> QED BY <2>1, <2>2
<1>3. ASSUME a.kind = "jit", a.raised PROVE InnermostRaised(c)
  <2>1. 1 \in 1 .. Len(c) /\ c[1].kind = "jit" /\ c[1].raised /\ 1 .. 1 - 1 = {}
    BY <1>1, <1>3
  <2> QED BY <2>1 DEF InnermostRaised
<1>4. ASSUME a.kind = "interp", InnermostRaised(s) PROVE InnermostRaised(c)
  <2>1. PICK i \in 1 .. Len(s) : /\ s[i].kind = "jit" /\ s[i].raised
                                 /\ \A j \in 1 .. i - 1 : s[j].kind = "interp"
    BY <1>4 DEF InnermostRaised
  <2>2. i + 1 \in 1 .. Len(c) /\ c[i + 1] = s[i]
    BY <1>1
  <2>3. ASSUME NEW j \in 1 .. (i + 1) - 1 PROVE c[j].kind = "interp"
    <3>1. CASE j = 1 BY <1>1, <1>4, <3>1
    <3>2. CASE j # 1
      <4>1. j - 1 \in 1 .. i - 1 /\ j - 1 \in 1 .. Len(s) /\ (j - 1) + 1 = j
        BY <1>1, <3>2
      <4> QED BY <1>1, <2>1, <4>1
    <3> QED BY <3>1, <3>2
  <2> QED BY <2>1, <2>2, <2>3 DEF InnermostRaised
<1> QED BY <1>2, <1>3, <1>4 DEF InnermostRaised, c

\* An empty stack.
LEMMA EmptyStack == Beneath(<<>>) /\ ~InnermostRaised(<<>>) /\ <<>> \in Seq(Activation)
BY DEF Beneath, InnermostRaised

-----------------------------------------------------------------------------
(* The steps.                                                              *)

\* What GivenUpForGood asks of a step.
NotGivenUp ==
  /\ only \subseteq only'
  /\ Len(stack') > Len(stack) /\ Head(stack').kind = "jit"
       => KeyOf(Head(stack').m, Head(stack').how) \notin only

\* The activation a step works on, and those under it.
LEMMA TopOfStack ==
  ASSUME Inv, stack # <<>>
  PROVE  /\ Top \in Activation /\ Tail(stack) \in Seq(Activation)
         /\ stack = <<Top>> \o Tail(stack) /\ Len(stack) = Len(Tail(stack)) + 1
         /\ stack[1] = Top
         /\ Rests(Top, Tail(stack)) /\ Beneath(Tail(stack))
         /\ Len(Tail(stack)) \in Nat
<1>1. stack \in Seq(Activation) /\ Beneath(stack)
  BY DEF Inv, TypeInv
<1>2. /\ Top \in Activation /\ Tail(stack) \in Seq(Activation)
      /\ stack = <<Top>> \o Tail(stack) /\ stack[1] = Top
      /\ Len(Tail(stack)) = Len(stack) - 1
  BY <1>1, TopAndRest DEF Top
<1>3. Len(stack) \in Nat /\ Len(Tail(stack)) \in Nat
  BY <1>1, <1>2
<1>4. Rests(Top, Tail(stack)) /\ Beneath(Tail(stack))
  BY <1>1, <1>2, BeneathPushed
<1> QED BY <1>2, <1>3, <1>4

\* The keys of the code of a method.
LEMMA KeyOfType ==
  ASSUME NEW m \in Methods, NEW how
  PROVE  KeyOf(m, how) \in Keys
BY DEF KeyOf, Keys

\* The absence of code has the type of code.
LEMMA NoCodeType == NoCode \in Code
BY DEF NoCode, Code

\* Activations that are pushed.
LEMMA NewActivations ==
  ASSUME NEW m \in Methods, NEW how \in {"call", "osr", "execute"}, NEW c \in Code,
         NEW fallback \in BOOLEAN, NEW took \in BOOLEAN, NEW throwing \in BOOLEAN
  PROVE  /\ [Blank EXCEPT !.kind = "jit", !.m = m, !.how = how, !.code = c] \in Activation
         /\ [Blank EXCEPT !.m = m, !.base = TRUE, !.fallback = fallback, !.took = took]
              \in Activation
         /\ [Blank EXCEPT !.m = m, !.fallback = fallback] \in Activation
         /\ [Blank EXCEPT !.m = m, !.fallback = TRUE, !.how = how, !.throwing = throwing]
              \in Activation
BY DEF Blank, Activation, Code, NoCode, NoReason

\* Compiled code is entered on an interpreted frame.
LEMMA EnterCompiledStep ==
  ASSUME Inv, NEW m \in Methods, NEW how \in {"call", "osr", "execute"},
         NEW below \in Seq(Activation), below # <<>>, below[1].kind = "interp",
         Beneath(below), Obtainable(KeyOf(m, how)), EnterCompiled(m, how, below)
  PROVE  Inv' /\ NotGivenUp
<1> DEFINE k == KeyOf(m, how)
           got == GetOrCompile(k)
           entry == IF entries[k] = NoCode \/ how = "execute" THEN got ELSE entries[k]
           a == [Blank EXCEPT !.kind = "jit", !.m = m, !.how = how, !.code = entry]
<1>1. k \in Keys
  BY KeyOfType
<1>2. /\ code' = [code EXCEPT ![k] = got]
      /\ versions' = IF code[k] = NoCode THEN versions + 1 ELSE versions
      /\ entries' = [entries EXCEPT ![k] = entry]
      /\ stack' = <<a>> \o below
      /\ current' = "vm" /\ pending' = FALSE
      /\ UNCHANGED <<jit, threshold, sites, only>>
  BY DEF EnterCompiled, PendingOnEntry
<1>3. TypeInv
  BY DEF Inv
<1>4. got \in Code /\ entry \in Code
  <2>1. (sites[k]["NullCheck"] > 0 \/ sites[k]["ClassCast"] > 0) \in BOOLEAN
    OBVIOUS
  <2>2. SiteFallbacks(k) \in BOOLEAN
    BY <2>1 DEF SiteFallbacks
  <2>3. versions + 1 \in Nat /\ code[k] \in Code /\ entries[k] \in Code
    BY <1>1, <1>3 DEF TypeInv
  <2>4. [v |-> versions + 1, forced |-> SiteFallbacks(k)] \in Code
    BY <2>2, <2>3 DEF Code
  <2> QED BY <2>3, <2>4 DEF GetOrCompile
<1>5. a \in Activation /\ a.kind = "jit" /\ a.m = m /\ a.how = how
  <2>1. a \in Activation
    BY <1>4, NewActivations
  <2>2. a.kind = "jit" /\ a.m = m /\ a.how = how
    BY DEF Blank
  <2> QED BY <2>1, <2>2
<1>6. k \notin only
  BY DEF Obtainable, GivenUp
<1> HIDE DEF a, entry, got
<1>7. Rests(a, below)
  BY DEF Rests
<1>8. stack' \in Seq(Activation) /\ Beneath(stack') /\ Head(stack') = a
  BY <1>2, <1>5, <1>7, BeneathPushed, Pushed
<1>9. TypeInv'
  <2>1. code' \in [Keys -> Code] /\ entries' \in [Keys -> Code]
    BY <1>1, <1>2, <1>3, <1>4 DEF TypeInv
  <2>2. versions' \in Nat
    BY <1>2, <1>3 DEF TypeInv
  <2>3. /\ jit' \in BOOLEAN /\ threshold' \in Nat /\ only' \subseteq Keys
        /\ sites' \in [Keys -> [DOMAIN Counted -> Nat]]
    BY <1>2, <1>3 DEF TypeInv
  <2>4. current' \in {"none", "vm", "fallback"} /\ pending' \in BOOLEAN
    BY <1>2
  <2> QED BY <1>8, <2>1, <2>2, <2>3, <2>4 DEF TypeInv
<1>10. HelpersFindVm'
  BY <1>2 DEF HelpersFindVm
<1>11. Installed'
  <2> SUFFICES ASSUME NEW x \in Keys
               PROVE  entries'[x] = NoCode \/ entries'[x] = code'[x]
    BY DEF Installed
  <2>1. entries[x] = NoCode \/ entries[x] = code[x]
    BY DEF Inv, Installed
  <2>2. CASE x = k
    <3>1. code'[x] = got /\ entries'[x] = entry
      BY <1>1, <1>2, <1>3, <2>2 DEF TypeInv
    <3>2. entry = got
      BY <2>1, <2>2 DEF entry, got, GetOrCompile
    <3> QED BY <3>1, <3>2
  <2>3. CASE x # k
    BY <1>1, <1>2, <1>3, <2>1, <2>3 DEF TypeInv
  <2> QED BY <2>2, <2>3
<1>12. NotGivenUp
  BY <1>2, <1>5, <1>6, <1>8 DEF NotGivenUp
<1> QED BY <1>2, <1>8, <1>9, <1>10, <1>11, <1>12 DEF Inv

\* What a step leaves in the tables of the manager and of the context.
Tables ==
  /\ code' \in [Keys -> Code] /\ entries' \in [Keys -> Code]
  /\ sites' \in [Keys -> [DOMAIN Counted -> Nat]]
  /\ only' \subseteq Keys /\ only \subseteq only'
  /\ Installed'

\* A step that leaves them alone.
LEMMA TablesKept ==
  ASSUME Inv, UNCHANGED <<code, entries, sites, only>>
  PROVE  Tables
BY DEF Inv, TypeInv, Installed, Tables

\* The policy after a deoptimisation drops both entries or none.
LEMMA TablesAfterDeopt ==
  ASSUME Inv, NEW k \in Keys, NEW reason, DeoptPolicy(k, reason)
  PROVE  Tables
<1> DEFINE counted == reason \in DOMAIN Counted
           count == IF ~counted THEN 0
                    ELSE IF sites[k][reason] < Counted[reason] THEN sites[k][reason] + 1
                    ELSE Counted[reason]
           removed == Recompiles(reason) \/ Abandons(reason, count)
<1>1. TypeInv /\ Installed
  BY DEF Inv
<1>2. CASE reason = NoReason
  BY <1>2, TablesKept DEF DeoptPolicy
<1>3. CASE reason # NoReason
  <2>1. /\ sites' = IF counted THEN [sites EXCEPT ![k][reason] = count] ELSE sites
        /\ code' = IF removed THEN [code EXCEPT ![k] = NoCode] ELSE code
        /\ entries' = IF removed THEN [entries EXCEPT ![k] = NoCode] ELSE entries
        /\ only' = IF Abandons(reason, count) THEN only \cup {k} ELSE only
    BY <1>3 DEF DeoptPolicy, EntriesWithout
  <2>2. NoCode \in Code
    BY DEF NoCode, Code
  <2>3. code' \in [Keys -> Code] /\ entries' \in [Keys -> Code]
    BY <1>1, <2>1, <2>2 DEF TypeInv
  <2>4. sites' \in [Keys -> [DOMAIN Counted -> Nat]]
    <3>1. CASE counted
      <4>1. sites[k] \in [DOMAIN Counted -> Nat] /\ sites[k][reason] \in Nat
        BY <1>1, <3>1 DEF TypeInv
      <4>2. Counted[reason] \in Nat
        BY <3>1 DEF Counted
      <4>3. count \in Nat
        BY <3>1, <4>1, <4>2
      <4> HIDE DEF count
      <4>4. [sites[k] EXCEPT ![reason] = count] \in [DOMAIN Counted -> Nat]
        BY <4>1, <4>3
      <4>5. sites' = [sites EXCEPT ![k] = [sites[k] EXCEPT ![reason] = count]]
        BY <2>1, <3>1
      <4> QED BY <1>1, <4>4, <4>5 DEF TypeInv
    <3>2. CASE ~counted
      BY <1>1, <2>1, <3>2 DEF TypeInv
    <3> QED BY <3>1, <3>2
  <2> HIDE DEF counted, count
  <2>5. only' \subseteq Keys /\ only \subseteq only'
    BY <1>1, <2>1 DEF TypeInv
  <2>6. Installed'
    <3> SUFFICES ASSUME NEW x \in Keys
                 PROVE  entries'[x] = NoCode \/ entries'[x] = code'[x]
      BY DEF Installed
    <3>1. entries[x] = NoCode \/ entries[x] = code[x]
      BY <1>1 DEF Installed
    <3>2. CASE removed
      BY <1>1, <2>1, <3>1, <3>2 DEF TypeInv
    <3>3. CASE ~removed
      BY <2>1, <3>1, <3>3
    <3> QED BY <3>2, <3>3
  <2> QED BY <2>3, <2>4, <2>5, <2>6 DEF Tables
<1> QED BY <1>2, <1>3

\* A step after which an interpreted frame is on top.
LEMMA InterpretedOnTop ==
  ASSUME Inv, NEW a \in Activation, NEW s \in Seq(Activation), a.kind = "interp",
         Rests(a, s), Beneath(s), stack' = <<a>> \o s,
         pending' \in BOOLEAN, pending' => InnermostRaised(s),
         jit' \in BOOLEAN, current' \in {"none", "vm", "fallback"},
         UNCHANGED <<threshold, versions>>, Tables
  PROVE  Inv' /\ NotGivenUp
<1>1. stack' \in Seq(Activation) /\ stack'[1] = a /\ Head(stack') = a
  BY Pushed
<1>2. TypeInv'
  BY <1>1 DEF Inv, TypeInv, Tables
<1>3. Beneath(stack')
  BY BeneathPushed
<1>4. pending' => InnermostRaised(stack')
  BY RaisedPushed
<1>5. HelpersFindVm'
  BY <1>1 DEF HelpersFindVm, InCompiled, Top
<1>6. NotGivenUp
  BY <1>1 DEF NotGivenUp, Tables
<1> QED BY <1>2, <1>3, <1>4, <1>5, <1>6 DEF Inv, Tables

\* A step after which compiled code that was entered before is on top.
LEMMA CompiledOnTop ==
  ASSUME Inv, NEW a \in Activation, NEW s \in Seq(Activation), a.kind = "jit",
         Rests(a, s), Beneath(s), stack' = <<a>> \o s, Len(s) < Len(stack),
         pending' \in BOOLEAN, pending' => a.raised,
         jit' \in BOOLEAN, current' = "vm",
         UNCHANGED <<threshold, versions>>, Tables
  PROVE  Inv' /\ NotGivenUp
<1>1. stack' \in Seq(Activation) /\ Len(stack') = Len(s) + 1
  BY Pushed
<1>2. TypeInv'
  BY <1>1 DEF Inv, TypeInv, Tables
<1>3. Beneath(stack')
  BY BeneathPushed
<1>4. pending' => InnermostRaised(stack')
  BY RaisedPushed
<1>5. HelpersFindVm'
  BY DEF HelpersFindVm
<1>6. ~(Len(stack') > Len(stack))
  <2>1. Len(s) \in Nat /\ Len(stack) \in Nat
    BY DEF Inv, TypeInv
  <2> QED BY <1>1, <2>1
<1>7. NotGivenUp
  BY <1>6 DEF NotGivenUp, Tables
<1> QED BY <1>2, <1>3, <1>4, <1>5, <1>7 DEF Inv, Tables

\* A step after which nothing runs.
LEMMA NothingOnTop ==
  ASSUME Inv, stack' = <<>>, pending' = FALSE,
         jit' \in BOOLEAN, current' \in {"none", "vm", "fallback"},
         UNCHANGED <<threshold, versions>>, Tables
  PROVE  Inv' /\ NotGivenUp
<1>1. TypeInv'
  BY EmptyStack DEF Inv, TypeInv, Tables
<1>2. HelpersFindVm'
  BY DEF HelpersFindVm, InCompiled
<1>3. ~(Len(stack') > Len(stack))
  BY DEF Inv, TypeInv
<1>4. NotGivenUp
  BY <1>3 DEF NotGivenUp, Tables
<1> QED BY <1>1, <1>2, <1>4, EmptyStack DEF Inv, Tables

\* A call of execute, whatever lies on the stack.
LEMMA ExecuteStep ==
  ASSUME Inv, NEW m \in Methods, NEW fallback \in BOOLEAN, NEW took \in BOOLEAN,
         Execute(m, fallback, took, stack)
  PROVE  Inv' /\ NotGivenUp
<1> DEFINE base == [Blank EXCEPT !.m = m, !.base = TRUE, !.fallback = fallback, !.took = took]
<1>1. base \in Activation /\ base.kind = "interp" /\ base.how = "call"
  <2>1. base \in Activation
    BY NewActivations, NoCodeType
  <2>2. base.kind = "interp" /\ base.how = "call"
    BY DEF Blank
  <2> QED BY <2>1, <2>2
<1>2. \/ /\ Obtainable(KeyOf(m, "execute"))
         /\ EnterCompiled(m, "execute", <<base>> \o stack)
      \/ /\ stack' = <<base>> \o stack
         /\ current' \in {"none", "vm", "fallback"}
         /\ jit' = (jit /\ ~took)
         /\ UNCHANGED <<threshold, versions, code, entries, sites, only, pending>>
  BY DEF Execute
<1> HIDE DEF base
<1>3. /\ stack \in Seq(Activation) /\ Beneath(stack) /\ jit \in BOOLEAN
      /\ pending \in BOOLEAN /\ (pending => InnermostRaised(stack))
  BY DEF Inv, TypeInv
<1>4. Rests(base, stack)
  BY <1>1 DEF Rests
<1>5. CASE Obtainable(KeyOf(m, "execute")) /\ EnterCompiled(m, "execute", <<base>> \o stack)
  <2>1. /\ <<base>> \o stack \in Seq(Activation) /\ <<base>> \o stack # <<>>
        /\ (<<base>> \o stack)[1] = base
    BY <1>1, <1>3, Pushed
  <2>2. Beneath(<<base>> \o stack)
    BY <1>1, <1>3, <1>4, BeneathPushed
  <2> QED BY <1>1, <1>5, <2>1, <2>2, EnterCompiledStep
<1>6. CASE /\ stack' = <<base>> \o stack
           /\ current' \in {"none", "vm", "fallback"}
           /\ jit' = (jit /\ ~took)
           /\ UNCHANGED <<threshold, versions, code, entries, sites, only, pending>>
  <2>1. jit' \in BOOLEAN /\ pending' \in BOOLEAN /\ (pending' => InnermostRaised(stack))
    BY <1>3, <1>6
  <2>2. Tables
    BY <1>6, TablesKept
  <2> QED BY <1>1, <1>3, <1>4, <1>6, <2>1, <2>2, InterpretedOnTop
<1> QED BY <1>2, <1>5, <1>6

\* What is known of the innermost exception under an interpreted frame.
LEMMA RaisedBelow ==
  ASSUME Inv, stack # <<>>, Top.kind = "interp", pending
  PROVE  InnermostRaised(Tail(stack))
BY TopOfStack, RaisedPushed DEF Inv

\* The interpreter changes the frame on top and nothing else.
LEMMA FrameChanges ==
  ASSUME Inv, stack # <<>>, Top.kind = "interp", NEW a \in Activation,
         a.kind = "interp", a.how = Top.how, stack' = Replace(a),
         UNCHANGED <<jit, threshold, versions, code, entries, sites, only, current, pending>>
  PROVE  Inv' /\ NotGivenUp
<1>1. stack' = <<a>> \o Tail(stack) /\ Tail(stack) \in Seq(Activation) /\ Beneath(Tail(stack))
  BY TopOfStack DEF Replace
<1>2. Rests(a, Tail(stack))
  BY TopOfStack DEF Rests
<1>3. /\ pending' \in BOOLEAN /\ jit' \in BOOLEAN /\ current' \in {"none", "vm", "fallback"}
  BY DEF Inv, TypeInv
<1>4. pending' => InnermostRaised(Tail(stack))
  BY RaisedBelow
<1> QED BY <1>1, <1>2, <1>3, <1>4, TablesKept, InterpretedOnTop

\* A frame whose counter of calls went up.
LEMMA CallsCounted ==
  ASSUME Inv, stack # <<>>, Top.kind = "interp", NEW calls,
         calls = IF Top.calls < threshold THEN Top.calls + 1 ELSE threshold
  PROVE  LET a == [Top EXCEPT !.calls = calls]
             below == Replace(a)
         IN /\ a \in Activation /\ a.kind = "interp" /\ a.how = Top.how
            /\ below \in Seq(Activation) /\ below # <<>>
            /\ below[1].kind = "interp" /\ Beneath(below)
            /\ (pending => InnermostRaised(below))
<1> DEFINE a == [Top EXCEPT !.calls = calls]
           below == <<a>> \o Tail(stack)
<1>1. /\ Top \in Activation /\ Tail(stack) \in Seq(Activation)
      /\ Rests(Top, Tail(stack)) /\ Beneath(Tail(stack))
  BY TopOfStack
<1>2. threshold \in Nat /\ Top.calls \in Nat
  BY <1>1 DEF Inv, TypeInv, Activation
<1>3. calls \in Nat
  BY <1>2
<1>4. a \in Activation /\ a.kind = "interp" /\ a.how = Top.how
  BY <1>1, <1>3 DEF Activation
<1> HIDE DEF a
<1>5. Rests(a, Tail(stack))
  BY <1>1, <1>4 DEF Rests
<1>6. below \in Seq(Activation) /\ below # <<>> /\ below[1] = a /\ Beneath(below)
  BY <1>1, <1>4, <1>5, Pushed, BeneathPushed
<1>7. pending => InnermostRaised(below)
  BY <1>1, <1>4, RaisedBelow, RaisedPushed
<1> QED BY <1>4, <1>6, <1>7 DEF a, Replace

\* A call from bytecode, into compiled code or a new frame.
LEMMA InvokeStaticStep ==
  ASSUME Inv, NEW m \in Methods, InvokeStatic(m)
  PROVE  Inv' /\ NotGivenUp
<1> DEFINE calls == IF Top.calls < threshold THEN Top.calls + 1 ELSE threshold
           below == Replace([Top EXCEPT !.calls = calls])
           a == [Blank EXCEPT !.m = m, !.fallback = Top.fallback]
<1>1. stack # <<>> /\ Top.kind = "interp"
  BY DEF InvokeStatic, Interpreting
<1>2. /\ below \in Seq(Activation) /\ below # <<>> /\ below[1].kind = "interp"
      /\ Beneath(below) /\ (pending => InnermostRaised(below))
  BY <1>1, CallsCounted
<1>3. \/ Obtainable(KeyOf(m, "call")) /\ EnterCompiled(m, "call", below)
      \/ /\ stack' = <<a>> \o below
         /\ UNCHANGED <<jit, threshold, versions, code, entries, sites, only, current, pending>>
  BY DEF InvokeStatic
<1> HIDE DEF below
<1>4. CASE Obtainable(KeyOf(m, "call")) /\ EnterCompiled(m, "call", below)
  BY <1>2, <1>4, EnterCompiledStep
<1>5. CASE /\ stack' = <<a>> \o below
           /\ UNCHANGED <<jit, threshold, versions, code, entries, sites, only, current, pending>>
  <2>1. a \in Activation
    <3>1. Top.fallback \in BOOLEAN
      BY <1>1, TopOfStack DEF Activation
    <3> QED BY <3>1, NewActivations, NoCodeType
  <2>2. a.kind = "interp" /\ a.how = "call"
    BY DEF Blank
  <2> HIDE DEF a
  <2>3. Rests(a, below)
    BY <2>2 DEF Rests
  <2>4. /\ pending' \in BOOLEAN /\ jit' \in BOOLEAN /\ current' \in {"none", "vm", "fallback"}
        /\ (pending' => InnermostRaised(below))
    BY <1>2, <1>5 DEF Inv, TypeInv
  <2> QED BY <1>2, <1>5, <2>1, <2>2, <2>3, <2>4, TablesKept, InterpretedOnTop
<1> QED BY <1>3, <1>4, <1>5

\* A loop, on in the interpreter or into compiled code.
LEMMA BackEdgeStep ==
  ASSUME Inv, BackEdge
  PROVE  Inv' /\ NotGivenUp
<1> DEFINE calls == IF Top.calls < threshold THEN Top.calls + 1 ELSE threshold
           a == [Top EXCEPT !.calls = calls]
           below == Replace(a)
<1>1. stack # <<>> /\ Top.kind = "interp" /\ Top.m \in Methods
  <2>1. stack # <<>> /\ Top.kind = "interp"
    BY DEF BackEdge, Interpreting
  <2> QED BY <2>1, TopOfStack DEF Activation
<1>2. /\ a \in Activation /\ a.kind = "interp" /\ a.how = Top.how
      /\ below \in Seq(Activation) /\ below # <<>> /\ below[1].kind = "interp"
      /\ Beneath(below)
  BY <1>1, CallsCounted
<1>3. \/ Obtainable(KeyOf(Top.m, "osr")) /\ EnterCompiled(Top.m, "osr", below)
      \/ /\ stack' = Replace(a)
         /\ UNCHANGED <<jit, threshold, versions, code, entries, sites, only, current, pending>>
  BY DEF BackEdge
<1> HIDE DEF a, below
<1>4. CASE Obtainable(KeyOf(Top.m, "osr")) /\ EnterCompiled(Top.m, "osr", below)
  BY <1>1, <1>2, <1>4, EnterCompiledStep
<1>5. CASE /\ stack' = Replace(a)
           /\ UNCHANGED <<jit, threshold, versions, code, entries, sites, only, current, pending>>
  BY <1>1, <1>2, <1>5, FrameChanges
<1> QED BY <1>3, <1>4, <1>5

\* A frame catches.
LEMMA CatchStep ==
  ASSUME Inv, Catch
  PROVE  Inv' /\ NotGivenUp
<1> DEFINE a == [Top EXCEPT !.throwing = FALSE]
<1>1. stack # <<>> /\ Top.kind = "interp" /\ stack' = Replace(a)
  BY DEF Catch
<1>2. a \in Activation /\ a.kind = "interp" /\ a.how = Top.how
  BY <1>1, TopOfStack DEF Activation
<1> HIDE DEF a
<1> QED BY <1>1, <1>2, FrameChanges DEF Catch

\* A frame throws.
LEMMA ThrowStep ==
  ASSUME Inv, Throw
  PROVE  Inv' /\ NotGivenUp
<1> DEFINE a == [Top EXCEPT !.throwing = TRUE]
<1>1. stack # <<>> /\ Top.kind = "interp" /\ stack' = Replace(a)
  BY DEF Throw, Interpreting
<1>2. a \in Activation /\ a.kind = "interp" /\ a.how = Top.how
  BY <1>1, TopOfStack DEF Activation
<1> HIDE DEF a
<1> QED BY <1>1, <1>2, FrameChanges DEF Throw

\* A program starts.
LEMMA StartStep ==
  ASSUME Inv, NEW m \in Methods, Start(m)
  PROVE  Inv' /\ NotGivenUp
BY ExecuteStep DEF Start

\* A native that calls back.
LEMMA InvokeNativeStep ==
  ASSUME Inv, NEW m \in Methods, InvokeNative(m)
  PROVE  Inv' /\ NotGivenUp
<1>1. Top.fallback \in BOOLEAN
  BY TopOfStack DEF InvokeNative, Interpreting, Activation
<1> QED BY <1>1, ExecuteStep DEF InvokeNative

\* Compiled code on top: it can find its Vm, and what is pending is its own.
LEMMA CompiledTop ==
  ASSUME Inv, InCompiled
  PROVE  /\ stack # <<>> /\ Top.kind = "jit" /\ current = "vm"
         /\ (pending => Top.raised)
BY TopOfStack, RaisedPushed DEF Inv, InCompiled, HelpersFindVm

\* Compiled code records something about itself.
LEMMA CompiledRecords ==
  ASSUME Inv, InCompiled, NEW a \in Activation, a.kind = "jit", a.how = Top.how,
         stack' = Replace(a), pending' \in BOOLEAN, pending' => a.raised,
         UNCHANGED <<jit, threshold, versions, code, entries, sites, only, current>>
  PROVE  Inv' /\ NotGivenUp
<1>1. /\ stack # <<>> /\ Top.kind = "jit" /\ current' = "vm"
  BY CompiledTop
<1>2. /\ stack' = <<a>> \o Tail(stack) /\ Tail(stack) \in Seq(Activation)
      /\ Beneath(Tail(stack)) /\ Len(Tail(stack)) < Len(stack)
  BY <1>1, TopOfStack DEF Replace
<1>3. Rests(a, Tail(stack))
  BY <1>1, TopOfStack DEF Rests
<1>4. jit' \in BOOLEAN
  BY DEF Inv, TypeInv
<1> QED BY <1>1, <1>2, <1>3, <1>4, TablesKept, CompiledOnTop

\* A helper of compiled code that calls bytecode or a native.
LEMMA HelperInvokeStep ==
  ASSUME Inv, NEW m \in Methods, HelperInvoke(m)
  PROVE  Inv' /\ NotGivenUp
<1>1. InCompiled /\ current # "none"
  BY CompiledTop DEF HelperInvoke
<1>2. PICK took \in BOOLEAN : Execute(m, FALSE, took, stack)
  BY <1>1 DEF HelperInvoke
<1> QED BY <1>2, ExecuteStep

\* A helper that fails marks the activation it was called from.
LEMMA HelperFailsStep ==
  ASSUME Inv, HelperFails
  PROVE  Inv' /\ NotGivenUp
<1>1. PICK reason \in Reasons \cup {NoReason} :
        /\ stack' = Replace([Top EXCEPT !.reason = reason,
                                        !.raised = @ \/ reason \in {"Exception", NoReason}])
        /\ pending' = (pending \/ reason \in {"Exception", NoReason})
  BY DEF HelperFails, Reasons
<1> DEFINE raises == reason \in {"Exception", NoReason}
           a == [Top EXCEPT !.reason = reason, !.raised = Top.raised \/ raises]
<1>2. /\ InCompiled /\ stack # <<>> /\ Top.kind = "jit" /\ Top \in Activation
      /\ (pending => Top.raised) /\ pending \in BOOLEAN
  BY CompiledTop, TopOfStack DEF HelperFails, Inv, TypeInv
<1>3. /\ stack' = Replace(a) /\ pending' = (pending \/ raises)
  BY <1>1
<1>4. raises \in BOOLEAN /\ Top.raised \in BOOLEAN
  BY <1>2 DEF Activation
<1> HIDE DEF raises
<1>5. /\ a \in Activation /\ a.kind = "jit" /\ a.how = Top.how
      /\ a.raised = (Top.raised \/ raises)
  <2>1. (Top.raised \/ raises) \in BOOLEAN
    BY <1>4
  <2>2. a \in Activation
    BY <1>1, <1>2, <2>1 DEF Activation
  <2>3. a.kind = "jit" /\ a.how = Top.how /\ a.raised = (Top.raised \/ raises)
    BY <1>2 DEF Activation
  <2> QED BY <2>2, <2>3
<1> HIDE DEF a
<1>6. pending' \in BOOLEAN /\ (pending' => a.raised)
  BY <1>2, <1>3, <1>4, <1>5
<1> QED BY <1>2, <1>3, <1>5, <1>6, CompiledRecords DEF HelperFails

\* What an activation above s leaves there.
LEMMA Delivered ==
  ASSUME NEW s \in Seq(Activation), s # <<>>, Beneath(s), NEW result \in {"ok", "throw"}
  PROVE  \E a \in Activation :
           /\ Deliver(s, result) = <<a>> \o Tail(s)
           /\ a.kind = s[1].kind /\ Rests(a, Tail(s))
           /\ (a.kind = "jit" => a.raised = (s[1].raised \/ result = "throw"))
<1>1. /\ Head(s) \in Activation /\ Tail(s) \in Seq(Activation) /\ s[1] = Head(s)
      /\ s = <<Head(s)>> \o Tail(s)
  BY TopAndRest
<1>2. Rests(Head(s), Tail(s))
  BY <1>1, BeneathPushed
<1> DEFINE h == Head(s)
           a == IF h.kind = "interp" THEN [h EXCEPT !.throwing = result = "throw"]
                ELSE IF result = "throw" THEN [h EXCEPT !.reason = "Exception", !.raised = TRUE]
                ELSE h
<1>3. Deliver(s, result) = <<a>> \o Tail(s)
  BY DEF Deliver
<1>4. CASE h.kind = "interp"
  <2>1. (result = "throw") \in BOOLEAN
    OBVIOUS
  <2>2. a \in Activation /\ a.kind = "interp" /\ a.how = h.how
    BY <1>1, <1>4, <2>1 DEF Activation
  <2> QED BY <1>1, <1>2, <1>3, <1>4, <2>2 DEF Rests
<1>5. CASE h.kind = "jit" /\ result = "throw"
  <2>1. "Exception" \in Reasons
    BY DEF Reasons
  <2>2. a \in Activation /\ a.kind = "jit" /\ a.how = h.how /\ a.raised = TRUE
    BY <1>1, <1>5, <2>1 DEF Activation
  <2>3. Rests(a, Tail(s))
    BY <1>2, <1>5, <2>2 DEF Rests
  <2> HIDE DEF a
  <2> QED BY <1>1, <1>3, <1>5, <2>2, <2>3
<1>6. CASE h.kind = "jit" /\ result = "ok"
  <2>1. a = h
    BY <1>6
  <2>2. h.raised \in BOOLEAN
    BY <1>1 DEF Activation
  <2>3. h.raised = (h.raised \/ result = "throw")
    BY <1>6, <2>2
  <2>4. Deliver(s, result) = <<h>> \o Tail(s)
    BY <1>3, <2>1
  <2> HIDE DEF a
  <2> QED BY <1>1, <1>2, <2>3, <2>4
<1>7. h.kind \in {"interp", "jit"}
  BY <1>1 DEF Activation
<1> QED BY <1>4, <1>5, <1>6, <1>7

\* What compiled code that was entered on s leaves there.
LEMMA HandedBack ==
  ASSUME NEW s \in Seq(Activation), s # <<>>, Beneath(s), s[1].kind = "interp",
         NEW how, NEW result \in {"ok", "throw"}
  PROVE  \E a \in Activation :
           /\ HandBack(s, how, result) = <<a>> \o Tail(s)
           /\ a.kind = "interp" /\ Rests(a, Tail(s))
<1>1. /\ Head(s) \in Activation /\ Tail(s) \in Seq(Activation) /\ s[1] = Head(s)
      /\ s = <<Head(s)>> \o Tail(s)
  BY TopAndRest
<1>2. CASE how = "call" \/ (how = "osr" /\ result = "throw")
  BY <1>2, Delivered DEF HandBack
<1>3. CASE ~(how = "call" \/ (how = "osr" /\ result = "throw"))
  <2> DEFINE a == [Head(s) EXCEPT !.done = result]
  <2>1. HandBack(s, how, result) = <<a>> \o Tail(s)
    BY <1>3 DEF HandBack
  <2>2. a \in Activation /\ a.kind = "interp" /\ a.how = Head(s).how
    BY <1>1 DEF Activation
  <2> HIDE DEF a
  <2>3. Rests(Head(s), Tail(s))
    BY <1>1, BeneathPushed
  <2>4. Rests(a, Tail(s))
    BY <2>2, <2>3 DEF Rests
  <2> QED BY <2>1, <2>2, <2>4
<1> QED BY <1>2, <1>3

\* Compiled code ends: it hands its result back, or an interpreted frame takes its place.
LEMMA CompleteJitStep ==
  ASSUME Inv, CompleteJit
  PROVE  Inv' /\ NotGivenUp
<1> DEFINE s == Tail(stack)
           result == IF pending THEN "throw" ELSE "ok"
           frame == [Blank EXCEPT !.m = Top.m, !.fallback = TRUE, !.how = Top.how,
                                  !.throwing = pending]
<1>1. /\ stack # <<>> /\ Top.kind = "jit" /\ Top \in Activation
      /\ s \in Seq(Activation) /\ s # <<>> /\ s[1].kind = "interp" /\ Beneath(s)
  BY TopOfStack DEF CompleteJit, InCompiled, Rests
<1>2. /\ DeoptPolicy(KeyOf(Top.m, Top.how), Top.reason)
      /\ stack' = <<frame>> \o s \/ stack' = HandBack(s, Top.how, result)
      /\ current' \in {"none", "vm", "fallback"} /\ pending' = FALSE
      /\ UNCHANGED <<jit, threshold, versions>>
  BY DEF CompleteJit
<1>3. Tables
  <2>1. KeyOf(Top.m, Top.how) \in Keys
    BY <1>1, KeyOfType DEF Activation
  <2> QED BY <1>2, <2>1, TablesAfterDeopt
<1>4. jit' \in BOOLEAN /\ pending \in BOOLEAN
  BY <1>2 DEF Inv, TypeInv
<1>5. CASE stack' = <<frame>> \o s
  <2>1. frame \in Activation
    <3>1. Top.m \in Methods /\ Top.how \in {"call", "osr", "execute"}
      BY <1>1 DEF Activation
    <3> QED BY <1>4, <3>1, NewActivations, NoCodeType
  <2>2. frame.kind = "interp"
    BY DEF Blank
  <2>3. Rests(frame, s)
    BY <1>1 DEF Rests
  <2> HIDE DEF frame, s
  <2> QED BY <1>1, <1>2, <1>3, <1>4, <1>5, <2>1, <2>2, <2>3, InterpretedOnTop
<1>6. CASE stack' = HandBack(s, Top.how, result)
  <2>1. result \in {"ok", "throw"}
    OBVIOUS
  <2> HIDE DEF result, frame
  <2>2. PICK a \in Activation : /\ HandBack(s, Top.how, result) = <<a>> \o Tail(s)
                                /\ a.kind = "interp" /\ Rests(a, Tail(s))
    BY <1>1, <2>1, HandedBack
  <2>3. Tail(s) \in Seq(Activation) /\ Beneath(Tail(s))
    BY <1>1, TopAndRest, BeneathPushed
  <2> QED BY <1>2, <1>3, <1>4, <1>6, <2>2, <2>3, InterpretedOnTop
<1> QED BY <1>2, <1>5, <1>6

\* A frame ends and the activation it lies on goes on.
LEMMA LeaveStep ==
  ASSUME Inv, Leave
  PROVE  Inv' /\ NotGivenUp
<1> DEFINE s == Tail(stack)
           resumed == Top.how # "call"
<1>1. /\ stack # <<>> /\ Top.kind = "interp" /\ Top \in Activation
      /\ s \in Seq(Activation) /\ Rests(Top, s) /\ Beneath(s)
  BY TopOfStack DEF Leave
<1>2. Top.done \in {"no", "ok", "throw"} /\ Top.took \in BOOLEAN
  BY <1>1 DEF Activation
<1>3. PICK result \in {"ok", "throw"} :
        /\ stack' = IF resumed THEN HandBack(s, Top.how, result) ELSE Deliver(s, result)
        /\ current' = VmLeft(Top.base, ToHelper(s) \/ Top.how = "osr")
        /\ jit' = (jit \/ Top.took)
        /\ pending' = (pending \/ (ToHelper(s) /\ result = "throw"))
  BY <1>2 DEF Leave
<1>4. Tables /\ UNCHANGED <<threshold, versions>>
  BY TablesKept DEF Leave
<1>5. /\ jit' \in BOOLEAN /\ current' \in {"none", "vm", "fallback"} /\ pending \in BOOLEAN
  <2>1. jit \in BOOLEAN /\ current \in {"none", "vm", "fallback"} /\ pending \in BOOLEAN
    BY DEF Inv, TypeInv
  <2> QED BY <1>2, <1>3, <2>1 DEF VmLeft
<1>6. pending => InnermostRaised(s)
  BY <1>1, RaisedBelow
<1>7. CASE s = <<>>
  <2>1. ~resumed /\ Deliver(s, result) = <<>>
    BY <1>1, <1>7 DEF Rests, Deliver
  <2>2. pending' = FALSE
    BY <1>3, <1>5, <1>6, <1>7, EmptyStack DEF ToHelper
  <2> HIDE DEF s
  <2> QED BY <1>3, <1>4, <1>5, <2>1, <2>2, NothingOnTop
<1>8. CASE s # <<>> /\ s[1].kind = "interp"
  <2>1. PICK a \in Activation :
          /\ stack' = <<a>> \o Tail(s) /\ a.kind = "interp" /\ Rests(a, Tail(s))
    <3>1. CASE resumed
      BY <1>1, <1>3, <1>8, <3>1, HandedBack
    <3>2. CASE ~resumed
      BY <1>1, <1>3, <1>8, <3>2, Delivered
    <3> QED BY <3>1, <3>2
  <2>2. /\ Tail(s) \in Seq(Activation) /\ Beneath(Tail(s)) /\ s = <<s[1]>> \o Tail(s)
        /\ s[1] \in Activation /\ s[1] = Head(s)
    BY <1>1, <1>8, TopAndRest, BeneathPushed
  <2>3. pending' = pending
    BY <1>3, <1>5, <1>8, <2>2 DEF ToHelper
  <2>4. pending => InnermostRaised(Tail(s))
    BY <1>6, <1>8, <2>2, RaisedPushed
  <2> HIDE DEF s
  <2> QED BY <1>4, <1>5, <2>1, <2>2, <2>3, <2>4, InterpretedOnTop
<1>9. CASE s # <<>> /\ s[1].kind = "jit"
  <2>1. ~resumed
    BY <1>1, <1>9 DEF Rests
  <2>2. PICK a \in Activation :
          /\ stack' = <<a>> \o Tail(s) /\ a.kind = "jit" /\ Rests(a, Tail(s))
          /\ a.raised = (s[1].raised \/ result = "throw")
    BY <1>1, <1>3, <1>9, <2>1, Delivered
  <2>3. /\ Tail(s) \in Seq(Activation) /\ Beneath(Tail(s)) /\ s = <<s[1]>> \o Tail(s)
        /\ s[1] \in Activation /\ s[1] = Head(s) /\ Len(Tail(s)) = Len(s) - 1
    <3> HIDE DEF s
    <3>1. /\ Tail(s) \in Seq(Activation) /\ s = <<s[1]>> \o Tail(s)
          /\ s[1] \in Activation /\ s[1] = Head(s) /\ Len(Tail(s)) = Len(s) - 1
      BY <1>1, <1>9, TopAndRest
    <3>2. Beneath(Tail(s))
      BY <1>1, <3>1, BeneathPushed
    <3> QED BY <3>1, <3>2
  <2>4. ToHelper(s)
    BY <1>9, <2>3 DEF ToHelper
  <2>5. current' = "vm" /\ pending' = (pending \/ result = "throw")
    BY <1>3, <2>4 DEF VmLeft
  <2>6. pending => s[1].raised
    BY <1>6, <1>9, <2>3, RaisedPushed
  <2>7. pending' \in BOOLEAN /\ (pending' => a.raised)
    BY <1>5, <2>2, <2>5, <2>6
  <2>8. Len(Tail(s)) < Len(stack)
    <3>1. Len(stack) = Len(s) + 1 /\ Len(s) \in Nat
      BY <1>1, TopOfStack
    <3> QED BY <2>3, <3>1
  <2> DEFINE under == Tail(s)
  <2> HIDE DEF under
  <2>9. /\ under \in Seq(Activation) /\ Beneath(under) /\ Len(under) < Len(stack)
        /\ stack' = <<a>> \o under /\ Rests(a, under)
    BY <2>2, <2>3, <2>8 DEF under
  <2> HIDE DEF s, resumed
  <2> QED BY <1>4, <1>5, <2>2, <2>5, <2>7, <2>9, CompiledOnTop
<1>10. s # <<>> => s[1] \in Activation
  BY <1>1, TopAndRest
<1> QED BY <1>7, <1>8, <1>9, <1>10 DEF Activation

-----------------------------------------------------------------------------
(* The theorems.                                                           *)

\* The invariant holds initially.
LEMMA InvInitially == Init => Inv
<1> SUFFICES ASSUME Init PROVE Inv
  OBVIOUS
<1>1. TypeInv
  <2>1. sites \in [Keys -> [DOMAIN Counted -> Nat]] /\ threshold \in Nat
    BY DEF Init
  <2> QED BY <2>1, NoCodeType, EmptyStack DEF Init, TypeInv
<1>2. HelpersFindVm /\ Installed
  BY DEF Init, HelpersFindVm, InCompiled, Installed
<1> QED BY <1>1, <1>2, EmptyStack DEF Init, Inv

\* Every step keeps the invariant and does what GivenUpForGood asks.
LEMMA InvKept == Inv /\ [Next]_vars => Inv' /\ [NotGivenUp]_vars
<1> SUFFICES ASSUME Inv, [Next]_vars PROVE Inv' /\ [NotGivenUp]_vars
  OBVIOUS
<1>1. ASSUME NEW m \in Methods, Start(m) PROVE Inv' /\ NotGivenUp
  BY <1>1, StartStep
<1>2. ASSUME NEW m \in Methods, InvokeStatic(m) PROVE Inv' /\ NotGivenUp
  BY <1>2, InvokeStaticStep
<1>3. ASSUME NEW m \in Methods, InvokeNative(m) PROVE Inv' /\ NotGivenUp
  BY <1>3, InvokeNativeStep
<1>4. ASSUME NEW m \in Methods, HelperInvoke(m) PROVE Inv' /\ NotGivenUp
  BY <1>4, HelperInvokeStep
<1>5. CASE BackEdge
  BY <1>5, BackEdgeStep
<1>6. CASE Leave
  BY <1>6, LeaveStep
<1>7. CASE Catch
  BY <1>7, CatchStep
<1>8. CASE Throw
  BY <1>8, ThrowStep
<1>9. CASE HelperFails
  BY <1>9, HelperFailsStep
<1>10. CASE CompleteJit
  BY <1>10, CompleteJitStep
<1>11. CASE UNCHANGED vars
  <2>1. Inv'
    BY <1>11 DEF vars, Inv, TypeInv, Beneath, InnermostRaised, HelpersFindVm, InCompiled,
                 Top, Installed
  <2> QED BY <1>11, <2>1
<1> QED BY <1>1, <1>2, <1>3, <1>4, <1>5, <1>6, <1>7, <1>8, <1>9, <1>10, <1>11 DEF Next

\* The inductive invariant holds throughout.
LEMMA InvAlways == Spec => []Inv
BY InvInitially, InvKept, PTL DEF Spec

\* Wherever compiled code runs, its helpers find the Vm.
THEOREM HelpersFindVmCorrect == Spec => []HelpersFindVm
<1>1. Inv => HelpersFindVm
  BY DEF Inv
<1> QED BY <1>1, InvAlways, PTL

\* The exception that compiled code finds pending is its own.
THEOREM PendingIsOwnCorrect == Spec => []PendingIsOwn
<1>1. Inv => PendingIsOwn
  BY CompiledTop DEF PendingIsOwn
<1> QED BY <1>1, InvAlways, PTL

\* The manager and the context hold the same code of a method, or one holds none.
THEOREM MetadataOfEntryCorrect == Spec => []MetadataOfEntry
<1>1. Inv => MetadataOfEntry
  <2> SUFFICES ASSUME Inv, NEW k \in Keys
               PROVE  {code[k], entries[k]} \cap {NoCode} # {} \/ code[k] = entries[k]
    BY DEF MetadataOfEntry
  <2>1. entries[k] = NoCode \/ entries[k] = code[k]
    BY DEF Inv, Installed
  <2> QED BY <2>1
<1> QED BY <1>1, InvAlways, PTL

\* A method that was given up stays so and enters compiled code on no way in.
THEOREM GivenUpForGoodCorrect == Spec => GivenUpForGood
<1>1. Spec => [][NotGivenUp]_vars
  BY InvAlways, InvKept, PTL DEF Spec
<1> QED BY <1>1 DEF GivenUpForGood, NotGivenUp
=============================================================================
