------------------------------ MODULE MCBytecode ------------------------------
(***************************************************************************)
(* One small method, every one that a theme allows, is verified and        *)
(* executed, interpreted or compiled.                                      *)
(***************************************************************************)
EXTENDS CompiledExecution, TLC

Exceptions == {"Throwable", "E", "NullPointerException", "ArithmeticException",
               "ArrayIndexOutOfBoundsException", "ClassCastException",
               "NegativeArraySizeException", "IllegalMonitorStateException"}
MCClass == {"A", "B", "[I", "[J", "[F", "[D", "[A", "?"} \cup Exceptions
MCIsA == {<<c, c>> : c \in MCClass} \cup {<<"B", "A">>}
           \cup {<<c, "Throwable">> : c \in Exceptions}

-----------------------------------------------------------------------------
(* Instructions.                                                           *)

const(t) == [op |-> "const", t |-> t]
load(k, n) == [op |-> "load", k |-> k, n |-> n]
store(k, n) == [op |-> "store", k |-> k, n |-> n]
on(o, k) == [op |-> o, k |-> k]
stk(o) == [op |-> o]
if(k, n, to) == [op |-> "if", k |-> k, n |-> n, to |-> to]
jump(o, to) == [op |-> o, to |-> to]
field(o, t) == [op |-> o, c |-> "A", t |-> t]
obj(o, c) == [op |-> o, c |-> c, n |-> 1]
conv(from, to) == [op |-> "conv", from |-> from, to |-> to]
invoke(mode, args, r, callee) ==
  [op |-> "invoke", mode |-> mode, args |-> args, r |-> r, c |-> "A", callee |-> callee]
return(k) == [op |-> "return", k |-> k]

RefA == <<"Ref", "A">>
iconst == const(IntT)
lconst == const(LongT)
anull == const(NullT)

Plain == [code |-> <<>>, handlers |-> <<>>, max_stack |-> 4, max_locals |-> 3,
          receiver |-> "none", params |-> <<>>, returns |-> <<>>, frames |-> <<>>]

MCCallees ==
  [id |-> [Plain EXCEPT !.code = <<load("I", 0), return("I")>>, !.max_locals = 1,
             !.params = <<IntT>>, !.returns = <<IntT>>],
   wide |-> [Plain EXCEPT !.code = <<load("J", 1), return("J")>>, !.max_locals = 3,
             !.params = <<RefA, LongT>>, !.returns = <<LongT>>],
   throws |-> [Plain EXCEPT !.code = <<load("A", 0), stk("athrow")>>, !.max_locals = 1,
             !.params = <<RefA>>],
   init |-> [Plain EXCEPT !.code = <<return("V")>>, !.max_locals = 1, !.receiver = "A"]]

\* What the verifier finds for them.
Locals(ls) == [locals |-> ls, stack |-> <<>>, is |-> "known"]
MCCertificate ==
  [id |-> <<Locals(<<IntT>>), At(<<IntT>>, <<IntT>>)>>,
   wide |-> <<Locals(<<RefA, LongT, Unset>>), At(<<RefA, LongT, Unset>>, <<LongT>>)>>,
   throws |-> <<Locals(<<RefA>>), At(<<RefA>>, <<RefA>>)>>,
   init |-> <<Locals(<<RefA>>)>>]

Handler(start, end, to, c) == [start |-> start, end |-> end, to |-> to, catch |-> c]

-----------------------------------------------------------------------------
(* A theme: the frame of the method, what its instructions may be, how     *)
(* many there are and how the method ends.                                 *)

Theme(m, alphabet, n, last) == [m |-> m, alphabet |-> alphabet, n |-> n, last |-> last]

Themes == {
  Theme([Plain EXCEPT !.params = <<IntT, LongT>>, !.max_stack = 6],
        {load("I", 0), load("J", 1)} \cup {stk(o) : o \in StackOps}
          \cup {store("J", 0), store("I", 2)}, 4, <<return("V")>>),
  Theme([Plain EXCEPT !.params = <<RefA>>, !.max_stack = 2],
        {iconst, anull, lconst, load("I", 1), load("A", 0), load("J", 1), store("I", 1), store("A", 0), store("I", 0),
         store("J", 1), store("A", 2), store("I", 2), [op |-> "iinc", n |-> 1], field("getfield", IntT),
         stk("pop")}, 4, <<return("V")>>),
  Theme([Plain EXCEPT !.params = <<IntT>>, !.max_stack = 2, !.returns = <<IntT>>],
        {iconst, stk("pop"), load("I", 0), store("I", 1), if("I", 1, 1), if("I", 1, 4), jump("goto", 2),
         jump("goto", 4), jump("goto", 5), [op |-> "switch", tos |-> <<2, 4>>], [op |-> "iinc", n |-> 0],
         load("I", 1), return("I")},
        4, <<iconst, return("I")>>),
  Theme([Plain EXCEPT !.params = <<RefA, IntT>>, !.max_stack = 3, !.returns = <<IntT>>,
                      !.handlers = <<Handler(2, 3, 5, "E"), Handler(1, 4, 5, "any")>>],
        {load("I", 1), load("A", 0), on("div", "I"), stk("athrow"), field("getfield", IntT),
         store("A", 1), store("A", 2), stk("pop"), obj("checkcast", "B"), jump("goto", 6),
         invoke("static", <<>>, <<IntT>>, "native")},
        4, <<stk("pop"), load("I", 1), return("I")>>),
  Theme([Plain EXCEPT !.receiver = "A", !.max_stack = 3, !.max_locals = 1, !.returns = <<RefA>>],
        {obj("new", "A"), stk("dup"), stk("pop"), invoke("init", <<>>, <<>>, "init"), load("A", 0),
         store("A", 0), field("putfield", RefA), field("getfield", RefA), field("putstatic", RefA),
         obj("instanceof", "A"), [op |-> "monitor", n |-> 0], [op |-> "monitor", n |-> 1], anull},
        4, <<return("A")>>),
  Theme([Plain EXCEPT !.receiver = "init", !.max_stack = 3],
        {load("A", 0), invoke("init", <<>>, <<>>, "init"), store("A", 1), load("A", 1),
         field("putfield", IntT), iconst, if("A", 1, 4)}, 4, <<return("V")>>),
  Theme([Plain EXCEPT !.params = <<IntT>>, !.max_stack = 3],
        {load("I", 0), on("newarray", "I") @@ [n |-> 1, c |-> "[J"], stk("dup"), on("arrayload", "J"),
         on("arraystore", "J"), lconst, store("A", 1), load("A", 1), on("arraylength", "I"),
         on("arrayload", "I"), stk("pop")}, 4, <<return("V")>>),
  Theme([Plain EXCEPT !.params = <<LongT, RefA, FloatT>>, !.max_locals = 4, !.returns = <<IntT>>,
                      !.handlers = <<Handler(1, 5, 6, "E")>>],
        {load("A", 2), load("J", 0), iconst, field("getfield", IntT), invoke("virtual", <<>>, <<IntT>>, "native"),
         invoke("static", <<IntT>>, <<IntT>>, "id"), invoke("static", <<RefA, LongT>>, <<LongT>>, "wide"),
         invoke("static", <<RefA>>, <<>>, "throws"), invoke("dynamic", <<LongT>>, <<RefA>>, "native"),
         stk("pop"), on("shift", "J"), conv("J", "I")},
        4, <<jump("goto", 8), field("getfield", IntT), return("I"), iconst, return("I")>>),
  Theme([Plain EXCEPT !.receiver = "A", !.params = <<IntT>>, !.max_stack = 2, !.returns = <<IntT>>],
        {load("A", 0), anull, field("getfield", IntT), store("I", 1), if("I", 1, 1),
         jump("goto", 1), jump("goto", 2), [op |-> "iinc", n |-> 1], stk("pop"), obj("instanceof", "B"), store("A", 1)},
        4, <<iconst, return("I")>>),
  Theme([Plain EXCEPT !.params = <<IntT>>, !.max_stack = 2, !.max_locals = 1],
        {field("getstatic", RefA), field("getfield", IntT), if("I", 1, 1), if("I", 1, 2),
         load("I", 0), [op |-> "iinc", n |-> 0]}, 5, <<return("V")>>),
  Theme([Plain EXCEPT !.params = <<LongT>>, !.max_stack = 2],
        {load("J", 0), store("I", 1), iconst, if("I", 1, 1), stk("pop2"), store("J", 1)}, 5, <<return("V")>>),
  Theme([Plain EXCEPT !.max_stack = 2, !.max_locals = 2],
        {jump("jsr", 2), jump("jsr", 4), store("A", 0), [op |-> "ret", n |-> 0], jump("goto", 5), stk("pop"),
         store("A", 1), [op |-> "ret", n |-> 1], stk("dup")}, 4, <<return("V")>>),
  Theme([Plain EXCEPT !.params = <<FloatT, DoubleT>>, !.returns = <<FloatT>>,
                      !.frames = <<[pc |-> 3, locals |-> <<FloatT, DoubleT>>, stack |-> <<FloatT>>]>>],
        {load("F", 0), load("D", 1), conv("F", "D"), conv("D", "F"), conv("D", "I"), conv("I", "F"),
         on("bin", "F"), on("bin", "D"), on("neg", "F"), on("cmp", "D"), on("shift", "I"), store("D", 1)},
        4, <<return("F")>>),
  Theme([Plain EXCEPT !.max_stack = 2, !.returns = <<IntT>>],
        {iconst, stk("pop"), return("I"), jump("jsr", 1), store("A", 0), [op |-> "ret", n |-> 0], jump("goto", 3)},
        3, <<>>),
  Theme([Plain EXCEPT !.max_stack = 2],
        {jump("goto", 3), jump("goto", 5), anull, iconst, stk("pop"), field("getfield", IntT), return("V")},
        4, <<iconst, jump("goto", 2)>>),
  Theme([Plain EXCEPT !.max_stack = 2, !.params = <<LongT>>],
        {anull, store("A", 0), load("A", 0), stk("pop"), jump("goto", 3), jump("goto", 4)}, 4, <<jump("goto", 3)>>)}
ASSUME ThemesAreMethods ==
  \A t \in Themes : /\ \A i \in t.alphabet : IsMethod([t.m EXCEPT !.code = <<i>>])
                    /\ t.last # <<>> => IsMethod([t.m EXCEPT !.code = t.last])

Codes(t) == {c \o t.last : c \in [1 .. t.n -> t.alphabet]}

Init ==
  /\ \E t \in Themes : \E c \in Codes(t) : method = [t.m EXCEPT !.code = c]
  /\ InitVerifier /\ InitLowering
  /\ frames = <<>> /\ outcome = Continue
  /\ jit = JitOff
  /\ phase = "verify"

Spec == Init /\ [][CompiledNext]_vars
=============================================================================
