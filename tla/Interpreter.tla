----------------------------- MODULE Interpreter -----------------------------
(***************************************************************************)
(* One thread of the bytecode interpreter: execute, execute_opcode and     *)
(* throw_exception of src/src/vm/mod.rs with frame.rs and interpreter.rs.  *)
(*                                                                         *)
(* Values are reduced to their variant, and for objects to their class;    *)
(* what depends on the number, on nullness of a result or on the outside   *)
(* is a choice.  A callee is a method of Callees or the native one.        *)
(***************************************************************************)
EXTENDS Bytecode

CONSTANTS Callees,   \* methods that can be called: a function from names
          MaxDepth   \* bound: frames of a thread

VARIABLES frames,    \* the call stack, innermost frame first
          outcome    \* [is, what]: running, throwing an object, or how it ended

ivars == <<frames, outcome>>

Obj(c) == <<"Obj", c>>
ReturnAddress(pc) == <<"Ret", pc>>
NoValue == <<"None">>
IsReference(v) == v[1] \in {"Null", "Obj"}

\* The values a result of this type may have.
ValuesOf(t) ==
  CASE t[1] \in {"Int", "Long", "Float", "Double", "Null"} -> {t}
    [] t[1] = "Ref" -> {NullT, Obj(t[2])}

MethodOf(f) == IF f.m = "main" THEN method ELSE Callees[f.m]

NewFrame(name, locals) == [m |-> name, pc |-> 1, locals |-> locals, stack |-> <<>>]

\* args_to_locals: a wide value is followed by an empty slot.
FrameLocals(args, max) == Spread(args, max, NoValue)

-----------------------------------------------------------------------------
(* What one opcode can do.  The frame's pc is already past it.             *)

Step(f) == [is |-> "step", frame |-> f]
Throws(c) == [is |-> "throw", class |-> c]
VmError(e) == [is |-> "error", what |-> e]
NPE == Throws("NullPointerException")

\* Drop n operands, push vs and go on at pc.
JumpTo(f, n, vs, pc) ==
  IF Len(f.stack) - n + Len(vs) > MethodOf(f).max_stack THEN VmError("StackOverflow")
  ELSE Step([f EXCEPT !.pc = pc, !.stack = vs \o Below(f.stack, n)])
Go(f, n, vs) == JumpTo(f, n, vs, f.pc)

\* as_int, as_reference and the like.
Is(want, v) ==
  CASE want = "Any" -> TRUE
    [] want = "Reference" -> IsReference(v)
    [] OTHER -> v[1] = want

\* Pop operands of these variants, top first, then one of the results.
Popping(f, wants, results) ==
  IF Len(f.stack) < Len(wants) THEN {VmError("StackUnderflow")}
  ELSE IF \E j \in 1 .. Len(wants) : ~Is(wants[j], f.stack[j]) THEN {VmError("TypeMismatch")}
  ELSE results

KindOf(k) == TypeOf(k)[1]

\* A string constant is an object already.
Constant(i, f) ==
  {Go(f, 0, <<v>>) : v \in IF i.t[1] = "Ref" THEN {Obj("A")} ELSE ValuesOf(i.t)}

\* Loads and stores copy whatever is there.
Load(i, f) ==
  IF i.n >= Len(f.locals) THEN {VmError("InvalidLocalIndex")}
  ELSE IF f.locals[i.n + 1] = NoValue THEN {VmError("UninitializedLocal")}
  ELSE {Go(f, 0, <<f.locals[i.n + 1]>>)}

Store(i, f) ==
  LET stored == StoreSlot(f.locals, i.n, f.stack[1], NoValue)
  IN IF f.stack = <<>> THEN {VmError("StackUnderflow")}
     ELSE IF ~stored.ok THEN {VmError("InvalidLocalIndex")}
     ELSE {Step([f EXCEPT !.locals = stored.locals, !.stack = Tail(@)])}

Increment(i, f) ==
  IF i.n >= Len(f.locals) \/ f.locals[i.n + 1] = NoValue THEN {VmError("UninitializedLocal")}
  ELSE IF f.locals[i.n + 1] # IntT THEN {VmError("TypeMismatch")}
  ELSE {Step(f)}

\* The class of the array an element kind is kept in.
ArrayOf(k) == IF k = "A" THEN "[A" ELSE IF TypeOf(k) = IntT THEN "[I" ELSE "[" \o k
NotAnArray == VmError("InvalidHeapValue")
OutOfBounds == Throws("ArrayIndexOutOfBoundsException")

OnArray(v, ok, results) ==
  IF v = NullT THEN {NPE} ELSE IF v[2] \in ok THEN results \cup {OutOfBounds}
  ELSE {NotAnArray}

\* The long, float and double loads share one heap access that returns
\* whatever the array holds.
ArrayLoad(i, f) ==
  Popping(f, <<"Int", "Reference">>,
    LET a == f.stack[2]
    IN IF i.k \in {"J", "F", "D"}
       THEN OnArray(a, {"[J", "[F", "[D"},
                    {Go(f, 2, <<TypeOf(k)>>) : k \in {x \in {"J", "F", "D"} : a = Obj(ArrayOf(x))}})
       ELSE IF i.k = "A"
       THEN OnArray(a, {"[A"}, {Go(f, 2, <<v>>) : v \in {NullT, Obj("A")}})
       ELSE OnArray(a, {"[I"}, {Go(f, 2, <<IntT>>)}))

ArrayStore(i, f) ==
  LET want == CASE i.k \in {"J", "F", "D"} -> "Any" [] i.k = "A" -> "Reference" [] OTHER -> "Int"
  IN Popping(f, <<want, "Int", "Reference">>,
       OnArray(f.stack[3],
               IF want # "Any" THEN {ArrayOf(i.k)}
               ELSE {ArrayOf(k) : k \in {x \in {"J", "F", "D"} : TypeOf(x) = f.stack[1]}},
               {Go(f, 3, <<>>)}))

\* The stack instructions look at categories only where the code does:
\* 0 is any category, and the first form that fits is taken.
StackForms(op) ==
  CASE op = "pop" -> <<<<<<0>>, <<>>>>>>
    [] op = "pop2" -> <<<<<<2>>, <<>>>>, <<<<1, 0>>, <<>>>>>>
    [] op = "dup" -> <<<<<<0>>, <<1, 1>>>>>>
    [] op = "dup_x1" -> <<<<<<1, 1>>, <<1, 2, 1>>>>>>
    [] op = "swap" -> <<<<<<1, 1>>, <<2, 1>>>>>>
    [] op = "dup2" -> <<<<<<2>>, <<1, 1>>>>, <<<<1, 0>>, <<1, 2, 1, 2>>>>>>
    [] op = "dup_x2" -> <<<<<<1, 2>>, <<1, 2, 1>>>>, <<<<1, 1, 1>>, <<1, 2, 3, 1>>>>>>
    [] op = "dup2_x1" -> <<<<<<2, 0>>, <<1, 2, 1>>>>, <<<<1, 0, 0>>, <<1, 2, 3, 1, 2>>>>>>
    [] op = "dup2_x2" -> <<<<<<2, 2>>, <<1, 2, 1>>>>, <<<<2, 1, 0>>, <<1, 2, 3, 1>>>>,
                           <<<<1, 2, 0>>, <<1, 2, 3, 1, 2>>>>, <<<<1, 1, 0, 0>>, <<1, 2, 3, 4, 1, 2>>>>>>

Rearrange(i, f) ==
  LET cat(j) == IF Wide(f.stack[j]) THEN 2 ELSE 1
      forms == StackForms(i.op)
      fits(x) == /\ Len(x[1]) <= Len(f.stack)
                 /\ \A j \in 1 .. Len(x[1]) : x[1][j] \in {0, cat(j)}
      matching == {j \in 1 .. Len(forms) : fits(forms[j])}
  IN IF matching = {} THEN {VmError("BadStackForm")}
     ELSE LET x == forms[CHOOSE j \in matching : \A o \in matching : j <= o]
          IN {Go(f, Len(x[1]), Permute(f.stack, x[2]))}

\* A division pops only the divisor before it throws.
Arithmetic(i, f) ==
  LET t == TypeOf(i.k)
  IN CASE i.op = "bin" -> Popping(f, <<t[1], t[1]>>, {Go(f, 2, <<t>>)})
       [] i.op = "div" -> Popping(f, <<t[1], t[1]>>,
                                  {Go(f, 2, <<t>>), Throws("ArithmeticException")})
       [] i.op = "neg" -> Popping(f, <<t[1]>>, {Go(f, 1, <<t>>)})

Shift(i, f) == Popping(f, <<"Int", KindOf(i.k)>>, {Go(f, 2, <<TypeOf(i.k)>>)})

Conversion(i, f) == Popping(f, <<KindOf(i.from)>>, {Go(f, 1, <<TypeOf(i.to)>>)})

Comparison(i, f) == Popping(f, <<KindOf(i.k), KindOf(i.k)>>, {Go(f, 2, <<IntT>>)})

Branch(i, f) ==
  Popping(f, [j \in 1 .. i.n |-> IF i.k = "A" THEN "Reference" ELSE "Int"],
          {JumpTo(f, i.n, <<>>, i.to), Go(f, i.n, <<>>)})

Switch(i, f) == Popping(f, <<"Int">>, {JumpTo(f, 1, <<>>, i.tos[j]) : j \in DOMAIN i.tos})

Jump(i, f) ==
  CASE i.op = "goto" -> {JumpTo(f, 0, <<>>, i.to)}
    [] i.op = "jsr" -> {JumpTo(f, 0, <<ReturnAddress(f.pc)>>, i.to)}
    [] i.op = "ret" ->
         LET v == IF i.n < Len(f.locals) THEN f.locals[i.n + 1] ELSE NoValue
         IN IF v = NoValue THEN {VmError("UninitializedLocal")}
            ELSE IF v[1] # "Ret" THEN {VmError("TypeMismatch")}
            ELSE IF v[2] > Len(MethodOf(f).code) THEN {VmError("InvalidBranchTarget")}
            ELSE {JumpTo(f, 0, <<>>, v[2])}

\* A field is found when the object's class has it; exception objects the VM
\* makes have none.
HasFields(v, c) == <<v[2], c>> \in IsA
OnObject(v, c, results) ==
  IF v = NullT THEN {NPE} ELSE IF HasFields(v, c) THEN results ELSE {VmError("FieldNotFound")}

FieldAccess(i, f) ==
  CASE i.op = "getstatic" -> {Go(f, 0, <<v>>) : v \in ValuesOf(i.t)}
    [] i.op = "putstatic" -> Popping(f, <<"Any">>, {Go(f, 1, <<>>)})
    [] i.op = "getfield" -> Popping(f, <<"Reference">>,
         OnObject(f.stack[1], i.c, {Go(f, 1, <<v>>) : v \in ValuesOf(i.t)}))
    [] i.op = "putfield" -> Popping(f, <<"Any", "Reference">>,
         OnObject(f.stack[2], i.c, {Go(f, 2, <<>>)}))

\* Arguments and receiver are popped; a native callee returns a value of its
\* type or signals a Java exception, a bytecode callee gets a frame.
Call(i, f, receiver) ==
  LET n == Len(i.args) + receiver
      args == [j \in 1 .. n |-> f.stack[n + 1 - j]]
      results == IF i.r = <<>> THEN {<<>>} ELSE {<<v>> : v \in ValuesOf(i.r[1])}
  IN Popping(f, [j \in 1 .. n |-> IF j = n /\ receiver = 1 THEN "Reference" ELSE "Any"],
       IF i.callee = "native"
       THEN {Go(f, n, r) : r \in results} \cup {Throws("E")}
       ELSE {[is |-> "call", frame |-> [f EXCEPT !.stack = Below(@, n)],
              callee |-> NewFrame(i.callee, FrameLocals(args, Callees[i.callee].max_locals))]})

\* A null receiver is noticed where its class is needed: not by invokespecial.
NullThere(i, f) ==
  /\ Len(f.stack) > Len(i.args)
  /\ f.stack[Len(i.args) + 1] = NullT
CallStatic(i, f) == Call(i, f, 0)
CallSpecial(i, f) == Call(i, f, 1)
CallVirtual(i, f) == IF NullThere(i, f) THEN {NPE} ELSE Call(i, f, 1)
CallInterface(i, f) == IF NullThere(i, f) THEN {NPE} ELSE Call(i, f, 1)

\* invokedynamic makes an object or a value itself, or throws while it links.
CallDynamic(i, f) ==
  LET n == Len(i.args)
  IN Popping(f, [j \in 1 .. n |-> "Any"],
             {Go(f, n, <<v>>) : v \in ValuesOf(i.r[1])} \cup {Throws("E")})

NewArray(i, f) ==
  Popping(f, [j \in 1 .. i.n |-> "Int"],
          {Go(f, i.n, <<Obj(i.c)>>), Throws("NegativeArraySizeException")})

ArrayLength(f) ==
  Popping(f, <<"Reference">>,
    IF f.stack[1] = NullT THEN {NPE}
    ELSE IF f.stack[1][2] \in {ArrayOf(k) : k \in {"I", "J", "F", "D", "A"}}
    THEN {Go(f, 1, <<IntT>>)} ELSE {NotAnArray})

NewObject(i, f) == {Go(f, 0, <<Obj(i.c)>>)}

Athrow(f) ==
  Popping(f, <<"Reference">>, {IF f.stack[1] = NullT THEN NPE ELSE Throws(f.stack[1][2])})

TypeTest(i, f) ==
  Popping(f, <<"Reference">>,
    IF i.op = "instanceof" THEN {Go(f, 1, <<IntT>>)}
    ELSE IF f.stack[1] = NullT \/ <<f.stack[1][2], i.c>> \in IsA
         THEN {Step(f)} ELSE {Throws("ClassCastException")})

\* monitorenter (n = 0) of null throws; monitorexit can find the monitor unowned.
MonitorOp(i, f) ==
  Popping(f, <<"Reference">>,
    IF f.stack[1] = NullT THEN {NPE}
    ELSE {Go(f, 1, <<>>)} \cup IF i.n = 0 THEN {} ELSE {Throws("IllegalMonitorStateException")})

\* The value returned is whatever is on top.
Return(i, f) ==
  IF i.k = "V" THEN {[is |-> "return", value |-> <<>>]}
  ELSE Popping(f, <<"Any">>, {[is |-> "return", value |-> <<f.stack[1]>>]})

Invoke(i, f) ==
  CASE i.mode = "static" -> CallStatic(i, f)
    [] i.mode \in {"special", "init"} -> CallSpecial(i, f)
    [] i.mode = "virtual" -> CallVirtual(i, f)
    [] i.mode = "interface" -> CallInterface(i, f)
    [] i.mode = "dynamic" -> CallDynamic(i, f)

ExecuteOpcode(i, f) ==
  CASE i.op = "const" -> Constant(i, f)
    [] i.op = "load" -> Load(i, f)
    [] i.op = "store" -> Store(i, f)
    [] i.op = "iinc" -> Increment(i, f)
    [] i.op = "arrayload" -> ArrayLoad(i, f)
    [] i.op = "arraystore" -> ArrayStore(i, f)
    [] i.op \in StackOps -> Rearrange(i, f)
    [] i.op \in {"bin", "div", "neg"} -> Arithmetic(i, f)
    [] i.op = "shift" -> Shift(i, f)
    [] i.op = "conv" -> Conversion(i, f)
    [] i.op = "cmp" -> Comparison(i, f)
    [] i.op = "if" -> Branch(i, f)
    [] i.op = "switch" -> Switch(i, f)
    [] i.op \in {"goto", "jsr", "ret"} -> Jump(i, f)
    [] i.op \in {"getstatic", "putstatic", "getfield", "putfield"} -> FieldAccess(i, f)
    [] i.op = "invoke" -> Invoke(i, f)
    [] i.op = "new" -> NewObject(i, f)
    [] i.op = "newarray" -> NewArray(i, f)
    [] i.op = "arraylength" -> ArrayLength(f)
    [] i.op = "athrow" -> Athrow(f)
    [] i.op \in {"checkcast", "instanceof"} -> TypeTest(i, f)
    [] i.op = "monitor" -> MonitorOp(i, f)
    [] i.op = "return" -> Return(i, f)

-----------------------------------------------------------------------------
(* The loop of execute.                                                    *)

Running == outcome.is = "running"
Continue == [is |-> "running", what |-> <<>>]
Failed(e) == [is |-> "error", what |-> <<e>>]

\* Fetch and execute; a Java exception is thrown at the current frame.
Execute ==
  /\ Running
  /\ LET f == Head(frames)
         next == [f EXCEPT !.pc = @ + 1]
         rest == Tail(frames)
         pushOn(v) == IF Len(Head(rest).stack) + Len(v) > MethodOf(Head(rest)).max_stack
                      THEN /\ outcome' = Failed("StackOverflow")
                           /\ UNCHANGED frames
                      ELSE /\ frames' = <<[Head(rest) EXCEPT !.stack = v \o @]>> \o Tail(rest)
                           /\ UNCHANGED outcome
     IN IF f.pc > Len(MethodOf(f).code)
        THEN outcome' = Failed("MissingReturn") /\ UNCHANGED frames
        ELSE \E o \in ExecuteOpcode(MethodOf(f).code[f.pc], next) :
               CASE o.is = "step" -> frames' = <<o.frame>> \o rest /\ UNCHANGED outcome
                 [] o.is = "call" -> /\ Len(frames) < MaxDepth
                                     /\ frames' = <<o.callee, o.frame>> \o rest
                                     /\ UNCHANGED outcome
                 [] o.is = "return" -> IF rest = <<>>
                                       THEN outcome' = [is |-> "returned", what |-> o.value]
                                            /\ UNCHANGED frames
                                       ELSE pushOn(o.value)
                 [] o.is = "throw" -> /\ outcome' = [is |-> "throwing", what |-> <<o.class>>]
                                      /\ frames' = <<next>> \o rest
                 [] o.is = "error" -> outcome' = Failed(o.what) /\ UNCHANGED frames

\* The handlers of a frame that take an exception of class c thrown at pc.
HandlersFor(f, c) ==
  LET hs == MethodOf(f).handlers
  IN {j \in DOMAIN hs : /\ hs[j].start <= f.pc - 1 /\ f.pc - 1 < hs[j].end
                        /\ hs[j].catch = "any" \/ <<c, hs[j].catch>> \in IsA}

\* throw_exception, one frame at a time: the first matching handler of the
\* innermost frame, or the frame is popped.
Unwind ==
  /\ outcome.is = "throwing"
  /\ LET f == Head(frames)
         found == HandlersFor(f, outcome.what[1])
     IN IF found # {}
        THEN LET h == MethodOf(f).handlers[CHOOSE j \in found : \A o \in found : j <= o]
             IN IF MethodOf(f).max_stack = 0
                THEN outcome' = Failed("StackOverflow") /\ UNCHANGED frames
                ELSE /\ frames' = <<[f EXCEPT !.pc = h.to, !.stack = <<Obj(outcome.what[1])>>]>>
                                    \o Tail(frames)
                     /\ outcome' = Continue
        ELSE IF Len(frames) = 1
        THEN outcome' = [outcome EXCEPT !.is = "unhandled"] /\ UNCHANGED frames
        ELSE frames' = Tail(frames) /\ UNCHANGED outcome
=============================================================================
