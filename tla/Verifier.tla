------------------------------ MODULE Verifier ------------------------------
(***************************************************************************)
(* Data-flow verification of one method: src/src/vm/verify.rs.             *)
(*                                                                         *)
(* A step is one turn of the worklist loop of verify_method.  A frame      *)
(* state is [locals, stack]; a reason to refuse is the verdict "error".    *)
(***************************************************************************)
EXTENDS Bytecode

VARIABLES states,     \* the frame state merged so far at each instruction
          queue,      \* the worklist, first in first out
          verdict     \* "working", "ok", "error", or "panic" of an index out of bounds

vvars == <<states, queue, verdict>>

Unset == <<"Top">>
UninitThis == <<"UninitThis">>
Uninit(pc) == <<"Uninit", pc>>
RetAddr(pc) == <<"Ret", pc>>
Ref(c) == <<"Ref", c>>
AnyRef == Ref("?")

\* is: "unknown" before anything reached the instruction or when refused.
NoState == [locals |-> <<>>, stack |-> <<>>, is |-> "unknown"]
Clash == [NoState EXCEPT !.is = "clash"]
At(locals, stack) == [locals |-> locals, stack |-> stack, is |-> "known"]

IsRef(t) == t[1] = "Ref"
RefLike(t) == t[1] \in {"Null", "Ref", "UninitThis", "Uninit"}

\* type_compatible: any reference may stand for any other.
Compatible(actual, expected) ==
  \/ actual = expected
  \/ RefLike(actual) /\ IsRef(expected)

\* merge_type; Error when two types have no common one.
Error == <<"Error">>
MergeType(a, b) ==
  CASE a = b -> a
    [] a # b /\ Unset \in {a, b} -> Unset
    [] a = NullT /\ IsRef(b) -> b
    [] b = NullT /\ IsRef(a) -> a
    [] a # b /\ IsRef(a) /\ IsRef(b) -> AnyRef
    [] OTHER -> Error

MergeAll(s, t) == [j \in 1 .. Len(s) |-> MergeType(s[j], t[j])]

\* merge_state: Clash when the heights or two types do not agree.
MergeState(old, new) ==
  IF new = NoState THEN old
  ELSE IF old = NoState THEN new
  ELSE IF Len(old.stack) # Len(new.stack) THEN Clash
  ELSE LET locals == MergeAll(old.locals, new.locals)
           stack == MergeAll(old.stack, new.stack)
       IN IF \E s \in {locals, stack} : \E j \in DOMAIN s : s[j] = Error
          THEN Clash ELSE At(locals, stack)

-----------------------------------------------------------------------------
(* What an instruction pops and pushes.  An element of pop is a type the   *)
(* value must be compatible with, or one of the words of Fits.             *)

Fits(want, t) ==
  CASE want = <<"RefLike">> -> RefLike(t)
    [] want = <<"Receiver">> -> RefLike(t) /\ t # NullT
    [] want[1] = "OneOf" -> t \in want[2]
    [] OTHER -> Compatible(t, want)

Effect(pop, push) == [pop |-> pop, push |-> push]
AnObject == <<"RefLike">>

ConstantEffect(i) == Effect(<<>>, <<i.t>>)

ArrayLoadEffect(i) ==
  Effect(<<IntT, AnObject>>, <<IF i.k = "A" THEN AnyRef ELSE TypeOf(i.k)>>)

ArrayStoreEffect(i) ==
  Effect(<<IF i.k = "A" THEN AnObject ELSE TypeOf(i.k), IntT, AnObject>>, <<>>)

ArithmeticEffect(i) ==
  LET t == TypeOf(i.k)
  IN CASE i.op = "neg" -> Effect(<<t>>, <<t>>)
       [] i.op = "shift" -> Effect(<<IntT, t>>, <<t>>)
       [] OTHER -> Effect(<<t, t>>, <<t>>)

\* The opcodes are grouped by their result; every source the group has is taken.
ConversionEffect(i) ==
  LET sources == CASE i.to = "J" -> {IntT, FloatT, DoubleT}
                   [] i.to = "F" -> {IntT, LongT, DoubleT}
                   [] i.to = "D" -> {IntT, LongT, FloatT}
                   [] OTHER -> {IntT, LongT, FloatT, DoubleT}
  IN Effect(<<<<"OneOf", sources>>>>, <<TypeOf(i.to)>>)

BranchEffect(i) ==
  CASE i.op = "cmp" -> Effect(<<TypeOf(i.k), TypeOf(i.k)>>, <<IntT>>)
    [] i.op = "if" -> Effect([j \in 1 .. i.n |-> IF i.k = "A" THEN AnObject ELSE IntT], <<>>)
    [] i.op = "switch" -> Effect(<<IntT>>, <<>>)
    [] i.op \in {"goto", "iinc", "ret"} -> Effect(<<>>, <<>>)

FieldEffect(i) ==
  CASE i.op = "getstatic" -> Effect(<<>>, <<i.t>>)
    [] i.op = "putstatic" -> Effect(<<i.t>>, <<>>)
    [] i.op = "getfield" -> Effect(<<AnObject>>, <<i.t>>)
    [] i.op = "putfield" -> Effect(<<i.t, AnObject>>, <<>>)

\* Arguments are popped last first; a constructor also accepts an
\* initialised receiver but not null.
InvokeEffect(i) ==
  Effect([j \in 1 .. Len(i.args) |-> i.args[Len(i.args) + 1 - j]]
           \o CASE i.mode \in {"static", "dynamic"} -> <<>>
                [] i.mode = "init" -> <<<<"Receiver">>>>
                [] OTHER -> <<AnObject>>,
         i.r)

ObjectEffect(i, pc) ==
  CASE i.op = "new" -> Effect(<<>>, <<Uninit(pc)>>)
    [] i.op = "newarray" -> Effect([j \in 1 .. i.n |-> IntT], <<AnyRef>>)
    [] i.op \in {"arraylength", "instanceof"} -> Effect(<<AnObject>>, <<IntT>>)
    [] i.op = "checkcast" -> Effect(<<AnObject>>, <<Ref(i.c)>>)
    [] i.op \in {"monitor", "athrow"} -> Effect(<<AnObject>>, <<>>)

\* A return pops what the opcode names; the method must return that type.
ReturnEffect(i) ==
  Effect(IF i.k = "V" THEN <<>> ELSE IF i.k = "A" THEN <<AnObject>> ELSE <<TypeOf(i.k)>>, <<>>)

ReturnAgrees(m, i, stack) ==
  CASE i.k = "V" -> m.returns = <<>>
    [] i.k = "A" -> m.returns # <<>> /\ Compatible(stack[1], m.returns[1])
    [] OTHER -> m.returns # <<>> /\ Compatible(TypeOf(i.k), m.returns[1])

EffectOf(i, pc) ==
  CASE i.op = "const" -> ConstantEffect(i)
    [] i.op = "arrayload" -> ArrayLoadEffect(i)
    [] i.op = "arraystore" -> ArrayStoreEffect(i)
    [] i.op \in {"bin", "div", "neg", "shift"} -> ArithmeticEffect(i)
    [] i.op = "conv" -> ConversionEffect(i)
    [] i.op \in {"cmp", "if", "switch", "goto", "iinc", "ret"} -> BranchEffect(i)
    [] i.op = "jsr" -> Effect(<<>>, <<RetAddr(pc + 1)>>)
    [] i.op \in {"getstatic", "putstatic", "getfield", "putfield"} -> FieldEffect(i)
    [] i.op = "invoke" -> InvokeEffect(i)
    [] i.op = "return" -> ReturnEffect(i)
    [] OTHER -> ObjectEffect(i, pc)

-----------------------------------------------------------------------------
(* The forms of the stack instructions: the categories of the values they  *)
(* take, top first, and the order they leave them in.                      *)

Forms(i) ==
  CASE i.op = "pop" -> {<<<<1>>, <<>>>>, <<<<2>>, <<>>>>}
    [] i.op = "pop2" -> {<<<<2>>, <<>>>>, <<<<1, 1>>, <<>>>>}
    [] i.op = "dup" -> {<<<<1>>, <<1, 1>>>>}
    [] i.op = "dup_x1" -> {<<<<1, 1>>, <<1, 2, 1>>>>}
    [] i.op = "dup_x2" -> {<<<<1, 2>>, <<1, 2, 1>>>>, <<<<1, 1, 1>>, <<1, 2, 3, 1>>>>}
    [] i.op = "dup2" -> {<<<<2>>, <<1, 1>>>>, <<<<1, 1>>, <<1, 2, 1, 2>>>>}
    [] i.op = "swap" -> {<<<<1, 1>>, <<2, 1>>>>}

WideForms(i) ==
  IF i.op = "dup2_x1"
  THEN {<<<<2, 1>>, <<1, 2, 1>>>>, <<<<1, 1, 1>>, <<1, 2, 3, 1, 2>>>>}
  ELSE {<<<<2, 2>>, <<1, 2, 1>>>>, <<<<2, 1, 1>>, <<1, 2, 3, 1>>>>,
        <<<<1, 2, 1>>, <<1, 2, 3, 1, 2>>>>, <<<<1, 1, 1, 1>>, <<1, 2, 3, 4, 1, 2>>>>}

Category(t) == IF Wide(t) THEN 2 ELSE 1

\* The forms that the values on the stack match; at most one.
FormsFitting(forms, stack) ==
  {f \in forms : /\ Len(f[1]) <= Len(stack)
                 /\ \A j \in 1 .. Len(f[1]) : Category(stack[j]) = f[1][j]}

-----------------------------------------------------------------------------
(* apply_instruction of a method m: the state after, or NoState when it    *)
(* refuses.                                                                *)

LoadLocal(i, s) ==
  IF i.n >= Len(s.locals) THEN Unset ELSE s.locals[i.n + 1]

PushUnchecked(m, s, ts) == At(s.locals, ts \o s.stack)

Push(m, s, ts) ==
  IF Len(s.stack) + Len(ts) > m.max_stack THEN NoState
  ELSE At(s.locals, ts \o s.stack)

Shuffle(m, i, s) ==
  LET forms == IF i.op \in {"dup2_x1", "dup2_x2"} THEN WideForms(i) ELSE Forms(i)
      match == FormsFitting(forms, s.stack)
  IN IF match = {} THEN NoState
     ELSE LET f == CHOOSE x \in match : TRUE
          IN Push(m, At(s.locals, Below(s.stack, Len(f[1]))), Permute(s.stack, f[2]))

ApplyLoad(m, i, s) ==
  LET t == LoadLocal(i, s)
  IN IF IF i.k = "A" THEN RefLike(t) ELSE t = TypeOf(i.k)
     THEN Push(m, s, <<t>>) ELSE NoState

ApplyStore(i, s) ==
  LET stored == StoreSlot(s.locals, i.n, s.stack[1], Unset)
      fits == IF i.k = "A" THEN RefLike(s.stack[1]) \/ s.stack[1][1] = "Ret"
              ELSE s.stack[1] = TypeOf(i.k)
  IN IF Len(s.stack) = 0 THEN NoState
     ELSE IF fits /\ stored.ok THEN At(stored.locals, Below(s.stack, 1)) ELSE NoState

\* initialize_uninitialized: every copy of the receiver becomes the class.
Initialised(s, from, c) ==
  LET init(t) == IF t = from THEN Ref(c) ELSE t
  IN At([j \in DOMAIN s.locals |-> init(s.locals[j])],
        [j \in DOMAIN s.stack |-> init(s.stack[j])])

\* What the instruction demands of the locals besides its stack effect.
LocalAgrees(i, s) ==
  CASE i.op = "iinc" -> LoadLocal(i, s) = IntT
    [] i.op = "ret" -> LoadLocal(i, s)[1] = "Ret"
    [] OTHER -> TRUE

ApplyEffect(m, i, pc, s) ==
  LET e == EffectOf(i, pc)
      n == Len(e.pop)
      popped == At(s.locals, Below(s.stack, n))
      after == IF i.op = "invoke" /\ i.mode = "init"
               THEN Initialised(popped, s.stack[n], i.c) ELSE popped
  IN IF ~(/\ n <= Len(s.stack)
          /\ \A j \in 1 .. n : Fits(e.pop[j], s.stack[j])
          /\ LocalAgrees(i, s)
          /\ i.op = "return" => ReturnAgrees(m, i, s.stack))
     THEN NoState
     ELSE IF i.op \in {"athrow", "return"} THEN At(s.locals, <<>>) ELSE Push(m, after, e.push)

Apply(m, pc, s) ==
  LET i == m.code[pc]
  IN CASE i.op = "load" -> ApplyLoad(m, i, s)
       [] i.op = "store" -> ApplyStore(i, s)
       [] i.op \in StackOps -> Shuffle(m, i, s)
       [] OTHER -> ApplyEffect(m, i, pc, s)

-----------------------------------------------------------------------------
(* The worklist.                                                           *)

TargetsWithoutDefault(i, s) ==
  CASE i.op \in {"if", "goto", "jsr"} -> <<i.to>>
    [] i.op = "switch" -> Tail(i.tos)
    [] i.op = "ret" -> <<LoadLocal(i, s)[2]>>
    [] OTHER -> <<>>
Targets(i, s) ==
  CASE i.op \in {"if", "goto", "jsr"} -> <<i.to>>
    [] i.op = "switch" -> i.tos
    [] i.op = "ret" -> <<LoadLocal(i, s)[2]>>
    [] OTHER -> <<>>

\* What reaches a handler, NoState when it does not cover the instruction.
Caught(m, h, pc, s) ==
  IF h \notin Handlers(m, pc) THEN NoState
  ELSE LET c == m.handlers[h].catch
       IN At(s.locals, <<Ref(IF c = "any" THEN "Throwable" ELSE c)>>)

\* The states an instruction sends out, in the order they are merged.
Outgoing(m, pc, s) ==
  LET i == m.code[pc]
      after == Apply(m, pc, s)
      targets == Targets(i, after)
  IN [h \in 1 .. Len(m.handlers) |-> <<m.handlers[h].to, Caught(m, h, pc, s)>>]
     \o (IF i.op \in Leaves THEN <<>> ELSE <<<<pc + 1, after>>>>)
     \o [j \in 1 .. Len(targets) |-> <<targets[j], after>>]

\* worklist.push_back, also of an instruction that was looked at before
RequeuedOnce(q, pc) == IF states[pc] = NoState THEN Append(q, pc) ELSE q
Requeued(q, pc) == Append(q, pc)

\* Merge one of them; a target whose state changed is queued again, and one past
\* the end of the code is an index out of bounds.
MergeOne(work, exit) ==
  LET pc == exit[1]
      new == MergeState(work.states[pc], exit[2])
  IN IF work.verdict # "working" THEN work
     ELSE IF pc \notin PCs THEN [work EXCEPT !.verdict = "panic"]
     ELSE IF new = Clash THEN [work EXCEPT !.verdict = "error"]
     ELSE IF new = work.states[pc] THEN work
     ELSE [work EXCEPT !.states = [@ EXCEPT ![pc] = new], !.queue = Requeued(@, pc)]

MergeOut(out) ==
  LET merged[j \in 0 .. Len(out)] ==
        IF j = 0 THEN [states |-> states, queue |-> Tail(queue), verdict |-> "working"]
        ELSE MergeOne(merged[j - 1], out[j])
  IN merged[Len(out)]

\* initial_frame: the types of the parameters, preceded by the receiver; an
\* error when the parameters do not fit the frame, a receiver alone may not.
Given(m) ==
  (CASE m.receiver = "none" -> <<>>
     [] m.receiver = "init" -> <<UninitThis>>
     [] OTHER -> <<Ref(m.receiver)>>) \o m.params
ParametersFit(m) ==
  m.params # <<>> =>
    LET vs == Given(m)
    IN SlotOf(vs, Len(vs)) + (IF Wide(vs[Len(vs)]) THEN 1 ELSE 0) <= m.max_locals
InitialLocals(m) == Spread(Given(m), m.max_locals, Unset)

\* validate_stack_map_frames: a frame is [pc, locals, stack], its locals expanded;
\* trailing unset entries do not count and the method may know more locals.
Trimmed(s) ==
  SubSeq(s, 1, CHOOSE n \in 0 .. Len(s) : /\ \A j \in n + 1 .. Len(s) : s[j] = Unset
                                          /\ n = 0 \/ s[n] # Unset)
StackMapAgrees(f) ==
  LET s == states[f.pc]
      want == Trimmed(f.locals)
      stack == Trimmed(f.stack)
  IN /\ s # NoState
     /\ Len(want) <= Len(Trimmed(s.locals))
     /\ \A j \in 1 .. Len(want) : Compatible(s.locals[j], want[j])
     /\ Len(Trimmed(s.stack)) = Len(stack)
     /\ \A j \in 1 .. Len(stack) : Compatible(s.stack[j], stack[j])

\* scan_method, validate_exception_handlers and initial_frame: targets and handlers
\* are instructions.
WellFormed(m) ==
  LET len == Len(m.code)
  IN /\ \A pc \in 1 .. len : LET i == m.code[pc]
                             IN /\ i.op \in {"if", "goto", "jsr"} => i.to \in 1 .. len
                                /\ i.op = "switch" => \A j \in DOMAIN i.tos : i.tos[j] \in 1 .. len
     /\ \A h \in DOMAIN m.handlers : /\ m.handlers[h].start <= m.handlers[h].end
                                     /\ m.handlers[h].end <= len + 1
                                     /\ m.handlers[h].to \in 1 .. len
     /\ ParametersFit(m)

InitVerifier ==
  /\ states = [pc \in PCs |-> IF pc = 1 THEN At(InitialLocals(method), <<>>) ELSE NoState]
  /\ queue = <<1>>
  /\ verdict = IF WellFormed(method) THEN "working" ELSE "error"

\* One turn of the loop.
Propagate ==
  /\ verdict = "working" /\ queue # <<>>
  /\ LET pc == Head(queue)
         merged == MergeOut(Outgoing(method, pc, states[pc]))
     IN IF Apply(method, pc, states[pc]) = NoState
        THEN verdict' = "error" /\ UNCHANGED <<states, queue>>
        ELSE /\ verdict' = merged.verdict
             /\ IF merged.verdict = "working"
                THEN states' = merged.states /\ queue' = merged.queue
                ELSE UNCHANGED <<states, queue>>

Conclude ==
  /\ verdict = "working" /\ queue = <<>>
  /\ verdict' = IF \A j \in DOMAIN method.frames : StackMapAgrees(method.frames[j])
                THEN "ok" ELSE "error"
  /\ UNCHANGED <<states, queue>>

VerifierInit == IsMethod(method) /\ InitVerifier
VerifierNext == (Propagate \/ Conclude) /\ UNCHANGED method
VerifierSpec == VerifierInit /\ [][VerifierNext]_<<method, vvars>>
-----------------------------------------------------------------------------
(* What an accepted method has: a post-fixed point.  A type or a state is   *)
(* below another that stands for all it stands for.                        *)

TypeBelow(a, b) ==
  \/ a = b \/ b = Unset
  \/ a = NullT /\ IsRef(b)
  \/ IsRef(a) /\ b = AnyRef

AllBelow(s, t) == Len(s) = Len(t) /\ \A j \in 1 .. Len(s) : TypeBelow(s[j], t[j])
StateBelow(s, t) ==
  s = NoState \/ (t # NoState /\ AllBelow(s.locals, t.locals) /\ AllBelow(s.stack, t.stack))

\* What an instruction sends out has arrived.
Arrived(exit, S) == exit[2] = NoState \/ (exit[1] \in DOMAIN S /\ StateBelow(exit[2], S[exit[1]]))
Settled(m, S, pc) ==
  /\ Apply(m, pc, S[pc]) # NoState
  /\ \A j \in DOMAIN Outgoing(m, pc, S[pc]) : Arrived(Outgoing(m, pc, S[pc])[j], S)

\* A state of a frame of the method.
IsState(m, s) ==
  s = NoState \/ (/\ s = At(s.locals, s.stack)
                  /\ IsList(s.locals) /\ Len(s.locals) = m.max_locals
                  /\ IsList(s.stack) /\ \A j \in 1 .. Len(s.stack) : s.stack[j] # Unset)

PostFixed(m, S) ==
  /\ S = [pc \in 1 .. Len(m.code) |-> S[pc]]
  /\ StateBelow(At(InitialLocals(m), <<>>), S[1])
  /\ \A pc \in 1 .. Len(m.code) : IsState(m, S[pc]) /\ (S[pc] # NoState => Settled(m, S, pc))

\* A method is accepted only when the states found take in the frame it starts
\* with, and what every instruction reached makes of its state: nothing was
\* left in the work list, dropped or overtaken (verify.rs 62-115, 1243-1292).
AcceptedIsFixedPoint == verdict = "ok" => PostFixed(method, states)
=============================================================================
