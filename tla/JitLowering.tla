----------------------------- MODULE JitLowering -----------------------------
(***************************************************************************)
(* Compilation of one method to Cranelift blocks: the lowering pass of     *)
(* src/src/vm/jit/compiler.rs.                                             *)
(*                                                                         *)
(* The compiler walks the instructions once, in order, with a stack of the *)
(* values it would have at run time.  A value is <<type, category>>: only  *)
(* longs and doubles are of category 2, and a long and a reference differ  *)
(* in nothing else.  An error, a stack underflow (a panic that is caught)  *)
(* and a type clash found by Cranelift all leave the method uncompiled.    *)
(***************************************************************************)
EXTENDS Verifier

VARIABLES entry,       \* entry_pc
          osr,         \* entered on a loop, not at the start: compile_bytecode_osr
          at,          \* where the walk is
          current,     \* [live, stack]: the values in the current block, if there is one
          signatures,  \* block_stack_types and _kinds by instruction
          recorded,    \* deopt_stack_kinds_by_pc
          compiled     \* "no", "lowering", "yes" or "refused"

lvars == <<entry, osr, at, current, signatures, recorded, compiled>>

I32 == <<"I32", 1>>
I64 == <<"I64", 1>>     \* a reference
Long64 == <<"I64", 2>>
F32 == <<"F32", 1>>
F64 == <<"F64", 2>>
I8 == <<"I8", 1>>       \* what instanceof leaves

\* The value that stands for a value of type t.
Lowered(t) ==
  CASE t = IntT -> I32 [] t = LongT -> Long64 [] t = FloatT -> F32
    [] t = DoubleT -> F64 [] OTHER -> I64

LoweredKind(k) == IF k = "A" THEN I64 ELSE Lowered(TypeOf(k))

Unrecorded == <<<<"none", 0>>>>

-----------------------------------------------------------------------------
(* Locals: one Cranelift variable each, of one type for the whole method.  *)

\* The slots of the arguments, the second of a wide one an I64 as well; the
\* descriptor does not name the receiver.
ArgSlots ==
  LET ps == method.params
      size == IF ps = <<>> THEN 0
              ELSE SlotOf(ps, Len(ps)) + (IF Wide(ps[Len(ps)]) THEN 1 ELSE 0)
  IN [n \in 1 .. size |-> Lowered(Spread(ps, size, Unset)[n])]

\* The first store to the local in code order; none: a reference.
FirstStored(n) ==
  LET stores == {pc \in PCs : Code[pc].op \in {"store", "iinc"} /\ Code[pc].n = n}
      first == Code[CHOOSE pc \in stores : \A o \in stores : pc <= o]
  IN IF stores = {} THEN I64
     ELSE IF first.op = "iinc" THEN I32 ELSE LoweredKind(first.k)
InferType(n) == FirstStored(n)[1]
InferKind(n) == FirstStored(n)[2]

LocalVarType(n) == IF n < Len(ArgSlots) THEN ArgSlots[n + 1][1] ELSE InferType(n)
LocalVarKind(n) == IF n < Len(ArgSlots) THEN ArgSlots[n + 1][2] ELSE InferKind(n)
LocalVar(n) == <<LocalVarType(n), LocalVarKind(n)>>

\* deopt_info: how each local of a snapshot is decoded.
DeoptKind(v) ==
  CASE v = I32 -> "Int" [] v = F32 -> "Float" [] v = F64 -> "Double"
    [] v = Long64 -> "Long" [] v = I64 -> "Reference" [] OTHER -> "Top"
LocalKinds ==
  [j \in 1 .. method.max_locals |->
     IF j > 1 /\ LocalVar(j - 2) \in {Long64, F64} THEN "Top" ELSE DeoptKind(LocalVar(j - 1))]

-----------------------------------------------------------------------------
(* Blocks.                                                                 *)

SwitchTargets(i) == {i.tos[j] : j \in DOMAIN i.tos}

\* collect_branch_targets: from the entry on; a conditional branch also
\* starts a block after it.  Exception handlers are not targets.
BranchTargetsOf(pc) ==
  LET i == Code[pc]
  IN CASE i.op = "if" -> {i.to, pc + 1}
       [] i.op \in {"goto", "jsr"} -> {i.to}
       [] i.op = "switch" -> SwitchTargets(i)
       [] OTHER -> {}
BranchTargets == {entry} \cup UNION {BranchTargetsOf(pc) : pc \in {p \in PCs : p >= entry}}

\* opcode_terminates_block
Terminates(i) == i.op \in {"if", "goto", "jsr", "switch", "return", "athrow"}

\* ensure_block_stack_signature: all that jump to a block bring the same stack.
SameSignature(pc, stack) == signatures[pc] \in {Unrecorded, stack}

\* The jumps to the targets: an OSR method does not leave its code and nothing
\* jumps to the entry block of the function, whose parameters are the arguments.
Reaches(targets, stack) ==
  IF /\ \A pc \in targets : /\ pc >= entry
                            /\ osr \/ pc # entry
                            /\ SameSignature(pc, stack)
  THEN [ok |-> TRUE, signatures |-> [pc \in PCs |-> IF pc \in targets THEN stack ELSE signatures[pc]]]
  ELSE [ok |-> FALSE, signatures |-> signatures]

\* restore_block_stack
Restored(pc) == IF signatures[pc] = Unrecorded THEN <<>> ELSE signatures[pc]

-----------------------------------------------------------------------------
(* lower_opcode: the stack after it.                                       *)

Refused == [ok |-> FALSE, stack |-> <<>>]
Popped(stack, n, push) ==
  IF Len(stack) < n THEN Refused ELSE [ok |-> TRUE, stack |-> push \o Below(stack, n)]

\* Only helper calls and the stack instructions take an I8 for an int.
Typed(stack, n, push) ==
  IF \E j \in 1 .. n : j <= Len(stack) /\ stack[j] = I8 THEN Refused ELSE Popped(stack, n, push)

\* load_local narrows or widens between the integer types; a long and a
\* reference are told apart by the local.
LoadedByType(declared, want) ==
  <<IF {declared[1], want[1]} = {"I32", "I64"} THEN want[1] ELSE declared[1], 1>>
Loaded(declared, want) ==
  <<IF {declared[1], want[1]} = {"I32", "I64"} THEN want[1] ELSE declared[1],
    IF want[1] = "I64" THEN declared[2] ELSE want[2]>>

LowerLoad(i, stack) ==
  IF i.n >= method.max_locals THEN Refused
  ELSE Popped(stack, 0, <<Loaded(LocalVar(i.n), LoweredKind(i.k))>>)

\* store_local: the categories must agree, and so must the types but for the
\* integer ones.
LowerStore(i, stack) ==
  LET declared == LocalVar(i.n)
      want == LoweredKind(i.k)
      category == IF want[1] = "I64" THEN declared[2] ELSE want[2]
  IN IF /\ stack # <<>> /\ i.n < method.max_locals
        /\ stack[1][2] = category /\ (stack[1] = I8 => declared[1] = "I64")
        /\ declared[1] = want[1] \/ {declared[1], want[1]} = {"I32", "I64"}
     THEN Popped(stack, 1, <<>>) ELSE Refused

LowerIinc(i, stack) == IF LocalVar(i.n) = I32 THEN Popped(stack, 0, <<>>) ELSE Refused

LowerConst(i, stack) == Popped(stack, 0, <<Lowered(i.t)>>)

\* The stack instructions refuse what the categories do not allow.
Rearranged(forms, stack) ==
  LET match == {f \in forms : /\ Len(f[1]) <= Len(stack)
                              /\ \A j \in 1 .. Len(f[1]) : stack[j][2] = f[1][j]}
  IN IF match = {} THEN Refused
     ELSE LET f == CHOOSE x \in match : TRUE
          IN Popped(stack, Len(f[1]), Permute(stack, f[2]))
LowerShuffle(i, stack) == Rearranged(Forms(i), stack)
LowerWideShuffle(i, stack) == Rearranged(WideForms(i), stack)

\* The divisions and remainders that can throw ("div", of ints and longs) are
\* lowered by the functions of other kinds and do not type-check; bin stands
\* for the operators that are lowered by their own, so not for fdiv.
LowerIntArithmetic(i, stack) ==
  CASE i.op = "div" -> Refused
    [] i.op = "neg" -> Typed(stack, 1, <<I32>>)
    [] i.op = "bin" -> Typed(stack, 2, <<I32>>)
LowerWideArithmetic(i, stack) ==
  IF i.op = "div" THEN Refused ELSE Typed(stack, 2, <<LoweredKind(i.k)>>)
LowerWideNegation(i, stack) == Typed(stack, 1, <<LoweredKind(i.k)>>)
LowerIntShift(stack) == Typed(stack, 2, <<I32>>)
\* The amount is masked as a long, which an int on the stack is not.
LowerLongShift(stack) == IF stack # <<>> /\ stack[1][1] = "I64" THEN Typed(stack, 2, <<Long64>>) ELSE Refused
LowerArithmetic(i, stack) ==
  CASE i.op = "shift" -> IF i.k = "I" THEN LowerIntShift(stack) ELSE LowerLongShift(stack)
    [] i.op # "shift" /\ i.k = "I" -> LowerIntArithmetic(i, stack)
    [] i.op = "neg" /\ i.k # "I" -> LowerWideNegation(i, stack)
    [] OTHER -> LowerWideArithmetic(i, stack)

\* Neither do the narrowing conversions of an int to a smaller type; between
\* integers and floats Cranelift accepts either width.
LowerConversion(i, stack) ==
  LET accepted == CASE i.from \in {"I", "J"} /\ i.to \in {"F", "D"} -> {"I32", "I64"}
                    [] i.from \in {"F", "D"} /\ i.to \in {"I", "J"} -> {"F32", "F64"}
                    [] OTHER -> {LoweredKind(i.from)[1]}
  IN IF i.to \notin {"B", "C", "S"} /\ stack # <<>> /\ stack[1][1] \in accepted
     THEN Popped(stack, 1, <<LoweredKind(i.to)>>) ELSE Refused

\* Fields and arrays: a helper call each.
LowerStaticField(i, stack) ==
  IF i.op = "getstatic" THEN Popped(stack, 0, <<Lowered(i.t)>>) ELSE Popped(stack, 1, <<>>)
LowerInstanceField(i, stack) ==
  IF i.op = "getfield" THEN Popped(stack, 1, <<Lowered(i.t)>>) ELSE Popped(stack, 2, <<>>)
LowerArrayLoad(i, stack) == Popped(stack, 2, <<LoweredKind(i.k)>>)
LowerArrayStore(i, stack) == Popped(stack, 3, <<>>)

\* A call pops its arguments, whether they go in registers or in a buffer, and
\* pushes the raw word that came back as a value of the type returned.
HelperArgs(i) == Len(i.args)
HelperResult(i) == [j \in 1 .. Len(i.r) |-> Lowered(i.r[j])]
LowerInstanceCall(i, stack) == Popped(stack, HelperArgs(i) + 1, HelperResult(i))
LowerInterfaceCall(i, stack) == LowerInstanceCall(i, stack)
LowerStaticCall(i, stack) == Popped(stack, HelperArgs(i), HelperResult(i))
LowerDynamicCall(i, stack) == Popped(stack, HelperArgs(i), HelperResult(i))
LowerInvoke(i, stack) ==
  CASE i.mode = "static" -> LowerStaticCall(i, stack)
    [] i.mode = "dynamic" -> LowerDynamicCall(i, stack)
    [] i.mode = "interface" -> LowerInterfaceCall(i, stack)
    [] OTHER -> LowerInstanceCall(i, stack)

LowerNew(i, stack) ==
  CASE i.op = "new" -> Popped(stack, 0, <<I64>>)
    [] i.op = "newarray" -> Popped(stack, i.n, <<I64>>)
    [] i.op = "arraylength" -> Popped(stack, 1, <<I32>>)
LowerTypeTest(i, stack) == Popped(stack, 1, <<IF i.op = "checkcast" THEN I64 ELSE I8>>)
LowerMonitor(stack) == Popped(stack, 1, <<>>)
LowerAthrow(stack) == Popped(stack, 1, <<>>)

LowerCompare(i, stack) == Typed(stack, 2, <<I32>>)
LowerIf(i, stack) == Typed(stack, i.n, <<>>)
LowerSwitch(stack) == Typed(stack, 1, <<>>)
LowerReturn(i, stack) == Typed(stack, IF i.k = "V" THEN 0 ELSE 1, <<>>)

LowerOpcode(i, stack) ==
  CASE i.op = "const" -> LowerConst(i, stack)
    [] i.op = "load" -> LowerLoad(i, stack)
    [] i.op = "store" -> LowerStore(i, stack)
    [] i.op = "iinc" -> LowerIinc(i, stack)
    [] i.op \in {"dup2_x1", "dup2_x2"} -> LowerWideShuffle(i, stack)
    [] i.op \in StackOps \ {"dup2_x1", "dup2_x2"} -> LowerShuffle(i, stack)
    [] i.op \in {"bin", "div", "neg", "shift"} -> LowerArithmetic(i, stack)
    [] i.op = "conv" -> LowerConversion(i, stack)
    [] i.op \in {"getstatic", "putstatic"} -> LowerStaticField(i, stack)
    [] i.op \in {"getfield", "putfield"} -> LowerInstanceField(i, stack)
    [] i.op = "arrayload" -> LowerArrayLoad(i, stack)
    [] i.op = "arraystore" -> LowerArrayStore(i, stack)
    [] i.op = "invoke" -> LowerInvoke(i, stack)
    [] i.op = "cmp" -> LowerCompare(i, stack)
    [] i.op = "if" -> LowerIf(i, stack)
    [] i.op = "goto" -> Popped(stack, 0, <<>>)
    [] i.op = "switch" -> LowerSwitch(stack)
    [] i.op = "return" -> LowerReturn(i, stack)
    [] i.op = "athrow" -> LowerAthrow(stack)
    [] i.op = "monitor" -> LowerMonitor(stack)
    [] i.op \in {"checkcast", "instanceof"} -> LowerTypeTest(i, stack)
    [] i.op \in {"new", "newarray", "arraylength"} -> LowerNew(i, stack)

-----------------------------------------------------------------------------
(* The walk of lower_with_blocks.                                          *)

\* reject_runtime_dependent_bytecode, over the whole method.
Subroutines == \E pc \in PCs : Code[pc].op \in {"jsr", "ret"}

InitLowering ==
  /\ entry = 1 /\ at = 1 /\ osr = FALSE
  /\ current = [live |-> FALSE, stack |-> <<>>]
  /\ signatures = [pc \in PCs |-> Unrecorded]
  /\ recorded = [pc \in PCs |-> Unrecorded]
  /\ compiled = "no"

StartLowering(pc, loop) ==
  /\ compiled = "no"
  /\ entry' = pc /\ at' = pc /\ osr' = loop
  /\ compiled' = IF Subroutines THEN "refused" ELSE "lowering"
  /\ current' = [live |-> ~loop, stack |-> <<>>]
  /\ UNCHANGED recorded

\* compile_bytecode
StartMethod == StartLowering(1, FALSE) /\ UNCHANGED signatures

\* compile_bytecode_osr: the loop is entered with an empty stack.
StartLoop(pc) == StartLowering(pc, TRUE) /\ signatures' = [signatures EXCEPT ![pc] = <<>>]

\* Code that no block reaches is not lowered.
SkipDead ==
  /\ compiled = "lowering" /\ at \in PCs
  /\ ~current.live /\ at \notin BranchTargets
  /\ at' = at + 1
  /\ UNCHANGED <<entry, osr, current, signatures, recorded, compiled>>

LowerOne ==
  /\ compiled = "lowering" /\ at \in PCs
  /\ current.live \/ at \in BranchTargets
  /\ LET i == Code[at]
         stack == IF current.live THEN current.stack ELSE Restored(at)
         after == LowerOpcode(i, stack)
         targets == CASE i.op = "if" -> {i.to, at + 1}
                      [] i.op \in {"goto", "switch"} -> {Targets(i, NoState)[j] : j \in DOMAIN Targets(i, NoState)}
                      [] ~Terminates(i) /\ at + 1 \in BranchTargets \cap PCs -> {at + 1}
                      [] OTHER -> {}
         reached == Reaches(targets, after.stack)
     IN IF after.ok /\ reached.ok
        THEN /\ signatures' = reached.signatures
             /\ recorded' = [recorded EXCEPT ![at] = stack]
             /\ current' = [live |-> ~Terminates(i) /\ targets = {}, stack |-> after.stack]
             /\ at' = at + 1
             /\ UNCHANGED compiled
        ELSE compiled' = "refused" /\ UNCHANGED <<at, current, signatures, recorded>>
  /\ UNCHANGED <<entry, osr>>

FinishLowering ==
  /\ compiled = "lowering" /\ at \notin PCs
  /\ compiled' = IF current.live THEN "refused" ELSE "yes"
  /\ UNCHANGED <<entry, osr, at, current, signatures, recorded>>
=============================================================================
