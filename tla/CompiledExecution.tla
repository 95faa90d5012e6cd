-------------------------- MODULE CompiledExecution --------------------------
(***************************************************************************)
(* A method is verified, then interpreted; it may be compiled before it    *)
(* starts or when a loop comes back with an empty stack, and may fall back *)
(* to the interpreter.  What the compiler and the verifier know of the     *)
(* same code is compared here.                                             *)
(***************************************************************************)
EXTENDS VerifiedExecution, JitExecution

vars == <<xvars, lvars, jit>>

\* The start of a static method, or a loop: the instruction before came from
\* further down, and the stack is empty.
LoopHeads == {pc \in PCs : \E q \in pc .. Len(Code) :
                /\ Code[q].op \in {"if", "goto", "switch"}
                /\ \E j \in DOMAIN Targets(Code[q], NoState) : Targets(Code[q], NoState)[j] = pc}

Compile ==
  /\ phase = "run" /\ compiled # "lowering" /\ Running /\ Len(frames) = 1
  /\ LET f == Head(frames)
     IN /\ f.stack = <<>>
        /\ \A j \in DOMAIN f.locals : f.locals[j][1] # "Ret"
        /\ \/ f.pc = 1 /\ method.receiver = "none" /\ StartMethod
           \/ f.pc \in LoopHeads /\ StartLoop(f.pc)
  /\ UNCHANGED <<method, vvars, ivars, jit, phase>>

Lower == (SkipDead \/ LowerOne \/ FinishLowering) /\ UNCHANGED <<method, vvars, ivars, jit, phase>>

\* Interpreted all along, or again after the compiled code was left.
RunInterpreted ==
  /\ compiled \notin {"lowering", "yes"}
  /\ UNCHANGED <<lvars, jit>>
  /\ \/ Interpret
     \/ /\ phase = "resumed" /\ jit.is = "back"
        /\ Execute \/ Unwind
        /\ UNCHANGED <<method, vvars, phase>>

RunJit ==
  /\ UNCHANGED <<method, vvars>>
  /\ \/ EnterJit /\ phase' = "compiled"
     \/ RunCompiled /\ UNCHANGED phase
     \/ Complete /\ phase' = "resumed"
     \/ Forget /\ UNCHANGED phase

CompiledInit == ExecutionInit /\ InitLowering /\ jit = JitOff
CompiledNext ==
  \/ (Verify \/ Start) /\ UNCHANGED <<lvars, jit>>
  \/ Compile
  \/ Lower
  \/ RunInterpreted
  \/ RunJit
CompiledSpec == CompiledInit /\ [][CompiledNext]_vars

-----------------------------------------------------------------------------
(* Properties.                                                             *)

IsLowered(pc) == recorded[pc] # Unrecorded

\* Where an instruction goes on when it throws nothing.
Successors(pc) ==
  {Targets(Code[pc], NoState)[j] : j \in DOMAIN Targets(Code[pc], NoState)}
    \cup IF Code[pc].op \in Leaves THEN {} ELSE {pc + 1}

\* A block the walk comes to before anything jumps there is lowered with an empty
\* stack, whatever its jumps bring later.  The code is in order when that is what
\* they bring.
ReachedInOrder ==
  \A pc \in PCs : IsLowered(pc) /\ states[pc].stack # <<>> =>
    \E q \in entry .. pc - 1 : IsLowered(q) /\ pc \in Successors(q)

\* A local is loaded as it was declared to Cranelift, up to the integer types: a
\* slot that had another kind before a loop is declared as that.
LoadsAgree ==
  \A pc \in PCs : Code[pc].op = "load" =>
    LET declared == LocalVar(Code[pc].n)
        want == LoweredKind(Code[pc].k)
    IN \/ declared = want
       \/ declared[1] = "I64" /\ want = I32
       \/ declared = I32 /\ want = I64

\* The values of the compiler that stand for the upper ones on the verifier's
\* stack; an int may be the byte instanceof leaves.
StandsFor(v, t) == v = Lowered(t) \/ (v = I8 /\ t = IntT)
TopOf(stack, types) ==
  /\ Len(stack) <= Len(types)
  /\ \A j \in 1 .. Len(stack) : StandsFor(stack[j], types[j])

\* The compiler walks the code once, in order, and the verifier follows the flow,
\* and yet what the compiler has on its stack at each instruction it lowers is the
\* top of what the verifier found there, and all of it when the code is in order
\* (compiler.rs 197-244, 551-609, verify.rs 50-116).  Code that no flow reaches can
\* bring anything, and so can a local loaded as what it is not.
JitStackIsTop ==
  verdict = "ok" /\ LoadsAgree /\ (\A pc \in PCs : IsLowered(pc) => states[pc] # NoState) =>
    \A pc \in PCs : IsLowered(pc) =>
      /\ TopOf(recorded[pc], states[pc].stack)
      /\ ReachedInOrder => Len(recorded[pc]) = Len(states[pc].stack)

\* The shapes of methods after whose deoptimisation the interpreter may be
\* given a frame the verifier never saw; each is described in the README.
SlotKinds(n) ==
  {LoweredKind(Code[pc].k) : pc \in {x \in PCs : Code[x].op \in {"load", "store"} /\ Code[x].n = n}}
    \cup {I32 : pc \in {x \in PCs : Code[x].op = "iinc" /\ Code[x].n = n}}
    \cup {Lowered(t) : t \in {InitialLocals(method)[n + 1]} \ {Unset}}
OneKindPerSlot ==
  \A n \in 0 .. method.max_locals - 1 :
    /\ \A k, l \in SlotKinds(n) : k = l
    /\ n > 0 /\ (\E k \in SlotKinds(n - 1) : k[2] = 2) => SlotKinds(n) = {}
Misrestored ==
  \/ jit.late
  \/ ~OneKindPerSlot
  \/ ~ReachedInOrder
  \/ method.receiver # "none"
  \/ \E pc \in PCs : Code[pc].op = "instanceof"

\* The promise of verification holds again after a deoptimisation: the frame
\* rebuilt from the buffer of compiled code, and every frame it leads to, is
\* covered by what the verifier merged, and the method ends as a verified one
\* does (mod.rs 920-991).
ResumedAsVerified ==
  phase = "resumed" /\ ~Misrestored =>
    /\ outcome.is = "running" => FrameCovered(Head(frames))
    /\ SafeOutcome
=============================================================================
