-------------------------- MODULE VerifiedExecution --------------------------
(***************************************************************************)
(* A method is verified and then interpreted: verify.rs with the loop of   *)
(* execute.  What verification promises of the execution is stated here.   *)
(*                                                                         *)
(* The methods it calls have been verified before; the states the verifier *)
(* found for them are the constant Certificate.                            *)
(***************************************************************************)
EXTENDS Verifier, Interpreter

CONSTANTS Certificate,   \* a function from the names of Callees
          Receivers      \* classes an object may be of that a method is called on

VARIABLE phase   \* "verify" or "run"

xvars == <<method, vvars, ivars, phase>>

-----------------------------------------------------------------------------
(* The code the promise is made for.  The verifier does not look for an    *)
(* exception handler that finds no room on the stack, nor for the kind of  *)
(* an array of longs, floats or doubles.                                   *)

\* A call names a method of the descriptor it was compiled against.
Linked(i) ==
  i.callee = "native" \/
    /\ i.callee \in DOMAIN Callees
    /\ i.mode # "dynamic"
    /\ Callees[i.callee].params = i.args
    /\ Callees[i.callee].returns = i.r
    /\ Callees[i.callee].receiver = "none" <=> i.mode = "static"

Supported(m) ==
  /\ \A pc \in DOMAIN m.code :
       LET i == m.code[pc]
       IN /\ i.op = "invoke" => Linked(i)
          /\ i.op = "arrayload" => i.k \notin {"J", "F", "D"}
  /\ m.handlers # <<>> => m.max_stack > 0

ASSUME CalleesAccepted ==
  \A n \in DOMAIN Callees :
    /\ n \notin {"main", "native"}
    /\ IsMethod(Callees[n]) /\ Supported(Callees[n])
    /\ PostFixed(Callees[n], Certificate[n])

-----------------------------------------------------------------------------

ExecutionInit ==
  /\ VerifierInit /\ Supported(method)
  /\ frames = <<>> /\ outcome = Continue
  /\ phase = "verify"

Verify ==
  /\ phase = "verify"
  /\ Propagate \/ Conclude
  /\ UNCHANGED <<method, ivars, phase>>

\* The arguments are as the callers' instructions make them.
Start ==
  /\ phase = "verify" /\ verdict = "ok"
  /\ phase' = "run"
  /\ \E args \in {a \in [1 .. Len(method.params) -> UNION {ValuesOf(method.params[j]) : j \in DOMAIN method.params}] :
                    \A j \in DOMAIN a : a[j] \in ValuesOf(method.params[j])} :
       \E this \in IF method.receiver = "none" THEN {<<>>} ELSE {<<Obj(c)>> : c \in Receivers} :
         frames' = <<NewFrame("main", FrameLocals(this \o args, method.max_locals))>>
  /\ UNCHANGED <<method, vvars, outcome>>

Interpret ==
  /\ phase = "run"
  /\ Execute \/ Unwind
  /\ UNCHANGED <<method, vvars, phase>>

ExecutionNext == Verify \/ Start \/ Interpret
ExecutionSpec == ExecutionInit /\ [][ExecutionNext]_xvars

-----------------------------------------------------------------------------
(* Properties.                                                             *)

\* A value the verifier has this type for.  A constructor may be called on the
\* null reference, which checkcast lets through.
Covers(t, v) ==
  CASE t = Unset -> TRUE
    [] t[1] \in {"Ref", "UninitThis"} -> IsReference(v)
    [] t[1] = "Uninit" -> v[1] = "Obj"
    [] OTHER -> v = t /\ v # NoValue

AllCovered(ts, vs) == Len(ts) = Len(vs) /\ \A j \in 1 .. Len(ts) : Covers(ts[j], vs[j])

StatesOf(f) == IF f.m = "main" THEN states ELSE Certificate[f.m]

FrameCovered(f) ==
  LET s == StatesOf(f)[f.pc]
  IN /\ f.pc \in DOMAIN StatesOf(f)
     /\ s # NoState
     /\ AllCovered(s.locals, f.locals)
     /\ AllCovered(s.stack, f.stack)

\* The data-flow analysis and the interpreter agree: what the verifier merged
\* for an instruction covers every frame that arrives there, by a fall-through,
\* a jump, an exception handler, a call or the return from one (verify.rs 50-116
\* with mod.rs 5272-5448).
StatesCoverExecution ==
  phase = "run" /\ outcome.is = "running" => FrameCovered(Head(frames))

\* What verification is for: a verified method never runs into an error of
\* the VM but the three it does not look for: the source of a conversion, the
\* kind of an array and the class of an object (verify.rs 753-794, 445-501,
\* 870-887).
Expected(e, f) ==
  \/ e \in {"InvalidHeapValue", "FieldNotFound"}
  \/ e = "TypeMismatch" /\ MethodOf(f).code[f.pc].op = "conv"
SafeOutcome ==
  /\ outcome.is = "error" => Expected(outcome.what[1], Head(frames))
  /\ outcome.is = "returned" => AllCovered(method.returns, outcome.what)

VerifiedCodeIsSafe == phase = "run" => SafeOutcome
=============================================================================
