----------------------------- MODULE JitExecution -----------------------------
(***************************************************************************)
(* A compiled method at work, and the way back to the interpreter: the     *)
(* helpers of src/src/vm/jit/runtime.rs, and complete_jit_execution and    *)
(* resume_interpreter_from_deopt of src/src/vm/mod.rs.                     *)
(*                                                                         *)
(* Compiled code computes what the interpreter does, on kinds of values,   *)
(* but keeps nothing the interpreter could read: before each               *)
(* instruction it writes the pc and the operand stack to a buffer, with    *)
(* each store to a local that local.  A helper that cannot go on marks the *)
(* buffer and the code returns, as soon as it looks at the mark.           *)
(***************************************************************************)
EXTENDS Interpreter, JitLowering

VARIABLE jit   \* is: "off", "in" compiled code, "left" it or "back" in the interpreter;
               \* frame: what the code computes, value: what it returns;
               \* pc, stack: the buffer; reason, exception: what a helper asked for;
               \* late: compiled code went on with a request pending

NoRequest == "none"
JitOff == [is |-> "off", frame |-> [locals |-> <<>>], value |-> <<>>, pc |-> 0, stack |-> <<>>,
           reason |-> NoRequest, exception |-> <<>>, late |-> FALSE]

\* The zero a helper returns when it asks for something, and the code then.
ZeroOf(t) == IF t[1] \in {"Ref", "Null"} THEN NullT ELSE t

\* execute_typed and execute_osr_typed start with an empty buffer.
EnterJit ==
  /\ compiled = "yes" /\ jit.is = "off"
  /\ jit' = [JitOff EXCEPT !.is = "in", !.frame = Head(frames),
                             !.value = [j \in 1 .. Len(method.returns) |-> ZeroOf(method.returns[j])]]
  /\ compiled' = "used"
  /\ UNCHANGED <<frames, outcome, entry, osr, at, current, signatures, recorded>>

NullReceiver(i, f) ==
  /\ i.op = "invoke" /\ i.mode \notin {"static", "dynamic"}
  /\ f.stack[Len(i.args) + 1] = NullT

\* What a helper asks for when the interpreter would not go on: to let it try
\* again, or to throw an exception of the helper's own making.
Again(reason) == [reason |-> reason, exception |-> <<>>]
Raised(c) == [reason |-> "Exception", exception |-> <<c>>]

\* record_helper_vm_error
OnError(o) == IF o.is = "throw" THEN Raised(o.class) ELSE Again("HelperUnsupported")

StaticFieldHelper(o) == OnError(o)
InstanceFieldHelper(o) == IF o = NPE THEN Again("NullCheck") ELSE OnError(o)
StaticCallHelper(o) == OnError(o)
DynamicCallHelper(o) == OnError(o)
InstanceCallHelper(i, f, o) == IF NullReceiver(i, f) THEN Again("NullCheck") ELSE OnError(o)
AllocationHelper == Again("AllocationFailure")
CheckcastHelper == Again("ClassCast")
MonitorHelper == Again("MonitorFailure")
AthrowHelper(o) == Raised(o.class)
\* The array helpers take any error for an exception.
ReferenceElementHelper(o) == Raised(IF o.is = "throw" THEN o.class ELSE "ArrayIndexOutOfBoundsException")
TypedElementHelper(o) == Raised(IF o.is = "throw" THEN o.class ELSE "ArrayIndexOutOfBoundsException")
ArrayLengthHelper == Raised("NullPointerException")

HelperAsks(i, f, o) ==
  CASE i.op \in {"getstatic", "putstatic"} -> StaticFieldHelper(o)
    [] i.op \in {"getfield", "putfield"} -> InstanceFieldHelper(o)
    [] i.op = "invoke" -> CASE i.mode = "static" -> StaticCallHelper(o)
                            [] i.mode = "dynamic" -> DynamicCallHelper(o)
                            [] OTHER -> InstanceCallHelper(i, f, o)
    [] i.op \in {"new", "newarray"} -> AllocationHelper
    [] i.op = "checkcast" -> CheckcastHelper
    [] i.op = "monitor" -> MonitorHelper
    [] i.op = "athrow" -> AthrowHelper(o)
    [] i.op \in {"arrayload", "arraystore"} ->
         IF i.k = "A" THEN ReferenceElementHelper(o) ELSE TypedElementHelper(o)
    [] i.op = "arraylength" -> ArrayLengthHelper
    [] OTHER -> OnError(o)

\* A call runs its callee to the end in the interpreter.  A null receiver is
\* noticed whatever the kind of call.
ToTheEnd(i) == [op |-> i.op, mode |-> i.mode, args |-> i.args, r |-> i.r, c |-> i.c, callee |-> "native"]
HelperOutcomes(i, f) ==
  IF i.op # "invoke" THEN ExecuteOpcode(i, f)
  ELSE IF NullReceiver(i, f) THEN {NPE}
  ELSE ExecuteOpcode(ToTheEnd(i), f)

\* After a call the mark is not looked at: the code goes on with a zero.
GoesOn(i, f) ==
  [f EXCEPT !.stack = [j \in 1 .. Len(i.r) |-> ZeroOf(i.r[j])]
                        \o Below(@, Len(i.args) + (IF i.mode \in {"static", "dynamic"} THEN 0 ELSE 1))]

\* emit_deopt_pc keeps the pc of a marked buffer, emit_deopt_stack_state does
\* not keep the stack.
DeoptState(f) ==
  LET pending == jit.reason # NoRequest
  IN [jit EXCEPT !.pc = IF pending THEN @ ELSE f.pc,
                 !.stack = Top(f.stack, Len(recorded[f.pc])),
                 !.late = @ \/ pending]

\* record_deopt_request and set_pending_jit_exception: the last reason and the
\* last exception stay.
Marked(s, q) == [s EXCEPT !.reason = q.reason,
                          !.exception = IF q.exception = <<>> THEN @ ELSE q.exception]

\* One instruction of the compiled code.
RunCompiled ==
  /\ jit.is = "in"
  /\ LET f == jit.frame
         i == Code[f.pc]
         next == [f EXCEPT !.pc = @ + 1]
         state == DeoptState(f)
     IN \E o \in HelperOutcomes(i, next) :
          jit' = CASE o.is = "step" -> [state EXCEPT !.frame = o.frame]
                   [] o.is = "return" -> [state EXCEPT !.is = "left", !.value = o.value]
                   [] o.is \in {"throw", "error"} /\ i.op = "invoke" ->
                        [Marked(state, HelperAsks(i, next, o)) EXCEPT !.frame = GoesOn(i, next)]
                   [] OTHER -> [Marked(state, HelperAsks(i, next, o)) EXCEPT !.is = "left"]
  /\ UNCHANGED <<frames, outcome, lvars>>

-----------------------------------------------------------------------------
(* Back in the interpreter.                                                *)

\* A raw word read as a value of a kind; a missing word is zero.
Decode(kind, raw) ==
  CASE kind = "Top" -> NoValue
    [] kind = "Reference" -> IF IsReference(raw) THEN raw
                             ELSE IF raw = NoValue THEN NullT ELSE Obj("?")
    [] OTHER -> <<kind>>

\* The entries of a snapshot that are decoded, and the one with j of them above it.
Decoded(kinds) == {k \in 1 .. Len(kinds) : DeoptKind(kinds[k]) # "Top"}
EntryAfter(known, j) == CHOOSE k \in known : Cardinality({x \in known : x < k}) = j

\* The buffer read in the order it is written in, bottom first.
DecodedBottomFirst(kinds, raw) ==
  LET known == Decoded(kinds)
      size == Cardinality(known)
  IN [j \in 1 .. size |-> Decode(DeoptKind(kinds[EntryAfter(known, size - j)]),
                                 IF j <= Len(raw) THEN raw[j] ELSE NoValue)]

\* The lowest slots of the buffer belong to the bottom of the stack.
DecodedStack(kinds, raw) ==
  LET word(b) == IF b <= Len(raw) THEN raw[Len(raw) + 1 - b] ELSE NoValue
      known == Decoded(kinds)
      entryAt(j) == EntryAfter(known, j - 1)
  IN [j \in 1 .. Cardinality(known) |-> Decode(DeoptKind(kinds[entryAt(j)]), word(Len(kinds) + 1 - entryAt(j)))]

RestoredFrame(pc) ==
  [m |-> "main", pc |-> pc, stack |-> DecodedStack(recorded[jit.pc], jit.stack),
   locals |-> [j \in 1 .. method.max_locals |-> Decode(LocalKinds[j], jit.frame.locals[j])]]

\* complete_jit_execution: a pending exception needs the interpreter only if
\* the method has handlers; otherwise a request resumes at its pc.
Complete ==
  /\ jit.is = "left"
  /\ jit' = [jit EXCEPT !.is = "back"]
  /\ frames' = <<RestoredFrame(IF jit.exception = <<>> THEN jit.pc ELSE jit.pc + 1)>>
  /\ outcome' = IF jit.exception # <<>>
                THEN [is |-> IF method.handlers = <<>> THEN "unhandled" ELSE "throwing",
                      what |-> jit.exception]
                ELSE IF jit.reason # NoRequest THEN Continue
                ELSE [is |-> "returned", what |-> jit.value]
  /\ UNCHANGED lvars

\* resume_interpreter_from_deopt reports an error of the VM and forgets it:
\* the call ends with the exception, or with what the compiled code returned.
Forget ==
  /\ jit.is = "back" /\ outcome.is = "error"
  /\ jit' = [jit EXCEPT !.is = "forgot"]
  /\ outcome' = IF jit.exception # <<>> THEN [is |-> "unhandled", what |-> jit.exception]
                ELSE [is |-> "returned", what |-> jit.value]
  /\ UNCHANGED <<frames, lvars>>
=============================================================================
