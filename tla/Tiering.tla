------------------------------- MODULE Tiering -------------------------------
(***************************************************************************)
(* Which code of a method runs: the JIT manager of src/src/vm/jit/mod.rs,  *)
(* the installed code of JitContext (jit/runtime.rs) and the ways in and   *)
(* out of compiled code in src/src/vm/mod.rs.                              *)
(*                                                                         *)
(* One thread: a clone of a Vm, and so a spawned thread, has no JIT.  Its  *)
(* activations nest: interpreted frames, compiled code, the helpers and    *)
(* natives that call execute again, and the interpreter that takes over    *)
(* from compiled code.  Each method has one site where it may deoptimise.  *)
(***************************************************************************)
EXTENDS Integers, Sequences, FiniteSets

CONSTANTS Methods,      \* static methods that call each other
          Guarded,      \* those with an exception table
          Compilable,   \* those that lower_with_blocks accepts
          MaxDepth,     \* bound: activations
          MaxVersions   \* bound: compilations, those after it are refused

ASSUME TieringAssumption == Guarded \subseteq Methods /\ Compilable \subseteq Methods

VARIABLES stack,      \* the activations, innermost first
          jit,        \* self.jit is there: a helper takes it while bytecode runs
          threshold,  \* invocation_threshold and backedge_threshold
          versions,   \* compilations so far
          code,       \* compiled_code by key
          entries,    \* the entries of jit_context by key
          sites,      \* deopt_site_counts, as far as anything depends on them
          only,       \* interpreter_only
          current,    \* CURRENT_VM: "none", "vm" or "fallback"
          pending     \* PENDING_JIT_EXCEPTION is set

vars == <<stack, jit, threshold, versions, code, entries, sites, only, current, pending>>

Reasons == {"NullCheck", "ClassCast", "MonitorFailure", "HelperUnsupported",
            "AllocationFailure", "Exception", "SiteFallback"}
NoReason == "none"
Counted == [NullCheck |-> 1, ClassCast |-> 2, MonitorFailure |-> 2]

\* osr_method_key and the plain key
Keys == Methods \X {"call", "osr"}

\* Code is a version and whether it leaves at the site whatever happens.
NoCode == [v |-> 0, forced |-> FALSE]

-----------------------------------------------------------------------------
(* Activations.                                                            *)

\* kind: "interp" or "jit"; base: the first frame of an execute; fallback: on a
\* clone of the Vm; took: the helper that started it took self.jit away;
\* how: compiled code was entered by a call, on a loop or by execute itself;
\* done: an interpreted frame that compiled code has finished.
Blank == [kind |-> "interp", m |-> "", base |-> FALSE, fallback |-> FALSE, took |-> FALSE,
          how |-> "call", calls |-> 0, throwing |-> FALSE, done |-> "no",
          code |-> NoCode, reason |-> NoReason, raised |-> FALSE]

KeyOf(m, how) == <<m, IF how = "osr" THEN "osr" ELSE "call">>

Top == Head(stack)
Interpreting == stack # <<>> /\ Top.kind = "interp" /\ ~Top.throwing /\ Top.done = "no"
InCompiled == stack # <<>> /\ Top.kind = "jit"
Replace(a) == <<a>> \o Tail(stack)

\* self.jit.is_some() for the Vm this activation runs on
HasJit(a) == jit /\ ~a.fallback

\* The result of the activation above s: a helper turns an exception into a
\* request of its own (record_helper_vm_error), a frame throws it.
Deliver(s, result) ==
  IF s = <<>> THEN s
  ELSE LET a == Head(s)
       IN <<IF a.kind = "interp" THEN [a EXCEPT !.throwing = result = "throw"]
            ELSE IF result = "throw" THEN [a EXCEPT !.reason = "Exception", !.raised = TRUE]
            ELSE a>> \o Tail(s)
ToHelper(s) == s # <<>> /\ Head(s).kind = "jit"

\* What compiled code returned: a frame entered on a loop, and execute's own,
\* are finished with it, but the former can catch an exception.
HandBack(s, how, result) ==
  IF how = "call" \/ (how = "osr" /\ result = "throw") THEN Deliver(s, result)
  ELSE <<[Head(s) EXCEPT !.done = result]>> \o Tail(s)

-----------------------------------------------------------------------------
(* The thread-locals of runtime.rs.                                        *)

\* A helper, and a loop that was entered, set CURRENT_VM again; the first frame
\* of an execute clears it.
VmLeftCleared(base, restores) == IF base THEN "none" ELSE current
VmLeft(base, restores) == IF restores THEN "vm" ELSE IF base THEN "none" ELSE current

\* clear_pending_jit_exception, on every way into compiled code
PendingKept == pending
PendingOnEntry == FALSE

-----------------------------------------------------------------------------
(* The manager.                                                            *)

\* interpreter_only_reason
GivenUpForCalls(k) == k \in only /\ k[2] = "call"
GivenUp(k) == k \in only

\* jit_context.remove_method
EntriesKept(k) == entries
EntriesWithout(k) == [entries EXCEPT ![k] = NoCode]

\* site_fallbacks_for_method: code for a site that failed leaves there.
SiteFallbacks(k) == sites[k]["NullCheck"] > 0 \/ sites[k]["ClassCast"] > 0

\* get_or_compile and get_or_compile_osr; a refused method is tried every time.
Obtainable(k) ==
  ~GivenUp(k) /\ (code[k] # NoCode \/ (k[1] \in Compilable /\ versions < MaxVersions))
GetOrCompile(k) ==
  IF code[k] # NoCode THEN code[k] ELSE [v |-> versions + 1, forced |-> SiteFallbacks(k)]

\* Run the code of m: execute installs what it got, the others keep an entry.
EnterCompiled(m, how, below) ==
  LET k == KeyOf(m, how)
      got == GetOrCompile(k)
      entry == IF entries[k] = NoCode \/ how = "execute" THEN got ELSE entries[k]
  IN /\ code' = [code EXCEPT ![k] = got]
     /\ versions' = IF code[k] = NoCode THEN versions + 1 ELSE versions
     /\ entries' = [entries EXCEPT ![k] = entry]
     /\ stack' = <<[Blank EXCEPT !.kind = "jit", !.m = m, !.how = how, !.code = entry]>> \o below
     /\ current' = "vm" /\ pending' = PendingOnEntry
     /\ UNCHANGED <<jit, threshold, sites, only>>

\* apply_jit_deopt_policy after a request at the site.
Recompiles(reason) == reason \in {"NullCheck", "ClassCast"}
Abandons(reason, count) ==
  \/ reason = "HelperUnsupported"
  \/ reason \in {"ClassCast", "MonitorFailure"} /\ count >= 2

DeoptPolicy(k, reason) ==
  IF reason = NoReason THEN UNCHANGED <<code, entries, sites, only>>
  ELSE LET counted == reason \in DOMAIN Counted
           count == IF ~counted THEN 0
                    ELSE IF sites[k][reason] < Counted[reason] THEN sites[k][reason] + 1
                    ELSE Counted[reason]
           removed == Recompiles(reason) \/ Abandons(reason, count)
       IN /\ sites' = IF counted THEN [sites EXCEPT ![k][reason] = count] ELSE sites
          /\ code' = IF removed THEN [code EXCEPT ![k] = NoCode] ELSE code
          /\ entries' = IF removed THEN EntriesWithout(k) ELSE entries
          /\ only' = IF Abandons(reason, count) THEN only \cup {k} ELSE only

-----------------------------------------------------------------------------
(* execute and the interpreter.                                            *)

\* A new execute on the Vm of a, or its own compiled code if the threshold is 1.
Execute(m, fallback, took, below) ==
  LET base == [Blank EXCEPT !.m = m, !.base = TRUE, !.fallback = fallback, !.took = took]
      jitHere == ~fallback /\ jit /\ ~took
  IN IF jitHere /\ threshold <= 1 /\ Obtainable(KeyOf(m, "execute"))
     THEN EnterCompiled(m, "execute", <<base>> \o below)
     ELSE /\ stack' = <<base>> \o below
          /\ current' = IF fallback THEN "fallback" ELSE "vm"
          /\ jit' = (jit /\ ~took)
          /\ UNCHANGED <<threshold, versions, code, entries, sites, only, pending>>

Start(m) == stack = <<>> /\ Execute(m, FALSE, FALSE, <<>>)

\* invokestatic of bytecode: call_counts is per frame and call site.
InvokeStatic(m) ==
  /\ Interpreting /\ Len(stack) < MaxDepth
  /\ LET calls == IF Top.calls < threshold THEN Top.calls + 1 ELSE threshold
         below == Replace([Top EXCEPT !.calls = calls])
     IN IF HasJit(Top) /\ calls >= threshold /\ Obtainable(KeyOf(m, "call"))
        THEN EnterCompiled(m, "call", below)
        ELSE /\ stack' = <<[Blank EXCEPT !.m = m, !.fallback = Top.fallback]>> \o below
             /\ UNCHANGED <<jit, threshold, versions, code, entries, sites, only, current, pending>>

\* A backward branch with an empty stack; only the loop of execute looks for it.
BackEdge ==
  /\ Interpreting /\ Len(stack) < MaxDepth /\ HasJit(Top)
  /\ LET calls == IF Top.calls < threshold THEN Top.calls + 1 ELSE threshold
         below == Replace([Top EXCEPT !.calls = calls])
     IN IF calls >= threshold /\ Obtainable(KeyOf(Top.m, "osr"))
        THEN EnterCompiled(Top.m, "osr", below)
        ELSE /\ stack' = below
             /\ UNCHANGED <<jit, threshold, versions, code, entries, sites, only, current, pending>>

\* A native that calls back (call_virtual, <clinit>) keeps self.jit.
InvokeNative(m) ==
  /\ Interpreting /\ Len(stack) < MaxDepth
  /\ Execute(m, Top.fallback, FALSE, stack)

\* A frame returns or lets an exception through; the first frame of an execute
\* clears CURRENT_VM, and then a helper restores what it changed.
Leave ==
  /\ stack # <<>> /\ Top.kind = "interp"
  /\ \E result \in IF Top.done # "no" THEN {Top.done}
                   ELSE IF Top.throwing THEN {"throw"} ELSE {"ok"} :
       LET rest == Tail(stack)
           helper == ToHelper(rest)
           resumed == Top.how # "call"
       IN /\ stack' = IF resumed THEN HandBack(rest, Top.how, result) ELSE Deliver(rest, result)
          /\ current' = VmLeft(Top.base, helper \/ Top.how = "osr")
          /\ jit' = (jit \/ Top.took)
          /\ pending' = (pending \/ (helper /\ result = "throw"))
  /\ UNCHANGED <<threshold, versions, code, entries, sites, only>>

\* throw_exception finds a handler in the frame.
Catch ==
  /\ stack # <<>> /\ Top.kind = "interp" /\ Top.throwing /\ Top.m \in Guarded
  /\ stack' = Replace([Top EXCEPT !.throwing = FALSE])
  /\ UNCHANGED <<jit, threshold, versions, code, entries, sites, only, current, pending>>

Throw ==
  /\ Interpreting
  /\ stack' = Replace([Top EXCEPT !.throwing = TRUE])
  /\ UNCHANGED <<jit, threshold, versions, code, entries, sites, only, current, pending>>

-----------------------------------------------------------------------------
(* Compiled code.                                                          *)

\* A helper of a call runs bytecode without the JIT, or a native that may call
\* back with it; without a current Vm it asks for the interpreter.
HelperInvoke(m) ==
  /\ InCompiled /\ Len(stack) < MaxDepth
  /\ IF current = "none"
     THEN /\ stack' = Replace([Top EXCEPT !.reason = "HelperUnsupported"])
          /\ UNCHANGED <<jit, threshold, versions, code, entries, sites, only, current, pending>>
     ELSE \E took \in BOOLEAN : Execute(m, FALSE, took, stack)

\* A helper that fails marks the deopt buffer; an exception is left pending too.
\* raise_exception_class leaves it without a mark.
HelperFails ==
  /\ InCompiled /\ Top.reason = NoReason
  /\ \E reason \in (IF Top.code.forced THEN {"SiteFallback"} ELSE Reasons \ {"SiteFallback"})
                     \cup {NoReason} :
       /\ stack' = Replace([Top EXCEPT !.reason = reason,
                                       !.raised = @ \/ reason \in {"Exception", NoReason}])
       /\ pending' = (pending \/ reason \in {"Exception", NoReason})
  /\ UNCHANGED <<jit, threshold, versions, code, entries, sites, only, current>>

\* The code returns: execute_typed clears CURRENT_VM, complete_jit_execution
\* applies the policy and resumes in a clone of the Vm if something was asked.
CompleteJit ==
  /\ InCompiled
  /\ LET a == Top
         resumes == IF pending THEN a.m \in Guarded ELSE a.reason # NoReason
         frame == [Blank EXCEPT !.m = a.m, !.fallback = TRUE, !.how = a.how, !.throwing = pending]
     IN /\ DeoptPolicy(KeyOf(a.m, a.how), a.reason)
        /\ stack' = IF resumes THEN <<frame>> \o Tail(stack)
                    ELSE HandBack(Tail(stack), a.how, IF pending THEN "throw" ELSE "ok")
        /\ current' = IF a.how = "osr" /\ ~resumes THEN "vm" ELSE "none"
        /\ pending' = FALSE
  /\ UNCHANGED <<jit, threshold, versions>>

-----------------------------------------------------------------------------
Init ==
  /\ stack = <<>> /\ jit = TRUE /\ threshold \in 1 .. 2 /\ versions = 0
  /\ code = [k \in Keys |-> NoCode] /\ entries = [k \in Keys |-> NoCode]
  /\ sites = [k \in Keys |-> [r \in DOMAIN Counted |-> 0]]
  /\ only = {} /\ current = "none" /\ pending = FALSE

Next ==
  \/ \E m \in Methods : Start(m) \/ InvokeStatic(m) \/ InvokeNative(m) \/ HelperInvoke(m)
  \/ BackEdge \/ Leave \/ Catch \/ Throw \/ HelperFails \/ CompleteJit

Spec == Init /\ [][Next]_vars

-----------------------------------------------------------------------------
(* Properties.                                                             *)

\* Wherever compiled code runs, the helpers find their Vm, although every
\* execute and every compiled activation below a helper clears the thread-local
\* pointer (mod.rs 5287 and 5445, runtime.rs 2018 and 2190).
HelpersFindVm == InCompiled => current = "vm"

\* An exception that is pending when compiled code looks for one was raised by
\* that activation, not by one it called or one that called it.
PendingIsOwn == InCompiled /\ pending => Top.raised

\* The frame is rebuilt with the metadata of the code that ran: the manager and
\* the context never hold different code for one method (mod.rs 1112-1135).
MetadataOfEntry == \A k \in Keys : {code[k], entries[k]} \cap {NoCode} # {} \/ code[k] = entries[k]

\* A method that was given up never enters compiled code again, on no way in.
GivenUpForGood ==
  [][/\ only \subseteq only'
     /\ Len(stack') > Len(stack) /\ Head(stack').kind = "jit"
          => KeyOf(Head(stack').m, Head(stack').how) \notin only]_vars
=============================================================================
