# jvm-rs: specifications, model checks and proofs

jvm-rs is a Java virtual machine in Rust: a class-file loader, a verifier, a
bytecode interpreter with a JIT tier, a mark-and-sweep heap, and Java threads on
operating-system threads.  This directory holds TLA+ modules translated from its
source, TLC runs over small instances of them, and theorems checked by TLAPS.
`PROJECT.json` maps every definition to the lines it models, lists the hazards of
the code with the properties that watch over them, and gives every property a
mutant: a plausible mistake in the code that makes the property fail.

Line numbers below are of `src/src/vm/mod.rs` unless a file is named.

## 1. The system

A `Vm` is what one thread executes with.  `Vm::spawn` and `Thread.start()` clone
it: the clone has its own `thread_id` and frames, no JIT, and shares everything
else.  The shared state is a handful of maps, each behind a mutex of its own, and
almost every operation is one or several short critical sections.

| Component | State | Operations | Shared with | Modelled |
|---|---|---|---|---|
| Object monitors (`thread.rs`, 4983-5089) | one map slot -> `MonitorState` (lock_count, owner_thread, waiting_threads, pending_notifies), one mutex, one condition variable for all objects | monitorenter, monitorexit, `wait`, `notify`, `notifyAll` | every thread | yes |
| Heap and collector (`heap.rs`) | slots, bump buffer, region boundary, remembered set, counters | allocate, load, store, `gc` | every thread; roots come from frames, statics, pools | partly |
| Class loading and initialisation (4434-4610, `launcher.rs`) | `RuntimeState` (classes, initialisation entries, field tables), class-data cache | ensure_class_loaded, register_class, ensure_class_initialized, put_static_field | every thread; `<clinit>` re-enters the interpreter | partly |
| Java threads, LockSupport (361-400, 4802-4865, 5091-5140) | `states` and `parking` maps, a permit with its own condition variable per thread | start, join, interrupt, park, unpark | every thread | partly |
| String pool (5142-5155, `builtin/invoke.rs` 554-567) | map string -> reference | intern_string, `String.intern()` | class registration, natives, the collector's roots | yes |
| Verifier (`verify.rs`) | states and work list of one method | one data-flow pass per method | the interpreter trusts its verdict | yes |
| Interpreter, frames, unwinding (`interpreter.rs`, `frame.rs`, 920-1300, 5272-7540) | frames of one thread, inline caches | one step per opcode, invocation, throw | calls all of the above | partly |
| JIT (`jit/`, 234-250, 920-1140) | code cache, profiles, installed code, thread-local current `Vm`, deoptimisation buffer | lower, tier up, OSR, deoptimise | helpers call back into the interpreter | partly |
| Variable handles, atomics, Unsafe (`builtin/var_handle_ops.rs`, `builtin/invoke_concurrent.rs`) | heap slots, array elements, static fields | get, set, compare-and-set, read-modify-write | the mutexes of the heap and the runtime state | yes |
| Open files and streams (85-135, `builtin/invoke.rs`, `builtin/invoke_nio.rs`) | id counter, vector of files, the descriptors' fields | alloc, use, close | every thread | yes |
| Class loader, class path, launcher | archives | delegation, lookup | class loading | no |
| Method handles, indy, condy | linked-site maps in `RuntimeState` | link once, invoke | interpreter | no |
| The rest of the built-in library (`builtin/`) | heap objects | native methods | everything | partly |
| Class-file parser, descriptors, optimiser, interner, arena | none or local | pure functions | loader, JIT | no |

### What is hard here

* **Interleavings of short sections.**  A check in one section and the act in the
  next (`start_java_thread`, `intern_string`, `ensure_class_loaded`, a file's number
  and its entry, `getAndSet`), two maps updated one after the other, a spawned
  thread that runs before its record exists.
* **One condition variable for all monitors**, with counted notifications.
* **Two mutexes at once**: the guard of an `if let` scrutinee lives to the end of
  the body (4446-4450 and 4480-4482).
* **Re-entrancy and failure of `<clinit>`**: initializers that refer to each other
  on two threads, initializers that throw.
* **A moving boundary in the heap**: two kinds of collection, slots whose indices
  come back after a trim, and a remembered set some stores bypass.
* **Time**: `parkNanos` racing `unpark`.
* **Four readers of one method.**  Verifier, interpreter, compiler and refusal pass
  decode the same bytes, and each keeps an idea of the operand stack: the verifier
  by flow, the compiler by address, the interpreter at run time, the deoptimised
  frame from what the compiler wrote down.
* **Thread-local words across nested activations**: `CURRENT_VM` and the pending
  exception are one word each for a stack of activations.
* **Stale code, stale numbers, stale caches**: code dropped while it runs, a file
  number that outlives its stream, an inline cache that outlives its receiver.

### What makes each part correct

* Monitors: exclusion, exact re-entrancy across `wait`, no lost wake-up, counters
  that equal the wait set, an entry dropped only when it carries nothing; all of
  it summed up as "implements a Java monitor".
* Heap: what is reachable keeps its slot and contents; a slot handed out is empty;
  boundaries and counters stay consistent through any mix of collections.
* Class initialisation: one activation of each `<clinit>` at a time, nobody but the
  initialising thread sees a class before it is done, a completed one never runs
  again, every reference is answered.
* Threads: `join` waits, a permit is never lost and both sides use the same one, an
  interrupt lasts.
* Pool: a reference is pooled under its own characters; interning is canonical.
* Verifier: its states cover every frame that arises, so that verified code meets no
  error it is there to exclude.
* JIT: the stack written down for an instruction is the stack the interpreter would
  have there; helpers find their `Vm`; a pending exception is one's own; manager
  and context agree about the code of a method; what was given up stays so.
* Shared variables: every call of the three APIs is atomic and means what Java says.
* Files: a stream keeps its own file whatever the others do.
* Dispatch and decoding: every way to call a method runs the same one; every reader
  finds the same instructions.

## 2. The modules

| Module | Models | Proofs |
|---|---|---|
| `JavaMonitor` | the abstract monitor: owner, depth, wait set, permits | |
| `Monitors` | the four functions and `MonitorState`; one step per critical section | `MonitorsProofs` |
| `MonitorsFair` | `Monitors` under programs that leave what they enter; liveness | |
| `ChainSync` | the phase-chain program of `tests/complex_scenarios.rs` on `Monitors` | |
| `Heap` | `allocate`, stores with and without barrier, both collections | `HeapProofs` |
| `ClassInit` | loading, registration, the cache, initialisation, static stores | `ClassInitProofs` |
| `JavaThreads` | start, join, interrupt, park, unpark | `JavaThreadsProofs` |
| `Interning` | `intern_string`, `String.intern()`, new strings | `LibraryProofs` |
| `Bytecode` | the instructions of a method, as families of opcodes, and locals | |
| `Verifier` | the work list, the merge and every instruction's effect | `VerifierProofs` |
| `Interpreter` | frames, every instruction, invocation, return, throw and handler search | |
| `VerifiedExecution` | a method verified and then interpreted, with callees verified before | `VerifierProofs` |
| `JitLowering` | the walk of the compiler: blocks, signatures, what it refuses and writes down | `VerifierProofs`, `ResumeProofs` |
| `JitExecution` | compiled code, what each helper asks for, the rebuilt frame | `ResumeProofs` |
| `CompiledExecution` | a verified method compiled before it starts or on a loop, run, left and resumed | `VerifierProofs`, `ResumeProofs` |
| `Tiering` | counters, OSR, nested activations, the deoptimisation policy, thread-locals | `TieringProofs` |
| `MachineInts`, `AtomicCell` | two's complement; one variable as the three APIs promise it | |
| `AtomicAccess` | the natives of Atomic*, LongAdder, Unsafe, VarHandle under their mutexes | `LibraryProofs` |
| `IoResources` | the table of open files, descriptors and streams | `LibraryProofs` |
| `Decoding` | the length of an instruction in four walkers | `LibraryProofs` |
| `Dispatch` | method resolution, inline cache, native shadows, lambda proxies | `LibraryProofs` |
| `MCMonitors`, `MCChainSync`, `MCClassInit`, `MCInterning`, `MCJavaThreads` | identities, small tables, symmetry sets for TLC | |
| `MCBytecode` | the methods of sixteen themes for `CompiledExecution` | |
| `MCLibrary` | the four small models side by side | |

`Verifier` and `Interpreter` extend `Bytecode`, and `VerifiedExecution` puts them on
one method; `JitLowering` extends `Verifier` (it reads the same instructions),
`JitExecution` extends `Interpreter` and `JitLowering`, and `CompiledExecution` adds
them to `VerifiedExecution`.

**Definitions named for a mistake** (`AvailableAlways`, `RemoveEntry`'s `KeepEntry`,
`RequeuedOnce`, `EntriesKept` ...) stand before the definition they are the faulty
form of.  No specification uses them; they are the mutants of `PROJECT.json`.

### How state and actions correspond

*Monitors.*  The variables are the four fields of `MonitorState`, as functions on
objects; `tracked` is the key set of the map, and an object outside it reads as the
default state, as `entry().or_default()` does.  A step is one critical section: from
acquiring the mutex, or from waking inside `Condvar::wait`, to releasing it or to the
next wait.  `asleep` is the set of threads inside `Condvar::wait`; `notify_all`
empties it, and a thread that is awake but in phase "enter" or "wait" runs the loop
body when it gets the mutex.  `SpuriousWakeup` is the library's licence to return for
no reason.  `held` is history: how often the bytecode of a thread has entered.
`Finish` ends a thread with whatever it holds, as an uncaught exception does.  Null
references are refused before any state is touched and are left out.

*Heap.*  `values`, `len`, `tlab_top`, `tlab_limit`, `survivor_end`, `remembered_set`
and the counters are the fields of `Heap`.  Object contents are reduced to the
references in `Fields`; an object array is the same thing.  The mark loop is the
least closed set `Reach` (stated as an intersection, no recursion).  The heap is
behind one mutex, so an operation is one step.  `young_end` and `ages` are written
and never read, `minor_gc_count`, pause times and byte counts are statistics: left
out.

*ClassInit.*  `runtime_lock` and `cache_lock` name the holder of a mutex only
between two steps: in `Restore` (cache held, runtime wanted) and `Fill` (runtime
held, cache wanted).  Every other section takes one mutex and drops it and is one
step.  `clinits[t]` is the stack of `<clinit>` activations of a thread, so a request
from inside an initializer nests as the recursive `execute` does.  A class is found
as `Origin` says; `Loaders` are the `Vm`s that still have a class loader.  Before
the first step the built-ins are registered, by `Vm::bootstrap` and without flags or
descriptors, and the main class, by `launch()` and with both; `FromClassFile` names
the classes that go through the `register_class` of the launcher.  The
contents of a class are reduced to whether its static fields have the default or an
assigned value, and whether its descriptors are registered.  The loop of waiting
threads (`yield_now` and ask again) is the guard of `InitDone` and `BeginClinit`
being false.

*JavaThreads.*  `started`, `interrupted` and `handle` are the fields of
`JavaThreadState`, `parking` and `permit` the permits.  `start()` is four steps, for
it locks `states`, `parking`, spawns, and locks `states` again.  `park` looks the
permit up in one section and tests it in another.  `ParkTimeout` is the expiry of
`parkNanos` in any state of the permit.

*Interning.*  `intern_string` is three steps (look up, allocate, insert), the native
two (read the characters, then look up and insert).  `ClassStrings` are the values
that occur as string constants of classes being registered, the only arguments of
`intern_string` that race; `interned` is history.

*Bytecode, Verifier, Interpreter.*  A program counter is the index of an instruction;
the bytes are the subject of `Decoding`.  A value is its variant, and for an object
its class: numbers, the contents of the heap and the outcome of natives are choices,
so each instruction has a set of outcomes (go on, throw, an error of the `Vm`,
return).  `Propagate` is one turn of the loop of `verify_method`: take the oldest
entry of the queue, apply the instruction, merge the result into every successor and
into every handler that covers it, and queue what changed.  `Execute` and `Unwind`
are `execute_opcode` and `throw_exception` with all frames; a long or double takes
one entry of the operand stack and two local slots, as in the code.  A step of the
interpreter is one thread's, for nothing here is shared with another.
`VerifiedExecution` runs the two one after the other: `Verify` until there is a
verdict, `Start` with any arguments of the declared types, `Interpret` from then on.
A callee is a method of the constant `Callees`, verified before, with the states the
verifier found for it in `Certificate`.

*JitLowering, JitExecution.*  One step per instruction of the walk.  `signatures` are
the parameters of the blocks, `recorded` the stack kinds written down for each
instruction (`DeoptMetadata`), `compiled` what became of it.  Compiled code does what
the interpreter does on kinds of values; a helper that fails marks the buffer
(`Marked`), the code returns, or after a call goes on with a zero (`GoesOn`), and
`Complete` rebuilds the frame from `recorded`, the buffer and the kinds of the
locals.  Code emission, register allocation and relocation are Cranelift's.

*Tiering.*  `stack` holds the activations, innermost first: interpreted frames,
compiled code, what a helper or native started, and the interpreter that stands in
for compiled code after a deoptimisation.  `code` and `entries` are the two tables of
code (`compiled_code` of the manager, `entries` of the context), `current` and
`pending` the two thread-local words.  A method has one site and one loop; a call
count saturates at the threshold.  What a body does is a choice.

*AtomicAccess.*  `lock` is the mutex of the heap or of the runtime state; a native is
`Enter` (lock and read), then `Leave` (write, unlock, answer), twice for the
`getAndSet` of the Atomic classes.  `Overflow` is the panic of a checked addition,
which poisons the mutex for everyone (`EnterPoisoned`); `checks` says whether the
build has such checks.  The three APIs differ in what they refuse.

*IoResources.*  `next_id` and `files` are the table, `fd` the descriptor of a stream,
`rid` the number in a descriptor's field.  Each native is cut where the code releases
one mutex and takes the other: the number is taken and the file pushed in two steps,
read from the heap and used in two, and `close0` is three.  `muddled` is history: the
descriptors whose opening overlapped another.

*Decoding, Dispatch.*  Pure functions, four of the lengths and one of the method
found, over all opcodes and over all hierarchies of an instance; `cache` is the
inline cache of a call site, `called` the last call.  `InterfacesMet` follows the work
list of `resolve_method` place by place, `IsInstanceOf` is plain reachability upwards.

## 3. The runs

Twelve runs.  State counts are of the passing runs.

| Run | Bounds | What it shows |
|---|---|---|
| `monitors` | 3 threads, 2 objects, depth 2, symmetry; 110 052 | type, ownership, no lost wake-up, counters, entries, and that `Monitors` implements `JavaMonitor` |
| `monitors_fair` | 3 threads, 1 object, depth 2, 3 calls each; 33 678 | every contender gets in; every notification is used |
| `heap` | 4 allocations, 7 slots, buffer 1, 2 roots; 183 283 | collections free garbage only; buffer, boundary and counters consistent |
| `class_init` | 2 threads, a class-path and a bootstrap class whose initializers refer to each other, a built-in, one failure each; 2 206 063 | one initializer at a time, nothing seen half done, class-file classes described before visible, initialised for good |
| `class_init_fair` | 2 threads, the main class and an array class it uses, one failure each; 27 147 | every reference is answered |
| `java_threads` | 1 starter, 2 main threads that join, 2 children, 2 objects; 1 357 733 | join waits, one joiner per handle, one permit, no lost unpark, interrupts last |
| `interning` | 3 threads, 2 strings (one a class constant), 4 slots; 498 493 | own value, one reference |
| `bytecode` | every method of sixteen themes (3 to 5 free instructions from an alphabet of at most 19), 2 frames; 1 005 402 | an accepted method's states are a post-fixed point and cover execution, verified code is safe, the compiler's stacks are the top of the verifier's, with compilation at the start or on a loop, every outcome of every helper, and resumption as verification promised |
| `tiering` | 2 methods, 3 activations, 2 compilations; 1 431 198 | helpers find their `Vm`, a pending exception is one's own, one code per method, given up for good |
| `library` | 2 threads on one variable, 2-bit ints; 2 threads, 3 streams, 3 files; all 201 opcodes; 1152 hierarchies of 3 classes and 2 interfaces; 696 872 | shared variables implement `AtomicCell`, a stream keeps its file, lengths agree, dispatch agrees |
| `chain_sync` | 4 workers | **violation**: the phase chain can hang |
| `class_lock_order` | 2 threads, 2 class-path classes | **violation**: cache and runtime state are locked in both orders |

The types of `ClassInit` and `JavaThreads` are proved (section 4) and are not among
the properties of their runs.

**Why the bounds are enough.**  Three threads on one monitor are an owner, a
contender and a waiter, or a notifier and two waiters; with two objects the shared
condition variable wakes threads that are not concerned, and a thread holds one
monitor while it blocks on the other; depth 2 distinguishes a restored count from 1.
Four allocations over seven slots with a buffer of one let a minor and a major
collection follow each other in either order, with a trim that gives indices back
that are then handed out again.  Two classes with initializers that refer to each
other on two threads are the cycle of the JVM specification's deadlock discussion;
one failure each makes a waiter run a failed initializer again; the built-in is a class
that is visible and never described.  For threads, one object is started, joined, parked
and unparked while the other is at any other stage, and two threads race for the handle
of one.  For the pool, two threads intern one native string while the third races for
the constant.

A theme of `bytecode` is a frame and an alphabet chosen for one difficulty: stack
shuffles with a long among ints, locals overwritten by wider or narrower ones, loops
and joins that bring different states, handlers that overlap, `new` and the
constructor, `uninitializedThis`, arrays of every kind, calls with long arguments,
OSR from a loop head, subroutines, stack-map frames, blocks that only code further
down jumps to, loops that bring a slot back with another kind.  Every method of an alphabet is
verified, the wrong ones included; four free instructions are enough for a loop with
a join in it or a handler reached from two instructions with different locals.

In `tiering` three activations are compiled code, a helper's interpreted callee and
whatever that enters; a third method or a fourth activation repeats one of these.  Two
compilations are a version and its successor after a deoptimisation.  In `library`
two threads are what atomicity is about, and 2-bit integers wrap after one step;
three streams are one to be confused with another, and one with number 0.

The proofs of section 4 remove the bounds for monitors, heap, class initialisation,
threads, the pool, the table of files, the shared variables, the lengths, the tiers,
and for verification, interpretation and the compiler's stacks: any method, any
callees, any depth.

Every configuration but `Tiering.cfg` has `CHECK_DEADLOCK FALSE`: programs end, bounds
run out, and monitors may be abandoned, so a state without successor is a legal end.
Getting stuck is what the liveness properties are for.  In `Tiering` a program can
always start again, and deadlock is checked.

**Fairness.**  `MonitorsFair`: weak fairness of `Resume` (a woken thread gets the
mutex and runs the loop body: the operating system schedules it) and of `Leave` (the
program reaches its monitorexit: the compiler emits one on every path).  Nothing is
assumed about who gets a free monitor or about anyone calling `notify`.  Contention
is finite because each thread makes at most `MaxCalls` calls; without that bound the
library gives no fairness between contenders and neither does the code.
`ChainSync`: weak fairness of each worker.  `ClassInit`: weak fairness of the steps
inside the VM, strong fairness of `FinishClinit`, which says that every `<clinit>`
ends whatever it asks for on its way; failures are bounded by `MaxFails`.  Two
`<clinit>` that wait for each other are the deadlock that the Java language permits,
and `class_init_fair` therefore uses initializers without a cycle between threads.

### Disagreements between code and documentation

Two runs refute what the repository says of itself; `PROJECT.json` has the quotes.

1. `chain_sync`: `pending_notifies` is a number, not addressed to the threads that
   were waiting.  After `notifyAll`, a thread that was woken, found its condition
   false and waited again can consume the notification of one that has not run yet,
   which then sleeps for ever.  With four phases the test program hangs.
2. `class_lock_order`: 4446-4447 takes cache then runtime, 4480-4481 runtime then
   cache.

### Known deviations

What the code does that Java, or its own comments, would not have it do.  The models
do it too; where a property leaves such a case out, it is said here which and why.

*Threads, classes, collector*

* `request_gc`, the only way to a collection from Java code, builds its roots from a
  `Thread` without frames: `Runtime.gc()` frees what only frames reach (607).  The
  properties of `Heap` are about `gc` with whatever roots it is given.
* Two threads that both find a class absent both register it (4447, 4481): statics
  already assigned go back to their defaults and `<clinit>` does not run again.
* `start()` checks and sets `started` in two sections (4815): two callers both pass
  and `run()` executes twice.  `java_threads` has one starter, and the theorems about
  `start()` assume it (`OneStarter`).
* The second of two threads that `join()` one running thread returns at once: the
  handle was taken by the first (4860-4868).  `JoinWaits` allows a `join()` to return
  while another one waits, and no other early return.
* Field flags and descriptors are registered for classes from class files only
  (`launcher.rs` 608-609).  Built-ins (`builtin/bootstrap.rs` 139-147 and 160-168,
  `builtin/bootstrap_reflect.rs` 155-183, and the rest of these files) and the classes
  that `Vm` makes up (1571, 7142) reach `Vm::register_class` without any.  Their fields
  pass for public (3678, 3847), and a static one has the descriptor of the value it
  holds (3703, 3748), which for any reference is `Ljava/lang/Object;` (3883):
  `Integer.TYPE` is not found as the `Ljava/lang/Class;` it is.
  `DescribedWhenVisible` is about the classes from class files.
* `run()` can execute before `start()` has recorded the thread: `isAlive()` is false
  and `interrupt()` is dropped in that window.  `JavaThreadState::status` stays
  Runnable after the thread has ended.
* `intern_string` on two threads with one constant yields two references, the later
  one replacing the earlier in the pool.  `NativeInternedOnce` excepts those strings.
* A cloned `Vm` has no class loader (228): a bootstrap class that a spawned thread
  asks for first is not found.
* `should_collect` has no caller: the documented threshold never triggers a
  collection.  `GcStats::live` is never assigned.

*Verifier and interpreter*

* A last instruction that falls through makes the verifier index `states` out of its
  bounds (`verify.rs` 97), a panic; a `tableswitch` with `low > high + 1` is accepted
  and panics in the interpreter (6299).  The methods of `MCBytecode` end in a return.
* The verifier does not look at the source type of a conversion, the kind of an
  array or the class of an object; `VerifiedCodeIsSafe` excepts the three errors that
  follow (`TypeMismatch` in a conversion, `InvalidHeapValue`, `FieldNotFound`).
* `laload`, `faload` and `daload` share one access that pushes whatever the array
  holds (5592-5600, `heap.rs` 422): a long load from an array of floats is accepted,
  leaves a float where the verifier has a long, and any error may follow.  A handler
  in a method with `max_stack` 0 is accepted and the exception finds no room on the
  stack.  The theorems leave both out (`Supported`); the themes of `bytecode` have no
  such method.
* `dup2_x2` takes category 1, 2, 1 and refuses 1, 1 over 2, which the Java format
  allows, alike in verifier (`verify.rs` 642-657), interpreter and compiler.
  Merging locals of two primitive types is an error, where Java drops the local.
* The least int or long divided by -1 panics (5837, 5881); negating it, and an `iinc`
  past the end, panic in a build with overflow checks.
* `invokespecial` does not test its receiver for null; exceptions made by the VM have
  no fields; a native fallback swallows exceptions (6541-6558, 7401-7418).
* The pass that refuses methods before compilation (`jit/compiler.rs` 4067) takes the
  loads and stores with an index as one byte and `arraylength` as three: it loses its
  place there and may refuse or miss what it looks for.  `LengthsAgree` says just
  that.  The verifier accepts `wide` before any opcode; the interpreter does not.

*Method selection*

* Default methods are taken in the order the interfaces are met (7277-7300), and not
  by which is most specific; of two unrelated ones the first runs instead of an error.
  `DispatchAgrees` claims agreement where at most one interface has one.
* A lambda proxy over an inherited native looks it up in the named class only
  (7473-7478).

*Compiled code.*  What the compiler has on its stack is the verifier's stack only up
to two deviations, which `JitStackIsTop` states around:

* A block that the walk comes to before anything jumps there has no signature yet and
  is lowered with an empty stack (`jit/compiler.rs` 611-652); jumps from further down
  append parameters that its code does not know.  With `goto` over a block, and back
  into it with a value on the stack, the compiled block lacks that value:
  `JitStackIsTop` says that the compiler's stack is the top of the verifier's, and
  that it is all of it if the code is `ReachedInOrder`.
* A local has one kind for the whole method, that of its argument or of its first use
  (1880-2089).  A slot that is an argument of one kind, gets another, and is loaded
  after OSR enters on the loop, is loaded as the first.  `LoadsAgree` excludes it.

It speaks of accepted methods whose lowered instructions the verifier reached: code
that no flow reaches may have any stack, in the verifier none.

`ResumedAsVerified` says nothing of these shapes, called `Misrestored`, in which the
interpreter may be given a frame the verifier never saw (`StatesCoverExecution` and
`VerifiedCodeIsSafe` are about what was interpreted all along):

* `jit.late`: after a failed call helper the code does not look at the request and
  goes on with a zero (`jit/compiler.rs` 2984, 3022, 3385; TODO.md:96), so that the
  interpreter resumes with a pc and a stack of different moments.
* `~OneKindPerSlot`: the kind of a local is that of the first use; a slot used for an
  int and then for a reference is decoded as the wrong one (an `iinc` is a use as an
  int).  So is a slot that is used by itself and is also the second half of a long or
  a double: a store to one empties the other in the interpreter's frame, and in the
  verifier's state, but not among the variables of compiled code.
* `~ReachedInOrder`: the stack written down is only the top of the stack.
* `receiver # "none"`: `parse_arg_types` does not count the receiver, so that the
  locals of an instance method are shifted.
* `instanceof`: its byte result has no kind in the deoptimised frame and is dropped
  (TODO.md:89).

Further, and in the models:

* Errors of the `Vm` while resuming are printed and forgotten (`Forget`); array
  helpers turn every error into `ArrayIndexOutOfBoundsException`; a failed cast,
  monitor operation or allocation runs the instruction again in the interpreter.
* An entry dropped by the policy is unmapped (`jit/runtime.rs` 1835-1843) although an
  outer activation may return into it.  `Tiering` says which code an activation runs,
  not whether it is still there.
* Resumption runs in a clone with a new `thread_id` (234, 935): monitors the compiled
  frame held belong to nobody then.

and beyond the models, which have no numbers: shift counts (`jit/compiler.rs`
1466-1494), `lcmp` and `fcmp` (2267-2310), floating-point remainders (1630-1650),
conversions that trap (TODO.md:78-80), 0x6c to 0x71 lowered by the wrong kind
(371-376), `execute_typed` with more than five arguments.

*Shared variables*

* `getAndSet` of `AtomicInteger`, `AtomicLong` and `AtomicReference` reads and writes
  in two sections (`builtin/invoke_concurrent.rs` 37, 189, 321): a write in between
  is lost.  `AtomicCell` promises two instants for it and one for everything else.
* `current + delta` panics on overflow in a build with checks, inside the mutex of
  the heap, which is poisoned for every later call (`AtomicCell`, `Die`).
* Variable handles on floats and doubles do no arithmetic, and on elements no
  compare-and-set (`Refused`); those on bytes and shorts do not truncate.
* `Unsafe` cannot reach static fields (a null base throws); a field without an
  offset has offset 0.  `ReentrantLock.lock` does nothing.

*Files*

* Numbers start at 0, and 0 also means "closed" and "none": a closed stream, or one
  whose opening failed, reads, writes and closes the first file, while `java.nio`
  treats the first file as absent.  `OwnFile` leaves number 0 out.
* Two openings that overlap can swap their files (127): the number is taken before
  the file is pushed.  `OwnFile` leaves out descriptors whose opening overlapped.
* Closing a writer over a `FileOutputStream` looks the number up in the descriptor as
  if it were the stream (`builtin/invoke_nio.rs` 370): the file stays open.

## 4. The proofs

All are checked by TLAPS for every value of the constants, from the assumptions
named in the modules: `MonitorsAssumption` (`NoThread` is no thread, `Threads` is
finite, `MaxDepth` is positive), `ClassInitAssumption` (the tables have their types;
only classes from class files have a `<clinit>` that refers to others; `None` and
`"Initialized"` are no threads), `InterningAssumption` (`ClassStrings`
are strings, `Null` is no slot), `HeapAssumption` and `NoneAssumption` (the bounds
are naturals, the buffer is not empty, `Null` is no slot and `None` no object),
`JavaThreadsAssumption` (main threads are no children, the VM threads are finite, `None`
is neither thread nor object), `IoAssumption` (`Unopened` is no stream),
`TieringAssumption` (guarded and compilable methods are methods), `WidthsAssumption`
(integers have at least one bit), `AccessorAssumption` and `DatumAssumption` (the
states of the lock are no threads, a datum is of one of the four kinds),
`MaxEntriesAssumption` (a natural), and `CalleesAccepted` (below).

*`MonitorsProofs`.*  Four invariants, each inductive relative to the one before:

* `TypeInv`: types, and `waiting_threads` is the cardinality of the wait set, which
  is what makes it a natural number after the decrement.  The steps cite the
  theorems on adding to and removing from finite sets; this is where
  `IsFiniteSet(Threads)` is used.
* `OwnInv`: adds `Ownership` and that a waiter's saved count is positive.
  `MutualExclusion` follows, and needs it: exclusion alone is not inductive because
  a returning waiter restores a count from a local.
* `CountInv`: adds `EntryKept` and that no more notifications are pending than
  threads wait (the other half of `WaitersCounted`).
* `WakeInv`: adds `NoLostWakeup`, which needs `CountInv`: that enough waiters are
  awake for the notifications is kept by `wait_on_monitor` only because pending
  notifications never outnumber the waiters.

Theorems `TypeCorrect`, `OwnershipCorrect`, `MutualExclusionCorrect`,
`EntryKeptCorrect`, `WaitersCountedCorrect` and `NoLostWakeupCorrect` state them of
`Spec`.

`Refinement`: `Spec => ImplementsJavaMonitor`.  The map is
owner = `owner_thread`, depth = `held`, waiting = the threads in phase "wait",
permits = `pending_notifies`; initial states map to initial states, and under
`CountInv` every step maps to a step of `JavaMonitor` or to a stutter (the retries,
the wake-ups, the entries of the map).

*`HeapProofs`.*  `HeapInv` is the conjunction of what the run checks and
`ChildrenInRange`; together they are inductive, none is alone.  A minor collection
sweeps only below `survivor_end`, a trim lowers the end of the heap, and what keeps a
reference from pointing past it is that the sweep spares every reachable slot.
`Reach` is an intersection, so a lemma (`ReachIsLeast`) says that naming any closed
set that holds the roots bounds it; the proofs that a store, an allocation and a
sweep keep `NoDangling` each name such a set.  The action properties
`GcKeepsReachable` and `MajorCollectsAll` follow from the same invariant.

*`JavaThreadsProofs`.*  Types, `NoLostUnpark` and `HandleNotShared` hold for any
threads; the handles need an invariant about who owns one (`OwnInv`: a handle is in the
table, or on its way there, or with one joiner).  With one starter (`OneStarter`)
`OnceInv` says that the object of a call of `start()` in progress has no thread yet, or
just the one being recorded; `SamePermit` and `InterruptKept` follow, because the permit and
the record are then made once.  So is the handle, and every thread of a joined object
has ended or is the one some `join()` waits for: `JoinWaits`, for any number of joiners.
The hypothesis is not a convenience: without it the statements are false (section 3).

*`ClassInitProofs`.*  `LoadInv`: types, and what a thread inside `ensure_class_loaded`
has established so far (a cache hit is still one when it is restored, a class to be
cached or initialised is registered, one from a class file to be published is
described); it gives `TypeCorrect` and `DescribedWhenVisibleCorrect`.  `InitInv` adds `EntryInv`: the
activations of a thread are pairwise different and are just those of the classes
whose entries name it.  `OneInitializer` counts them; `UsableIsInitialized` needs
`EntryInv` because a failing `<clinit>` removes the entry of whatever class is on
top of the stack, and `InitializedForGood` because a finished entry is safe only if
no activation of it is left to fail.  Theorems `OneInitializerCorrect`,
`UsableIsInitializedCorrect`, `InitializedForGoodCorrect`.

*`TieringProofs`.*  `HelpersFindVm` is not inductive: a compiled activation that ends
clears `CURRENT_VM` without knowing what lies under it.  `Beneath` supplies that: each
compiled activation, and each frame that stands in for one, lies on an interpreted
frame, so that compiled code is uncovered only by a frame that leaves, and that one
sets the word again.  `PendingIsOwn` needs to be said of the innermost compiled
activation, wherever it is on the stack, because interpreted frames above it come and
go while its exception is pending (`InnermostRaised`).  `MetadataOfEntry` follows from
`Installed`: what the context has is what the manager has.  Every step is
reduced to three shapes (an interpreted frame on top, compiled code on top, nothing
left) and to what it does to the tables.  `GivenUpForGood` is an action
property proved along with the invariant.

*`LibraryProofs`.*  Five components; all but the string pool share a run.

* Files: `IoInv`: numbers handed out are below `next_id`, the files not yet pushed are
  as many as the openings in progress, and an opening that ran alone pushes its file
  at the number it took; what a native looked up earlier still names the file of its
  stream because `close` leaves a hole.  It gives `OwnFileCorrect`.
* Shared variables: `AccessImplementsCells`: `AccessSpec => ImplementsCells`.  A section
  of a native maps to the instant of the abstract call, its entry and its answer to
  themselves.  The step needs `AccessInv` (theorem `AccessInvariant`): what a thread
  has asked, found and been told is what its place in the call says (`CallInv`); who
  holds the lock in the first section has seen the value the slot still has, who is
  in the second has a value of the datum's kind (`LockInv`); and a poisoned lock has a
  thread that panicked.  The bitwise operations are defined over the sets of one bits
  (`MachineInts`) and are the same on both sides.
* Decoding: `LengthsAgreeCorrect`, for every opcode, alignment and number of switch
  entries.
* Dispatch: `DispatchAgreesCorrect`, for every hierarchy in which no class is above
  itself (`ShapesAssumption`; interfaces may be listed twice, or in circles).  The
  chain ends at a class without a super class, because a rank falls along it.
  `Visited` holds after every place of the work list of `resolve_method`: the list
  repeats nothing, has the interfaces of the places visited, and has nothing that is
  not above the class.  A list without repetition is no longer than there are
  interfaces, so the walk ends having visited it all, and its members are what
  `is_instance_of` reaches (`InstanceOfIsMet`).  Then, with at most one candidate, the
  first declaration found is the one selected (`ResolveAgrees`).  `CacheHoldsOwn` is
  the invariant of the call site: an entry names the class that declares its method,
  so it is right for a receiver of that class.  The recursive functions are shown to
  exist by counting (`CountingTo`, `RepeatingExists`).
* String pool: `PoolInv` (the slots in use are an initial segment of the naturals, so
  the next is fresh; what a call in progress remembers agrees with the heap) gives
  `PoolOfOwnValueCorrect`.  `NativeInv` (whatever `String.intern()` alone has interned
  is the pooled reference of its value) gives `NativeInternedOnceCorrect` and
  `NativePoolStableCorrect`.

*`VerifierProofs`.*  What verification is for, in two halves.

First the data flow.  `VerifierInv` says that every instruction that was reached is
in the work list or `Settled`: it is not refused, and whatever it sends on has
arrived at the successors, targets and handlers.  A merge only raises a state
(`StateBelow`, a partial order shown reflexive and transitive), so an instruction
settled once stays so until its own state changes, and that is the moment it is
queued again.  When the list is empty the states are a post-fixed point:
`AcceptedIsFixedPointCorrect`.  The order of the list does not matter, nor is
termination claimed.

Then the execution.  `ExecutionInv` relates every frame on the stack to the states of
its method, and none of its parts can be spared:

* `FrameFits` is the property itself: locals and operands of the frame that executes
  are covered (`Covers`) by the state at its instruction.
* `Paired`: the slot after a long or a double is empty.  A store into half of a wide
  value clears its other half in the frame and in the state alike only because both
  find the wide value in the same slot.
* `Waiting`: a caller fits with *any* values of the types its callee returns on top of
  its stack.  That is a fact about states the verifier has long computed, and it is
  what a return finds.
* `Stacked`: every frame but the innermost waits for the types of the method above it,
  and the outermost is the method that was verified.
* `LocalsFit` at the instruction before the program counter, for a frame that throws
  or is thrown into: an exception keeps the locals and forgets the stack.

Each instruction then has a lemma that its outcome fits (`OutcomeFits`): what it pops
has the variants it asks for, since compatible types cover the same variants
(`CompatibleCovers`); what it pushes is covered by what the verifier pushed
(`Puts`); and no room is missing on the stack.  `StatesCoverExecutionCorrect` and
`VerifiedCodeIsSafeCorrect` follow, for any method, any class hierarchy and any depth
of calls.  They speak of `ExecutionSpec`, which has two hypotheses.  `Supported`: an
invocation names a method of the descriptor it was compiled against (resolution finds
it by that descriptor), no typed array load, and room for an exception if there is a
handler; the last two are the deviations of section 3.  `CalleesAccepted`: the states
in `Certificate` are post-fixed points for the callees, which is what the first half
proves of each of them when it was accepted; since callees may call each other, it
covers recursion.

Last the compiler (`JitStackIsTopCorrect`).  It walks the code once by address, the
verifier goes where the flow goes, and `LoweringInv` says why they meet:

* `LoweringShape`: the walk starts on a method that was accepted and has no
  subroutines, nothing is written down before, and what is lowered lies before the
  place it has come to.
* `Matches`: while the method is accepted, loads agree and what was lowered was
  reached, the recorded stack of each instruction, the signature of each block and
  the stack in hand follow the verifier's stack there (`Follows`, the `TopOf` of the
  property), and have its length if the code is reached in order.
* `Announced`: a place further on to which a lowered instruction goes has a signature,
  or is where the walk is, with its stack in hand.  So a block that starts empty is
  one no lowered instruction before it leads to, which in code reached in order has
  an empty stack for the verifier as well.  Since `ReachedInOrder` only gets harder to
  satisfy as more is lowered, lengths once equal stay so.

A step of the walk keeps it because lowering and verifying one instruction do the
same to stacks that correspond (`LowersAsVerified`): both pop and push the same
number of values of corresponding kinds.  It is proved family by family from the
effects of the opcodes (arithmetic, conversions, stack shuffles, loads and stores,
invocations, the rest), and that the result arrives at the successors is the
post-fixed point of the first half.  The kinds an instruction may have
(`IsInstruction`: the four of arithmetic, int and long for division and shifts, the
seven targets of a conversion) are those of the opcodes.  `InterpretedAsVerified`
carries the second half over to executions that are compiled, entered and resumed at
any moment, where nothing that is interpreted from the start is disturbed.

*`ResumeProofs`.*  The way back from compiled code: `ResumedAsVerifiedCorrect`.  What
the interpreter is given is put together from four things made at different times: the
kinds the compiler wrote down when it walked over the instruction, the kinds it declared
the locals as before it walked at all, the words compiled code wrote to the buffer as it
ran, and the pc of the helper that asked to leave.  `ResumedAsVerified` alone says
nothing of them until they are used, so the invariant `ResumeInv` says of each what
makes it right when the time comes:

* `WalkInv`, of the compiler's walk.  What is lowered was lowered with words, a block
  with its signature or with nothing; a place where a lowered instruction goes has its
  stack as signature, was lowered with it, or is the next with it in hand (`Sent`); and
  every block the walk has passed is lowered.  At the end of the walk this says that
  compiled code is closed (`CompiledIsClosedCorrect`), and that an instruction which
  has the whole of the verifier's stack passes the whole on (`TrackedOn`).  The entry
  has an empty stack in both, so whatever compiled code comes to is `Tracked`.
  `JitStackIsTop` is not enough here: it speaks only of methods in which every lowered
  instruction is reached by the verifier and every load agrees, and `Misrestored`
  assumes neither.  In its place loads are shown to agree where compiled code comes
  (`LoadsHold`), from the next point.
* `StoredStates`, of the verifier's data flow.  What it finds in a slot is the type of an
  argument or of a store to that slot, so a slot of one kind holds nothing else, and the
  compiler declared it so (`SlotDeclared`, `SlotHolds`).  The merge keeps this, which
  needs that no return address is among what it merges: `StoredStates` speaks of code
  without subroutines, and no other is compiled.
* `JitPhases`, of who is at work.  While the method is compiled and until its code is
  entered the interpreter stands still at the entry with an empty stack; so the frame
  entered with is the one the walk began at.
* `JitHolds`, of the buffer.  As long as no helper has asked to leave, the frame of
  compiled code is one the verifier saw, at a tracked instruction (`Held`); this is kept
  because a helper does what the interpreter does, with the callee run to its end
  (`HelperFits`, `HelperLeads`).  Once one has asked and the code has looked, the buffer
  has the pc and the stack of just that frame (`Buffered`).  What would be returned is
  of the declared type (`Yields`), also the zero that `Forget` returns.  And back in the
  interpreter the method `RunsAt` as it does from a start.

`FrameRestored` puts them together: the decoded stack is the stack the code had
(`StackRestored`, as an invariant `StackHandedOverCorrect`), each local is covered, and
the restored frame fits at its pc, or, if an exception is pending, throws from there.
From then on the lemmas of `VerifierProofs` on the interpreter's own steps apply.

*Only model-checked* is liveness, everywhere: TLAPS does not prove `ENABLED` and hence
no property under fairness.  Every invariant and every action property of the passing
runs is stated by a theorem.

## 5. Not modelled, and the plan

Not modelled, with the reason:

* **Class-file parser, archives, launcher, logging, formatting**: byte formats and
  input and output, with no state that a step could get wrong.
* **Class loader delegation**: whether a class is found, and by whom, is an input of
  `ClassInit` (`Origin`, `Loaders`).
* **Method handles, invokedynamic, constant dynamic**: an interpreter of combinator
  trees over data.  The helper of a dynamic call and lambda proxies are in
  `JitExecution` and `Dispatch`.
* **Code emission and the optimiser's passes**: a translation into Cranelift's
  language whose meaning is Cranelift's.
* **Collections, strings, reflection and time in the library**: sequential; locks and
  executors of `java.util.concurrent` are stubs without state.
* **Numbers** in the interpreter and in compiled code: the deviations above were
  found by reading.

What is left, in the order of its use:

1. The lock order of the `Vm` as a whole: heap, runtime state, cache, pool, monitors,
   states, parking and output with every nesting of every caller (4677-4683 holds the
   heap and asks the runtime state for offsets, 660-661 the other way round).
2. The composition of `Heap` with `Monitors` and `JavaThreads`: both are keyed by slot
   and outlive the object, and a slot that comes back inherits them.
3. The initialisation procedure of the JVM specification as an abstract specification
   that `ClassInit` implements.
4. Integer arithmetic of compiled code against Java's, over `MachineInts`.
5. Linking once (indy, condy, class objects) and class-path delegation.
