------------------------------- MODULE ClassInit -------------------------------
(***************************************************************************)
(* Loading and initialising classes on several VM threads:                 *)
(* ensure_class_loaded, ensure_class_initialized and put_static_field in   *)
(* src/src/vm/mod.rs and register_class in src/src/launcher.rs.            *)
(*                                                                         *)
(* The threads share RuntimeState and the class-data cache, each behind a  *)
(* mutex of its own.  A section that takes one mutex and drops it is one   *)
(* step.  Two sections take the second mutex inside the first: the guard   *)
(* in the scrutinee of an `if let` lives to the end of its body.  Those    *)
(* are two steps each, with the first mutex held in between.               *)
(***************************************************************************)
EXTENDS Naturals, Sequences, FiniteSets

CONSTANTS
  Threads,    (* the VM threads                                             *)
  Loaders,    (* those with a class_loader: Clone leaves it None            *)
  Classes,    (* the class names                                            *)
  Origin,     (* where each class is found, see Origins                     *)
  Uses,       (* the classes the <clinit> of each class refers to           *)
  None,       (* no entry, or no holder of a mutex                          *)
  MaxFails    (* bound on the times each <clinit> throws                    *)

(* "builtin": made by Vm::bootstrap; "main": the class launch() registers   *)
(* before main() runs; "array": synthesized; "boot": on the bootstrap path; *)
(* "user": on the class path; "missing".                                    *)
Origins == {"builtin", "main", "array", "boot", "user", "missing"}

(* The classes that come out of a class file.  Those that the VM makes up   *)
(* (built-ins and arrays) go straight to Vm::register_class, without flags  *)
(* and descriptors for the fields they may have, and have no <clinit>.      *)
FromClassFile(c) == Origin[c] \in {"main", "boot", "user"}

ASSUME ClassInitAssumption ==
  /\ Loaders \subseteq Threads
  /\ Origin \in [Classes -> Origins]
  /\ Uses \in [Classes -> SUBSET Classes]
  /\ \A c \in Classes : ~FromClassFile(c) => Uses[c] = {}
  /\ "Initialized" \notin Threads
  /\ None \notin Threads \cup {"Initialized", "default", "assigned"}
  /\ MaxFails \in Nat

VARIABLES
  runtime_lock, cache_lock,  (* the holder of a mutex between two steps      *)
  classes,              (* RuntimeState::classes, the names                  *)
  field_descriptors,    (* the classes with registered flags and descriptors *)
  static_fields,        (* the value of the static fields of each class      *)
  class_data_cache,     (* the static fields of each cached copy, or None    *)
  initialized_classes,  (* None, the thread of Initializing, "Initialized"   *)
  pc, class_name, initialize,  (* the request each thread is working on      *)
  clinits,    (* the <clinit> activations of each thread, the last running   *)
  usable,     (* history: the classes each thread has been let through to    *)
  fails       (* history: how often each <clinit> has thrown                 *)

shared == <<classes, field_descriptors, static_fields, class_data_cache,
            initialized_classes>>
locks  == <<runtime_lock, cache_lock>>
vars   == <<locks, shared, pc, class_name, initialize, clinits, usable, fails>>

Phases == {"run", "load", "cache", "restore", "define", "describe", "publish",
           "populate", "fill", "init"}

(* A definition named for a mistake (DoneOnceClaimed, KeepEntry, ...) is the*)
(* faulty form of the one after it; the specification never uses it.        *)

Init ==
  /\ runtime_lock = None /\ cache_lock = None
  /\ classes = {c \in Classes : Origin[c] \in {"builtin", "main"}}
  /\ field_descriptors = {c \in Classes : Origin[c] = "main"}
  /\ static_fields = [c \in Classes |-> "default"]
  /\ class_data_cache = [c \in Classes |-> None]
  /\ initialized_classes = [c \in Classes |-> None]
  /\ pc = [t \in Threads |-> "run"]
  /\ class_name \in [Threads -> Classes]
  /\ initialize = [t \in Threads |-> FALSE]
  /\ clinits = [t \in Threads |-> <<>>]
  /\ usable = [t \in Threads |-> {}]
  /\ fails = [c \in Classes |-> 0]

Goto(t, label) == pc' = [pc EXCEPT ![t] = label]
Running(t)     == Head(clinits[t])
InClinit(t)    == pc[t] = "run" /\ clinits[t] # <<>>

-----------------------------------------------------------------------------
(* Bytecode refers to class c: getstatic, new and invokestatic also ask for *)
(* its initialisation, method resolution and checkcast do not.              *)
Request(t, c) ==
  /\ pc[t] = "run"
  /\ clinits[t] # <<>> => c \in Uses[Running(t)]
  /\ class_name' = [class_name EXCEPT ![t] = c]
  /\ initialize' \in {[initialize EXCEPT ![t] = b] : b \in BOOLEAN}
  /\ Goto(t, "load")
  /\ UNCHANGED <<locks, shared, clinits, usable, fails>>

(* ensure_class_loaded has succeeded.                                       *)
AfterLoad(t) == IF initialize[t] THEN "init" ELSE "run"

CheckLoaded(t) ==
  /\ pc[t] = "load" /\ runtime_lock = None
  /\ Goto(t, IF class_name[t] \in classes THEN AfterLoad(t) ELSE "cache")
  /\ UNCHANGED <<locks, shared, class_name, initialize, clinits, usable, fails>>

(* The lookup in the class-data cache.  On a hit the guard stays.           *)
Cached(c) == class_data_cache[c] # None

CheckCache(t) ==
  /\ pc[t] = "cache" /\ cache_lock = None
  /\ \/ /\ ~Cached(class_name[t])
        /\ Goto(t, "define")
        /\ UNCHANGED cache_lock
     \/ /\ Cached(class_name[t])
        /\ Goto(t, "restore")
        /\ cache_lock' = t
  /\ UNCHANGED <<runtime_lock, shared, class_name, initialize, clinits, usable, fails>>

(* The cached copy, static fields included, replaces the class.             *)
Restore(t) ==
  LET c == class_name[t] IN
  /\ pc[t] = "restore" /\ runtime_lock = None
  /\ classes' = classes \cup {c}
  /\ static_fields' = [static_fields EXCEPT ![c] = class_data_cache[c]]
  /\ cache_lock' = None
  /\ Goto(t, AfterLoad(t))
  /\ UNCHANGED <<runtime_lock, field_descriptors, class_data_cache,
                 initialized_classes, class_name, initialize, clinits, usable, fails>>

(* The class is looked for: array names first, then the bootstrap path, if  *)
(* this VM still has a loader for it, then the class path.                  *)
Found(t, c) ==
  \/ Origin[c] \in {"array", "user"}
  \/ Origin[c] = "boot" /\ t \in Loaders

(* register_class registers the access flags and descriptors of the fields, *)
(* and only then the class; an array class has no fields.                   *)
FirstSectionPublish(c) == "publish"
FirstSection(c) == IF Origin[c] = "array" THEN "publish" ELSE "describe"

Define(t) ==
  LET c == class_name[t] IN
  /\ pc[t] = "define"
  /\ Goto(t, IF Found(t, c) THEN FirstSection(c) ELSE "run")
  /\ UNCHANGED <<locks, shared, class_name, initialize, clinits, usable, fails>>

Describe(t) ==
  /\ pc[t] = "describe" /\ runtime_lock = None
  /\ field_descriptors' = field_descriptors \cup {class_name[t]}
  /\ Goto(t, "publish")
  /\ UNCHANGED <<locks, classes, static_fields, class_data_cache,
                 initialized_classes, class_name, initialize, clinits, usable, fails>>

(* HashMap::insert replaces whatever another thread has registered since.   *)
Publish(t) ==
  LET c == class_name[t] IN
  /\ pc[t] = "publish" /\ runtime_lock = None
  /\ classes' = classes \cup {c}
  /\ static_fields' = [static_fields EXCEPT ![c] = "default"]
  /\ Goto(t, IF Origin[c] = "user" THEN "populate" ELSE AfterLoad(t))
  /\ UNCHANGED <<locks, field_descriptors, class_data_cache,
                 initialized_classes, class_name, initialize, clinits, usable, fails>>

(* A class from the class path goes into the cache; the guard of the        *)
(* runtime state stays while the mutex of the cache is taken.               *)
Populate(t) ==
  /\ pc[t] = "populate" /\ runtime_lock = None
  /\ runtime_lock' = t
  /\ Goto(t, "fill")
  /\ UNCHANGED <<cache_lock, shared, class_name, initialize, clinits, usable, fails>>

Fill(t) ==
  LET c == class_name[t] IN
  /\ pc[t] = "fill" /\ cache_lock = None
  /\ class_data_cache' = [class_data_cache EXCEPT ![c] = static_fields[c]]
  /\ runtime_lock' = None
  /\ Goto(t, AfterLoad(t))
  /\ UNCHANGED <<cache_lock, classes, field_descriptors, static_fields,
                 initialized_classes, class_name, initialize, clinits, usable, fails>>

-----------------------------------------------------------------------------
(* The tests of ensure_class_initialized.  When neither holds the thread    *)
(* yields and asks again, which changes nothing.                            *)
DoneOnceClaimed(t, c) == initialized_classes[c] # None
Done(t, c) == initialized_classes[c] \in {"Initialized", t}

ClaimableWhileRunning(t, c) == initialized_classes[c] \in {None} \cup (Threads \ {t})
ClaimableAgain(t, c) == initialized_classes[c] \in {None, "Initialized"}
Claimable(t, c) == initialized_classes[c] = None

InitDone(t) ==
  LET c == class_name[t] IN
  /\ pc[t] = "init" /\ runtime_lock = None
  /\ Done(t, c)
  /\ usable' = [usable EXCEPT ![t] = @ \cup {c}]
  /\ Goto(t, "run")
  /\ UNCHANGED <<locks, shared, class_name, initialize, clinits, fails>>

(* A class without <clinit> is one whose <clinit> returns at once.          *)
BeginClinit(t) ==
  LET c == class_name[t] IN
  /\ pc[t] = "init" /\ runtime_lock = None
  /\ Claimable(t, c)
  /\ initialized_classes' = [initialized_classes EXCEPT ![c] = t]
  /\ clinits' = [clinits EXCEPT ![t] = <<c>> \o @]
  /\ usable' = [usable EXCEPT ![t] = @ \cup {c}]
  /\ Goto(t, "run")
  /\ UNCHANGED <<locks, classes, field_descriptors, static_fields,
                 class_data_cache, class_name, initialize, fails>>

(* <clinit> assigns the static fields of its class; so does any code that   *)
(* has been let through to it.                                              *)
PutStatic(t, c) ==
  /\ pc[t] = "run" /\ runtime_lock = None
  /\ c \in usable[t] \cap classes
  /\ static_fields' = [static_fields EXCEPT ![c] = "assigned"]
  /\ UNCHANGED <<locks, classes, field_descriptors, class_data_cache,
                 initialized_classes, pc, class_name, initialize, clinits, usable, fails>>

FinishClinit(t) ==
  /\ InClinit(t) /\ runtime_lock = None
  /\ initialized_classes' = [initialized_classes EXCEPT ![Running(t)] = "Initialized"]
  /\ clinits' = [clinits EXCEPT ![t] = Tail(@)]
  /\ UNCHANGED <<locks, classes, field_descriptors, static_fields,
                 class_data_cache, pc, class_name, initialize, usable, fails>>

(* <clinit> throws: the entry goes, and the next request runs it again.     *)
KeepEntry(c) == initialized_classes
RemoveEntry(c) == [initialized_classes EXCEPT ![c] = None]

FailClinit(t) ==
  LET c == Running(t) IN
  /\ InClinit(t) /\ runtime_lock = None
  /\ FromClassFile(c) /\ fails[c] < MaxFails
  /\ fails' = [fails EXCEPT ![c] = @ + 1]
  /\ initialized_classes' = RemoveEntry(c)
  /\ clinits' = [clinits EXCEPT ![t] = Tail(@)]
  /\ usable' = [usable EXCEPT ![t] = @ \ {c}]
  /\ UNCHANGED <<locks, classes, field_descriptors, static_fields,
                 class_data_cache, pc, class_name, initialize>>

-----------------------------------------------------------------------------
(* The steps inside ensure_class_loaded and ensure_class_initialized.       *)
Advance(t) ==
  \/ CheckLoaded(t) \/ CheckCache(t) \/ Restore(t) \/ Define(t) \/ Describe(t)
  \/ Publish(t) \/ Populate(t) \/ Fill(t) \/ InitDone(t) \/ BeginClinit(t)

Step(t) ==
  \/ Advance(t)
  \/ \E c \in Classes : Request(t, c)
  \/ \E c \in Classes : PutStatic(t, c)
  \/ FinishClinit(t)
  \/ FailClinit(t)

Next == \E t \in Threads : Step(t)

Spec == Init /\ [][Next]_vars

(* The scheduler runs every thread, and every <clinit> returns or throws    *)
(* whatever it asks for on the way.                                         *)
FairSpec ==
  /\ Spec
  /\ \A t \in Threads : WF_vars(Advance(t)) /\ SF_vars(FinishClinit(t))

-----------------------------------------------------------------------------
TypeOK ==
  /\ runtime_lock \in Threads \cup {None}
  /\ cache_lock \in Threads \cup {None}
  /\ classes \subseteq Classes
  /\ field_descriptors \subseteq Classes
  /\ static_fields \in [Classes -> {"default", "assigned"}]
  /\ class_data_cache \in [Classes -> {None, "default", "assigned"}]
  /\ initialized_classes \in [Classes -> Threads \cup {None, "Initialized"}]
  /\ pc \in [Threads -> Phases]
  /\ class_name \in [Threads -> Classes]
  /\ initialize \in [Threads -> BOOLEAN]
  /\ clinits \in [Threads -> Seq(Classes)]
  /\ usable \in [Threads -> SUBSET Classes]
  /\ fails \in [Classes -> 0..MaxFails]

(* An initializer runs at most once at a time: the thread that an           *)
(* Initializing entry names has exactly one activation of that <clinit>,    *)
(* and nobody else has any, whatever the activations nested in it do.       *)
OneInitializer ==
  \A t \in Threads, c \in Classes :
    LET runs == {i \in DOMAIN clinits[t] : clinits[t][i] = c} IN
    Cardinality(runs) = IF initialized_classes[c] = t THEN 1 ELSE 0

(* No thread gets to use a class that another is still initialising: what   *)
(* ensure_class has let through is loaded, and either initialised or being  *)
(* initialised by that very thread.                                         *)
UsableIsInitialized ==
  \A t \in Threads : \A c \in usable[t] :
    c \in classes /\ initialized_classes[c] \in {"Initialized", t}

(* A class from a class file has its field flags and descriptors before it  *)
(* can be seen, whichever of the launcher, the two class paths or the cache *)
(* makes it visible and however many threads do so at once: field lookup    *)
(* never takes a declared field for a public one of its value's type.       *)
DescribedWhenVisible ==
  \A c \in classes : FromClassFile(c) => c \in field_descriptors

(* A class is initialised once and for all: no race of loads, nor any       *)
(* failure elsewhere, makes a <clinit> that has completed run again.        *)
InitializedForGood ==
  [][\A c \in Classes : initialized_classes[c] = "Initialized"
                          => initialized_classes'[c] = "Initialized"]_vars

(* Every reference to a class is answered, with the class or with an error. *)
RequestsAnswered ==
  \A t \in Threads : pc[t] # "run" ~> pc[t] = "run"
=============================================================================
