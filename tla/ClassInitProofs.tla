---------------------------- MODULE ClassInitProofs ----------------------------
(***************************************************************************)
(* Class initialisation, for any threads, classes, ways to find them and   *)
(* references between initializers: one <clinit> activation at a time,     *)
(* nobody but the initialising thread sees a class before it is done, and  *)
(* a completed initialisation is final.                                    *)
(***************************************************************************)
EXTENDS ClassInit, SequenceTheorems, FiniteSetTheorems, TLAPS

(* What a thread inside ensure_class_loaded has established: a cache hit    *)
(* is still one when it is restored, a class that is to be cached or        *)
(* initialised is registered, and one that is published is described, if    *)
(* it comes from a class file.                                              *)
Loaded ==
  /\ \A t \in Threads :
       /\ pc[t] = "restore" => class_data_cache[class_name[t]] # None
       /\ pc[t] \in {"populate", "fill", "init"} => class_name[t] \in classes
       /\ pc[t] = "publish" /\ FromClassFile(class_name[t])
            => class_name[t] \in field_descriptors
  /\ \A c \in Classes : class_data_cache[c] # None => c \in classes
  /\ \A c \in classes : FromClassFile(c) => c \in field_descriptors

LoadInv == TypeOK /\ Loaded

LEMMA LoadInvInit == Init => LoadInv
<1>. SUFFICES ASSUME Init PROVE LoadInv
  OBVIOUS
<1>1. TypeOK
  <2>1. \A t \in Threads : clinits[t] = <<>>
    BY DEF Init
  <2>2. clinits \in [Threads -> Seq(Classes)]
    BY EmptySeq DEF Init
  <2>. QED  BY <2>2, ClassInitAssumption DEF Init, TypeOK, Phases
<1>. QED  BY <1>1 DEF Init, LoadInv, Loaded, FromClassFile

(* The steps that only move a thread through ensure_class_loaded.           *)
LEMMA TypeStep == LoadInv /\ [Next]_vars => TypeOK'
<1>. SUFFICES ASSUME LoadInv, [Next]_vars PROVE TypeOK'
  OBVIOUS
<1>. USE DEF TypeOK, shared, locks
<1>0. TypeOK
  BY DEF LoadInv
<1>1. ASSUME NEW t \in Threads, NEW c \in Classes, Request(t, c) PROVE TypeOK'
  BY <1>0, <1>1 DEF Request, Goto, Phases
<1>2. ASSUME NEW t \in Threads, CheckLoaded(t) \/ Define(t) PROVE TypeOK'
  BY <1>0, <1>2 DEF CheckLoaded, Define, Goto, AfterLoad, FirstSection, Phases
<1>3. ASSUME NEW t \in Threads, CheckCache(t) PROVE TypeOK'
  BY <1>0, <1>3 DEF CheckCache, Goto, Phases
<1>4. ASSUME NEW t \in Threads, Restore(t) PROVE TypeOK'
  <2>1. class_data_cache[class_name[t]] \in {"default", "assigned"}
    BY <1>0, <1>4 DEF LoadInv, Loaded, Restore
  <2>. QED  BY <1>0, <1>4, <2>1 DEF Restore, Goto, AfterLoad, Phases
<1>5. ASSUME NEW t \in Threads, Describe(t) PROVE TypeOK'
  BY <1>0, <1>5 DEF Describe, Goto, Phases
<1>6. ASSUME NEW t \in Threads, Publish(t) PROVE TypeOK'
  BY <1>0, <1>6 DEF Publish, Goto, AfterLoad, Phases
<1>12. ASSUME NEW t \in Threads, Populate(t) PROVE TypeOK'
  BY <1>0, <1>12 DEF Populate, Goto, Phases
<1>13. ASSUME NEW t \in Threads, Fill(t) PROVE TypeOK'
  BY <1>0, <1>13 DEF Fill, Goto, AfterLoad, Phases
<1>7. ASSUME NEW t \in Threads, InitDone(t) PROVE TypeOK'
  BY <1>0, <1>7 DEF InitDone, Goto, Phases
<1>8. ASSUME NEW t \in Threads, BeginClinit(t) PROVE TypeOK'
  <2>1. <<class_name[t]>> \o clinits[t] \in Seq(Classes)
    BY <1>0, ConcatProperties
  <2>. QED  BY <1>0, <1>8, <2>1 DEF BeginClinit, Goto, Phases
<1>9. ASSUME NEW t \in Threads, NEW c \in Classes, PutStatic(t, c) PROVE TypeOK'
  BY <1>0, <1>9 DEF PutStatic
<1>10. ASSUME NEW t \in Threads, FinishClinit(t) \/ FailClinit(t) PROVE TypeOK'
  <2>1. /\ Running(t) \in Classes
        /\ Tail(clinits[t]) \in Seq(Classes)
    BY <1>0, <1>10, HeadTailProperties DEF FinishClinit, FailClinit, InClinit, Running
  <2>2. CASE FinishClinit(t)
    BY <1>0, <2>1, <2>2 DEF FinishClinit
  <2>3. CASE FailClinit(t)
    BY <1>0, <2>1, <2>3, ClassInitAssumption DEF FailClinit, RemoveEntry
  <2>. QED  BY <1>10, <2>2, <2>3
<1>11. CASE UNCHANGED vars
  BY <1>0, <1>11 DEF vars
<1>. QED
  BY <1>1, <1>2, <1>3, <1>4, <1>5, <1>6, <1>7, <1>8, <1>9, <1>10, <1>11, <1>12, <1>13
  DEF Next, Step, Advance

LEMMA LoadInvStep == LoadInv /\ [Next]_vars => LoadInv'
<1>. SUFFICES ASSUME LoadInv, [Next]_vars PROVE LoadInv'
  OBVIOUS
<1>. USE DEF shared, locks
<1>0. TypeOK'
  BY TypeStep
<1>a. /\ pc \in [Threads -> Phases] /\ class_name \in [Threads -> Classes]
      /\ class_data_cache \in [Classes -> {None, "default", "assigned"}]
      /\ static_fields \in [Classes -> {"default", "assigned"}]
  BY DEF LoadInv, TypeOK
<1>b. Loaded
  BY DEF LoadInv
<1>1. ASSUME NEW t \in Threads, NEW c \in Classes, Request(t, c) PROVE Loaded'
  BY <1>a, <1>b, <1>1 DEF Loaded, Request, Goto
<1>2. ASSUME NEW t \in Threads, CheckLoaded(t) PROVE Loaded'
  BY <1>a, <1>b, <1>2 DEF Loaded, CheckLoaded, Goto, AfterLoad
<1>3. ASSUME NEW t \in Threads, CheckCache(t) PROVE Loaded'
  BY <1>a, <1>b, <1>3 DEF Loaded, CheckCache, Cached, Goto
<1>4. ASSUME NEW t \in Threads, Restore(t) PROVE Loaded'
  BY <1>a, <1>b, <1>4 DEF Loaded, Restore, Goto, AfterLoad
<1>5. ASSUME NEW t \in Threads, Define(t) PROVE Loaded'
  BY <1>a, <1>b, <1>5 DEF Loaded, Define, Goto, FirstSection, FromClassFile
<1>6. ASSUME NEW t \in Threads, Describe(t) PROVE Loaded'
  BY <1>a, <1>b, <1>6 DEF Loaded, Describe, Goto
<1>7. ASSUME NEW t \in Threads, Publish(t) PROVE Loaded'
  BY <1>a, <1>b, <1>7 DEF Loaded, Publish, Goto, AfterLoad
<1>8. ASSUME NEW t \in Threads, Populate(t) PROVE Loaded'
  BY <1>a, <1>b, <1>8 DEF Loaded, Populate, Goto
<1>9. ASSUME NEW t \in Threads, Fill(t) PROVE Loaded'
  BY <1>a, <1>b, <1>9, ClassInitAssumption DEF Loaded, Fill, Goto, AfterLoad
<1>10. ASSUME NEW t \in Threads, InitDone(t) \/ BeginClinit(t) PROVE Loaded'
  BY <1>a, <1>b, <1>10 DEF Loaded, InitDone, BeginClinit, Goto
<1>11. ASSUME NEW t \in Threads, NEW c \in Classes, PutStatic(t, c) PROVE Loaded'
  BY <1>b, <1>11 DEF Loaded, PutStatic
<1>12. ASSUME NEW t \in Threads, FinishClinit(t) \/ FailClinit(t) PROVE Loaded'
  BY <1>b, <1>12 DEF Loaded, FinishClinit, FailClinit
<1>13. ASSUME UNCHANGED vars PROVE Loaded'
  BY <1>b, <1>13 DEF Loaded, vars, shared
<1>14. Loaded'
  BY <1>1, <1>2, <1>3, <1>4, <1>5, <1>6, <1>7, <1>8, <1>9, <1>10, <1>11, <1>12, <1>13
  DEF Next, Step, Advance
<1>. QED  BY <1>0, <1>14 DEF LoadInv

(* The state keeps its type.                                                *)
THEOREM TypeCorrect == Spec => []TypeOK
<1>1. LoadInv => TypeOK
  BY DEF LoadInv
<1>. QED  BY LoadInvInit, LoadInvStep, <1>1, PTL DEF Spec

(* Whatever threads race to load a class, one that comes from a class file  *)
(* is described when it is seen.                                            *)
THEOREM DescribedWhenVisibleCorrect == Spec => []DescribedWhenVisible
<1>1. LoadInv => DescribedWhenVisible
  BY DEF LoadInv, Loaded, DescribedWhenVisible
<1>. QED  BY LoadInvInit, LoadInvStep, <1>1, PTL DEF Spec

-----------------------------------------------------------------------------
(* The stack of activations is the mirror image of the entries: a thread    *)
(* has an activation of <clinit> just for the classes it is named for, and  *)
(* one only.                                                                *)
Distinct(s)  == \A i, j \in DOMAIN s : s[i] = s[j] => i = j
Occurs(s, c) == \E i \in DOMAIN s : s[i] = c

EntryInv ==
  \A t \in Threads :
    /\ Distinct(clinits[t])
    /\ \A c \in Classes : initialized_classes[c] = t <=> Occurs(clinits[t], c)

InitInv == LoadInv /\ EntryInv /\ UsableIsInitialized

(* An activation that begins is the only one of its class.                  *)
LEMMA PushActivation ==
  ASSUME NEW s \in Seq(Classes), NEW e \in Classes, Distinct(s), ~Occurs(s, e)
  PROVE  LET p == <<e>> \o s IN
         Distinct(p) /\ \A c \in Classes : Occurs(p, c) <=> c = e \/ Occurs(s, c)
<1>. DEFINE p == <<e>> \o s
<1>1. /\ <<e>> \in Seq(Classes) /\ Len(<<e>>) = 1 /\ <<e>>[1] = e
      /\ Len(s) \in Nat /\ DOMAIN s = 1..Len(s)
  OBVIOUS
<1>2. /\ p \in Seq(Classes)
      /\ Len(p) = Len(s) + 1
      /\ \A i \in 1..Len(s) + 1 : p[i] = IF i = 1 THEN e ELSE s[i - 1]
  <2>1. /\ p \in Seq(Classes)
        /\ Len(p) = 1 + Len(s)
        /\ \A i \in 1..1 + Len(s) : p[i] = IF i <= 1 THEN <<e>>[i] ELSE s[i - 1]
    BY <1>1, ConcatProperties
  <2>. HIDE DEF p
  <2>. QED  BY <1>1, <2>1
<1>3. DOMAIN p = 1..Len(s) + 1
  BY <1>2
<1>. HIDE DEF p
<1>a. p[1] = e /\ 1 \in DOMAIN p
  BY <1>1, <1>2, <1>3
<1>b. \A i \in DOMAIN s : i + 1 \in DOMAIN p /\ p[i + 1] = s[i]
  BY <1>1, <1>2, <1>3
<1>c. \A i \in DOMAIN p : i = 1 \/ (i - 1 \in DOMAIN s /\ p[i] = s[i - 1])
  BY <1>1, <1>2, <1>3
<1>4. Distinct(p)
  <2>. SUFFICES ASSUME NEW i \in DOMAIN p, NEW j \in DOMAIN p, p[i] = p[j] PROVE i = j
    BY DEF Distinct
  <2>1. CASE i = 1 \/ j = 1
    BY <1>a, <1>c, <2>1 DEF Occurs
  <2>2. CASE i # 1 /\ j # 1
    <3>1. i - 1 = j - 1
      BY <1>c, <2>2 DEF Distinct
    <3>. QED  BY <1>3, <1>1, <3>1
  <2>. QED  BY <2>1, <2>2
<1>5. ASSUME NEW c \in Classes PROVE Occurs(p, c) <=> c = e \/ Occurs(s, c)
  BY <1>a, <1>b, <1>c DEF Occurs
<1>. QED  BY <1>4, <1>5 DEF p

(* One that ends leaves the others.                                         *)
LEMMA PopActivation ==
  ASSUME NEW s \in Seq(Classes), s # <<>>, Distinct(s)
  PROVE  /\ Head(s) \in Classes /\ Tail(s) \in Seq(Classes)
         /\ Occurs(s, Head(s))
         /\ Distinct(Tail(s))
         /\ \A c \in Classes : Occurs(Tail(s), c) <=> c # Head(s) /\ Occurs(s, c)
<1>. DEFINE q == Tail(s)
<1>1. /\ Len(s) \in Nat \ {0} /\ DOMAIN s = 1..Len(s)
      /\ Head(s) = s[1] /\ s[1] \in Classes
  OBVIOUS
<1>2. /\ q \in Seq(Classes)
      /\ Len(q) = Len(s) - 1
      /\ \A i \in 1..Len(q) : q[i] = s[i + 1]
  BY HeadTailProperties
<1>3. DOMAIN q = 1..Len(s) - 1
  BY <1>2
<1>. HIDE DEF q
<1>4. Distinct(q)
  BY <1>1, <1>2, <1>3 DEF Distinct
<1>5. ASSUME NEW c \in Classes PROVE Occurs(q, c) <=> c # s[1] /\ Occurs(s, c)
  <2>1. \A i \in DOMAIN q : i + 1 \in DOMAIN s /\ i + 1 # 1 /\ q[i] = s[i + 1]
    BY <1>1, <1>2, <1>3
  <2>2. \A i \in DOMAIN s : i = 1 \/ (i - 1 \in DOMAIN q /\ s[i] = q[i - 1])
    BY <1>1, <1>2, <1>3
  <2>3. 1 \in DOMAIN s
    BY <1>1
  <2>. QED  BY <2>1, <2>2, <2>3 DEF Occurs, Distinct
<1>6. Occurs(s, Head(s))
  BY <1>1 DEF Occurs
<1>. QED  BY <1>1, <1>2, <1>4, <1>5, <1>6 DEF q

LEMMA InitInvInit == Init => InitInv
<1>. SUFFICES ASSUME Init PROVE InitInv
  OBVIOUS
<1>1. EntryInv
  BY ClassInitAssumption DEF Init, EntryInv, Distinct, Occurs
<1>2. UsableIsInitialized
  BY DEF Init, UsableIsInitialized
<1>. QED  BY <1>1, <1>2, LoadInvInit DEF InitInv

LEMMA InitInvStep == InitInv /\ [Next]_vars => InitInv'
<1>. SUFFICES ASSUME InitInv, [Next]_vars PROVE InitInv'
  OBVIOUS
<1>. DEFINE Entries == EntryInv /\ UsableIsInitialized
<1>0. LoadInv'
  BY LoadInvStep DEF InitInv
<1>a. /\ classes \subseteq Classes
      /\ initialized_classes \in [Classes -> Threads \cup {None, "Initialized"}]
      /\ class_name \in [Threads -> Classes]
      /\ clinits \in [Threads -> Seq(Classes)]
      /\ usable \in [Threads -> SUBSET Classes]
      /\ \A t \in Threads : pc[t] = "init" => class_name[t] \in classes
  BY DEF InitInv, LoadInv, Loaded, TypeOK
<1>b. /\ "Initialized" \notin Threads /\ None \notin Threads
      /\ None # "Initialized"
  BY ClassInitAssumption
<1>c. EntryInv /\ UsableIsInitialized
  BY DEF InitInv
<1>1. ASSUME /\ UNCHANGED <<initialized_classes, clinits, usable>>
             /\ classes \subseteq classes'
      PROVE  Entries'
  BY <1>c, <1>1 DEF EntryInv, UsableIsInitialized
<1>2. ASSUME NEW t \in Threads, InitDone(t) PROVE Entries'
  <2>1. EntryInv'
    BY <1>c, <1>2 DEF InitDone, shared, EntryInv
  <2>2. UsableIsInitialized'
    BY <1>a, <1>c, <1>2 DEF InitDone, Done, shared, UsableIsInitialized
  <2>. QED  BY <2>1, <2>2
<1>3. ASSUME NEW t \in Threads, BeginClinit(t) PROVE Entries'
  <2>. DEFINE c == class_name[t]
  <2>1. c \in Classes /\ c \in classes /\ initialized_classes[c] = None
    BY <1>a, <1>3 DEF BeginClinit, Claimable
  <2>2. /\ initialized_classes' = [initialized_classes EXCEPT ![c] = t]
        /\ clinits' = [clinits EXCEPT ![t] = <<c>> \o @]
        /\ usable' = [usable EXCEPT ![t] = @ \cup {c}]
        /\ classes' = classes
    BY <1>3 DEF BeginClinit
  <2>. HIDE DEF c
  <2>3. \A u \in Threads : ~Occurs(clinits[u], c)
    BY <1>b, <1>c, <2>1 DEF EntryInv
  <2>4. /\ Distinct(<<c>> \o clinits[t])
        /\ \A d \in Classes :
             Occurs(<<c>> \o clinits[t], d) <=> d = c \/ Occurs(clinits[t], d)
    BY <1>a, <1>c, <2>1, <2>3, PushActivation DEF EntryInv
  <2>5. ASSUME NEW u \in Threads
        PROVE  /\ Distinct(clinits'[u])
               /\ \A d \in Classes : initialized_classes'[d] = u <=> Occurs(clinits'[u], d)
    <3>1. CASE u = t
      <4>1. clinits'[u] = <<c>> \o clinits[t]
        BY <1>a, <2>2, <3>1
      <4>. QED  BY <1>a, <1>c, <2>1, <2>2, <2>4, <3>1, <4>1 DEF EntryInv
    <3>2. CASE u # t
      <4>1. clinits'[u] = clinits[u]
        BY <1>a, <2>2, <3>2
      <4>. QED  BY <1>a, <1>c, <2>1, <2>2, <2>3, <3>2, <4>1 DEF EntryInv
    <3>. QED  BY <3>1, <3>2
  <2>6. EntryInv'
    BY <2>5 DEF EntryInv
  <2>7. UsableIsInitialized'
    BY <1>a, <1>b, <1>c, <2>1, <2>2 DEF UsableIsInitialized
  <2>. QED  BY <2>6, <2>7
<1>4. ASSUME NEW t \in Threads, FinishClinit(t) \/ FailClinit(t) PROVE Entries'
  <2>. DEFINE c == Running(t)
  <2>1. clinits[t] \in Seq(Classes) /\ clinits[t] # <<>> /\ Distinct(clinits[t])
    BY <1>a, <1>c, <1>4 DEF FinishClinit, FailClinit, InClinit, EntryInv
  <2>2. /\ c \in Classes
        /\ Occurs(clinits[t], c)
        /\ Distinct(Tail(clinits[t]))
        /\ \A d \in Classes :
             Occurs(Tail(clinits[t]), d) <=> d # c /\ Occurs(clinits[t], d)
    BY <2>1, PopActivation DEF Running
  <2>3. clinits' = [clinits EXCEPT ![t] = Tail(@)] /\ classes' = classes
    BY <1>4 DEF FinishClinit, FailClinit
  <2>4. PICK e \in {None, "Initialized"} :
          /\ initialized_classes' = [initialized_classes EXCEPT ![c] = e]
          /\ usable' = IF e = None THEN [usable EXCEPT ![t] = @ \ {c}] ELSE usable
    BY <1>b, <1>4 DEF FinishClinit, FailClinit, RemoveEntry
  <2>. HIDE DEF c
  <2>5. initialized_classes[c] = t
    BY <1>c, <2>2 DEF EntryInv
  <2>6. ASSUME NEW u \in Threads
        PROVE  /\ Distinct(clinits'[u])
               /\ \A d \in Classes : initialized_classes'[d] = u <=> Occurs(clinits'[u], d)
    <3>1. CASE u = t
      <4>1. clinits'[u] = Tail(clinits[t])
        BY <1>a, <2>3, <3>1
      <4>. QED  BY <1>a, <1>b, <1>c, <2>2, <2>4, <3>1, <4>1 DEF EntryInv
    <3>2. CASE u # t
      <4>1. clinits'[u] = clinits[u]
        BY <1>a, <2>3, <3>2
      <4>. QED  BY <1>a, <1>b, <1>c, <2>2, <2>4, <2>5, <3>2, <4>1 DEF EntryInv
    <3>. QED  BY <3>1, <3>2
  <2>7. EntryInv'
    BY <2>6 DEF EntryInv
  <2>8. UsableIsInitialized'
    <3>. SUFFICES ASSUME NEW u \in Threads, NEW d \in usable'[u]
                  PROVE  d \in classes' /\ initialized_classes'[d] \in {"Initialized", u}
      BY DEF UsableIsInitialized
    <3>1. d \in usable[u] /\ d \in Classes
      BY <1>a, <2>4
    <3>2. d \in classes /\ initialized_classes[d] \in {"Initialized", u}
      BY <1>c, <3>1 DEF UsableIsInitialized
    <3>3. CASE d # c
      BY <1>a, <2>2, <2>3, <2>4, <3>1, <3>2, <3>3
    <3>4. CASE d = c
      <4>1. u = t
        BY <1>b, <2>5, <3>2, <3>4
      <4>2. e = "Initialized"
        BY <1>a, <2>4, <3>4, <4>1
      <4>. QED  BY <1>a, <2>2, <2>3, <2>4, <3>2, <3>4, <4>2
    <3>. QED  BY <3>3, <3>4
  <2>. QED  BY <2>7, <2>8
<1>5. ASSUME NEW t \in Threads,
             \/ \E c \in Classes : Request(t, c) \/ PutStatic(t, c)
             \/ CheckLoaded(t) \/ CheckCache(t) \/ Restore(t) \/ Define(t)
             \/ Describe(t) \/ Publish(t) \/ Populate(t) \/ Fill(t)
      PROVE  UNCHANGED <<initialized_classes, clinits, usable>> /\ classes \subseteq classes'
  BY <1>5 DEF Request, PutStatic, CheckLoaded, CheckCache, Restore, Define, Describe,
              Publish, Populate, Fill, shared
<1>6. ASSUME UNCHANGED vars
      PROVE  UNCHANGED <<initialized_classes, clinits, usable>> /\ classes \subseteq classes'
  BY <1>6 DEF vars, shared
<1>7. Entries'
  <2>. HIDE DEF Entries
  <2>. QED
    BY <1>1, <1>2, <1>3, <1>4, <1>5, <1>6 DEF Next, Step, Advance
<1>. QED  BY <1>0, <1>7 DEF InitInv

(* A <clinit> runs at most once at a time, in the thread its entry names,   *)
(* however the initializers refer to one another.                           *)
THEOREM OneInitializerCorrect == Spec => []OneInitializer
<1>1. InitInv => OneInitializer
  <2>. SUFFICES ASSUME InitInv, NEW t \in Threads, NEW c \in Classes
                PROVE  Cardinality({i \in DOMAIN clinits[t] : clinits[t][i] = c})
                         = IF initialized_classes[c] = t THEN 1 ELSE 0
    BY DEF OneInitializer
  <2>. DEFINE runs == {i \in DOMAIN clinits[t] : clinits[t][i] = c}
  <2>0. /\ Distinct(clinits[t])
        /\ initialized_classes[c] = t <=> Occurs(clinits[t], c)
    BY DEF InitInv, EntryInv
  <2>1. CASE initialized_classes[c] = t
    <3>1. PICK i \in DOMAIN clinits[t] : clinits[t][i] = c
      BY <2>0, <2>1 DEF Occurs
    <3>2. runs = {i}
      BY <2>0, <3>1 DEF Distinct
    <3>. QED  BY <2>1, <3>2, FS_Singleton
  <2>2. CASE initialized_classes[c] # t
    <3>1. runs = {}
      BY <2>0, <2>2 DEF Occurs
    <3>. QED  BY <2>2, <3>1, FS_EmptySet
  <2>. QED  BY <2>1, <2>2
<1>. QED  BY InitInvInit, InitInvStep, <1>1, PTL DEF Spec

(* No thread is let through to a class that another is initialising.        *)
THEOREM UsableIsInitializedCorrect == Spec => []UsableIsInitialized
<1>1. InitInv => UsableIsInitialized
  BY DEF InitInv
<1>. QED  BY InitInvInit, InitInvStep, <1>1, PTL DEF Spec

(* A completed initialisation stays: an entry is only replaced when it is   *)
(* absent or when it names the thread whose activation ends.                *)
THEOREM InitializedForGoodCorrect == Spec => InitializedForGood
<1>. DEFINE Kept == \A c \in Classes : initialized_classes[c] = "Initialized"
                                      => initialized_classes'[c] = "Initialized"
<1>1. ASSUME InitInv, [Next]_vars PROVE Kept
  <2>. SUFFICES ASSUME NEW c \in Classes, initialized_classes[c] = "Initialized"
                PROVE  initialized_classes'[c] = "Initialized"
    OBVIOUS
  <2>0. /\ initialized_classes \in [Classes -> Threads \cup {None, "Initialized"}]
        /\ clinits \in [Threads -> Seq(Classes)]
        /\ "Initialized" \notin Threads /\ None # "Initialized"
    BY <1>1, ClassInitAssumption DEF InitInv, LoadInv, TypeOK
  <2>1. ASSUME NEW t \in Threads, BeginClinit(t)
        PROVE  initialized_classes'[c] = "Initialized"
    BY <2>0, <2>1 DEF BeginClinit, Claimable
  <2>2. ASSUME NEW t \in Threads, FinishClinit(t) \/ FailClinit(t)
        PROVE  initialized_classes'[c] = "Initialized"
    <3>1. clinits[t] \in Seq(Classes) /\ clinits[t] # <<>> /\ Distinct(clinits[t])
      BY <1>1, <2>0, <2>2 DEF FinishClinit, FailClinit, InClinit, InitInv, EntryInv
    <3>2. Running(t) \in Classes /\ Occurs(clinits[t], Running(t))
      BY <3>1, PopActivation DEF Running
    <3>3. initialized_classes[Running(t)] = t
      BY <1>1, <3>2 DEF InitInv, EntryInv
    <3>4. Running(t) # c
      BY <2>0, <3>3
    <3>. QED
      BY <2>0, <2>2, <3>2, <3>4 DEF FinishClinit, FailClinit, RemoveEntry
  <2>3. ASSUME UNCHANGED initialized_classes
        PROVE  initialized_classes'[c] = "Initialized"
    BY <2>3
  <2>4. ASSUME NEW t \in Threads,
               \/ \E d \in Classes : Request(t, d) \/ PutStatic(t, d)
               \/ CheckLoaded(t) \/ CheckCache(t) \/ Restore(t) \/ Define(t)
               \/ Describe(t) \/ Publish(t) \/ Populate(t) \/ Fill(t) \/ InitDone(t)
        PROVE  UNCHANGED initialized_classes
    BY <2>4 DEF Request, PutStatic, CheckLoaded, CheckCache, Restore, Define, Describe,
                Publish, Populate, Fill, InitDone, shared
  <2>5. ASSUME UNCHANGED vars PROVE UNCHANGED initialized_classes
    BY <2>5 DEF vars, shared
  <2>. QED
    BY <1>1, <2>1, <2>2, <2>3, <2>4, <2>5 DEF Next, Step, Advance
<1>2. InitInv /\ [Next]_vars => [Kept]_vars
  BY <1>1
<1>. QED  BY InitInvInit, InitInvStep, <1>2, PTL DEF Spec, InitializedForGood
=============================================================================
