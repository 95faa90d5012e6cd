---------------------------- MODULE LibraryProofs ----------------------------
(***************************************************************************)
(* The natives, the decoders, method selection and the string pool: five   *)
(* independent components.                                                 *)
(*                                                                         *)
(* Files.  A stream whose opening overlapped no other keeps its own file,  *)
(* for any number of threads, streams and files.  The table is as long as  *)
(* the next index less the files still to be pushed, so an opening that is *)
(* alone pushes its file where its index says, and openings that overlap   *)
(* fill among them the indices they took.                                  *)
(*                                                                         *)
(* Shared variables.  The natives that lock, read and write a slot         *)
(* implement AtomicCell, step by step, for any widths, threads and         *)
(* arguments.                                                              *)
(*                                                                         *)
(* Decoding.  All who walk over bytecode find the same lengths, for        *)
(* switches of any size.                                                   *)
(*                                                                         *)
(* Dispatch.  A call runs the method the specification selects, in any     *)
(* hierarchy.  The work list of resolve_method is followed step by step:   *)
(* when it is through it has every interface above the class, each once,   *)
(* so it finds a default method if and only if is_instance_of says that    *)
(* the interface offering it is one the class implements.                  *)
(*                                                                         *)
(* String pool.  A string is pooled under its own value whatever the       *)
(* threads race for, and String.intern() alone gives equal strings one     *)
(* reference, for ever; for any threads, strings and bound.                *)
(***************************************************************************)
EXTENDS AtomicAccess, IoResources, Decoding, Dispatch, Interning,
        FiniteSetTheorems, WellFoundedInduction, TLAPS

File == [of : Stream, open : BOOLEAN]
Ops == {"idle", "push", "publish", "use", "clear", "close"}

IoTypeOK ==
  /\ next_id \in Nat
  /\ files \in Seq(File)
  /\ fd \in [Stream -> Stream \cup {Unopened}]
  /\ rid \in [Stream -> Nat \cup {NullField}]
  /\ io \in [IoThread -> [op : Ops, s : Stream \cup {Unopened}, id : Nat]]
  /\ muddled \subseteq Stream

Pushers == {t \in IoThread : In(t, "push")}

(* Every index below next_id is in the table or about to be pushed.         *)
Counted == IsFiniteSet(Pushers) /\ next_id = Len(files) + Cardinality(Pushers)

Opening(t) == io[t].op \in {"push", "publish"}
Using(t) == io[t].op \in {"use", "clear", "close"}

(* Who uses which descriptor.                                               *)
Shape ==
  /\ \A s \in Stream : Opened(s) => fd[fd[s]] = fd[s]
  /\ \A s \in Stream : fd[s] # s => rid[s] = 0
  /\ \A t \in IoThread : Opening(t) =>
       /\ io[t].s \in Stream
       /\ fd[io[t].s] = Unopened
       /\ \A u \in IoThread : io[u].s = io[t].s => u = t
  /\ \A t \in IoThread : Using(t) => io[t].s \in Stream /\ Opened(io[t].s)
  /\ \A t \in IoThread : In(t, "close") => rid[fd[io[t].s]] \in {0, NullField}

Below(i, n) == i = 0 \/ i < n

(* An opening that is alone has the index of the next push to itself.       *)
Alone ==
  \A t \in Pushers : io[t].s \notin muddled =>
    /\ Pushers = {t}
    /\ io[t].id = Len(files)
    /\ \A s \in Stream : Below(rid[s], Len(files))
    /\ \A u \in IoThread \ {t} : Below(io[u].id, Len(files))

(* What the index i may lead to when it is that of descriptor d.            *)
LeadsTo(d, i) ==
  i > 0 => IF d \in muddled THEN i < Len(files) => files[i + 1].of \in muddled
           ELSE i < Len(files) /\ files[i + 1].of = d
Intact(d, i) == i > 0 /\ d \notin muddled => files[i + 1].open

Indices ==
  /\ \A s \in Stream : Below(rid[s], next_id) /\ LeadsTo(s, rid[s]) /\ Intact(s, rid[s])
  /\ \A t \in IoThread :
       /\ Below(io[t].id, next_id)
       /\ Using(t) => LeadsTo(fd[io[t].s], io[t].id)
       /\ In(t, "publish") => LeadsTo(io[t].s, io[t].id) /\ Intact(io[t].s, io[t].id)
       /\ In(t, "push") /\ io[t].s \in muddled => LeadsTo(io[t].s, io[t].id)

IoInv == IoTypeOK /\ Counted /\ Shape /\ Alone /\ Indices

-----------------------------------------------------------------------------
LEMMA OwnFileFollows == IoInv => OwnFile
<1>. SUFFICES ASSUME IoInv PROVE OwnFile
  OBVIOUS
<1>. USE DEF IoInv, IoTypeOK
<1>1. ASSUME NEW s \in Stream, Opened(s), fd[s] \notin muddled, IdOf(s) # 0
      PROVE  IsOpen(IdOf(s)) /\ files[IdOf(s) + 1].of = fd[s]
  <2>1. fd[s] \in Stream
    BY <1>1 DEF Opened
  <2>2. rid[fd[s]] \in Nat /\ rid[fd[s]] > 0 /\ IdOf(s) = rid[fd[s]]
    BY <1>1, <2>1 DEF IdOf, ResourceId, NullField
  <2>. QED  BY <1>1, <2>1, <2>2 DEF Indices, LeadsTo, Intact, IsOpen
<1>2. ASSUME NEW t \in IoThread, Using(t), io[t].id # 0, fd[io[t].s] \notin muddled
      PROVE  files[io[t].id + 1].of = fd[io[t].s]
  <2>1. io[t].id \in Nat /\ io[t].id > 0
    BY <1>2
  <2>. QED  BY <1>2, <2>1 DEF Indices, LeadsTo
<1>. QED  BY <1>1, <1>2 DEF OwnFile, Using

LEMMA IoInvInit == IoInit => IoInv
<1>. SUFFICES ASSUME IoInit PROVE IoInv
  OBVIOUS
<1>. USE DEF IoInit, Idle
<1>1. IoTypeOK
  BY DEF IoTypeOK, Ops
<1>2. Pushers = {}
  BY DEF Pushers, In
<1>3. Counted
  BY <1>2, FS_EmptySet DEF Counted
<1>4. Shape
  BY IoAssumption DEF Shape, Opened, Opening, Using, In
<1>5. Alone /\ Indices
  BY <1>2 DEF Alone, Indices, Below, LeadsTo, Intact, Using, In
<1>. QED  BY <1>1, <1>3, <1>4, <1>5 DEF IoInv

-----------------------------------------------------------------------------
(* A new index is taken.  If others are taking theirs, all of these streams *)
(* become muddled, and none of them had an index that leads anywhere.       *)
LEMMA AllocIdStep ==
  ASSUME IoInv, NEW t \in IoThread, NEW s \in Stream, AllocId(t, s)
  PROVE  IoInv'
<1>. DEFINE others == {io[u].s : u \in {v \in IoThread : In(v, "push")}}
<1>. USE DEF IoInv, IoTypeOK
<1>1. /\ io[t] = Idle
      /\ fd[s] = Unopened /\ \A u \in IoThread : io[u].s # s
      /\ next_id' = next_id + 1
      /\ io' = [io EXCEPT ![t] = [op |-> "push", s |-> s, id |-> next_id]]
      /\ muddled' = IF others = {} THEN muddled ELSE muddled \cup others \cup {s}
      /\ files' = files /\ fd' = fd /\ rid' = rid
  BY DEF AllocId, Started, Unused, Go
<1>2. /\ io'[t].op = "push" /\ io'[t].s = s /\ io'[t].id = next_id
      /\ \A u \in IoThread \ {t} : io'[u] = io[u]
      /\ io[t].op = "idle" /\ io[t].s = Unopened /\ t \notin Pushers
  BY <1>1 DEF Idle, Pushers, In
<1>3. Pushers' = Pushers \cup {t}
  BY <1>1, <1>2 DEF Pushers, In
<1>4. others = {} <=> Pushers = {}
  BY DEF Pushers
<1>5. \A u \in Pushers : io[u].s \in others /\ io[u].s \in Stream /\ fd[io[u].s] = Unopened
  BY DEF Pushers, Shape, Opening, In
<1>5a. others \subseteq Stream /\ \A d \in others : \E u \in Pushers : io[u].s = d
  BY DEF Shape, Opening, Pushers, In
<1>. HIDE DEF others
<1>6. IoTypeOK'
  <2>2. muddled' \subseteq Stream
    BY <1>1, <1>5a
  <2>3. [op |-> "push", s |-> s, id |-> next_id]
          \in [op : Ops, s : Stream \cup {Unopened}, id : Nat]
    BY DEF Ops
  <2>4. io' \in [IoThread -> [op : Ops, s : Stream \cup {Unopened}, id : Nat]]
    BY <1>1, <2>3
  <2>. QED  BY <1>1, <2>2, <2>4
<1>7. Counted'
  <2>1. IsFiniteSet(Pushers') /\ Cardinality(Pushers') = Cardinality(Pushers) + 1
    BY <1>2, <1>3, FS_AddElement DEF Counted
  <2>2. Cardinality(Pushers) \in Nat
    BY FS_CardinalityType DEF Counted
  <2>. QED  BY <1>1, <2>1, <2>2 DEF Counted
<1>8. Shape'
  <2>1. \A u \in IoThread : Opening(u)' =>
          /\ io'[u].s \in Stream /\ fd'[io'[u].s] = Unopened
          /\ \A v \in IoThread : io'[v].s = io'[u].s => v = u
    BY <1>1, <1>2 DEF Shape, Opening
  <2>2. \A u \in IoThread : Using(u)' => u # t /\ Using(u)
    BY <1>2 DEF Using
  <2>. QED  BY <1>1, <1>2, <2>1, <2>2 DEF Shape, Opened, Using, In
<1>9. Cardinality(Pushers) \in Nat /\ (Pushers = {} => Cardinality(Pushers) = 0)
  BY FS_CardinalityType, FS_EmptySet DEF Counted
<1>10. Len(files) \in Nat /\ Len(files) <= next_id
  BY <1>9 DEF Counted
<1>11. Alone'
  <2>. SUFFICES ASSUME NEW u \in Pushers', io'[u].s \notin muddled'
                PROVE  /\ Pushers' = {u}
                       /\ io'[u].id = Len(files)
                       /\ \A d \in Stream : Below(rid[d], Len(files))
                       /\ \A v \in IoThread \ {u} : Below(io'[v].id, Len(files))
    BY <1>1 DEF Alone, Below
  <2>1. others = {} /\ u = t
    BY <1>1, <1>2, <1>3, <1>5
  <2>2. Pushers = {} /\ next_id = Len(files)
    BY <2>1, <1>4, <1>9, <1>10 DEF Counted
  <2>. QED  BY <1>2, <1>3, <2>1, <2>2 DEF Indices
<1>12. \A d \in Stream : rid[d] > 0 => fd[d] = d
  BY DEF Shape
<1>13. \A d \in Stream : fd[d] # Unopened => (d \in muddled' <=> d \in muddled)
  BY <1>1, <1>5, <1>5a
<1>14. muddled \subseteq muddled'
  BY <1>1
<1>15. \A d \in Stream : Below(rid'[d], next_id') /\ LeadsTo(d, rid[d])' /\ Intact(d, rid[d])'
  <2>. TAKE d \in Stream
  <2>1. Below(rid'[d], next_id')
    BY <1>1 DEF Indices, Below, NullField
  <2>2. LeadsTo(d, rid[d])' /\ Intact(d, rid[d])'
    BY <1>1, <1>12, <1>13, <1>14, IoAssumption DEF Indices, LeadsTo, Intact
  <2>. QED  BY <2>1, <2>2
<1>16. ASSUME NEW u \in IoThread
       PROVE  /\ Below(io'[u].id, next_id')
              /\ Using(u)' => LeadsTo(fd[io[u].s], io[u].id)'
              /\ In(u, "publish")' => LeadsTo(io[u].s, io[u].id)' /\ Intact(io[u].s, io[u].id)'
              /\ In(u, "push")' /\ io'[u].s \in muddled' => LeadsTo(io[u].s, io[u].id)'
  <2>1. Below(io'[u].id, next_id')
    BY <1>1, <1>2 DEF Indices, Below
  <2>2. ASSUME Using(u)' PROVE LeadsTo(fd[io[u].s], io[u].id)'
    <3>1. u # t /\ io'[u] = io[u] /\ Using(u)
      BY <1>2, <2>2 DEF Using
    <3>2. LeadsTo(fd[io[u].s], io[u].id)
      BY <3>1 DEF Indices
    <3>3. fd[io[u].s] \in Stream /\ fd[fd[io[u].s]] = fd[io[u].s]
      BY <3>1 DEF Shape, Opened
    <3>. QED  BY <1>1, <1>13, <1>14, <3>1, <3>2, <3>3, IoAssumption DEF LeadsTo
  <2>3. ASSUME In(u, "publish")' PROVE LeadsTo(io[u].s, io[u].id)' /\ Intact(io[u].s, io[u].id)'
    <3>1. u # t /\ io'[u] = io[u] /\ In(u, "publish")
      BY <1>2, <2>3 DEF In
    <3>2. LeadsTo(io[u].s, io[u].id) /\ Intact(io[u].s, io[u].id)
      BY <3>1 DEF Indices
    <3>3. io[u].s \notin others /\ io[u].s # s
      BY <1>1, <1>5a, <3>1 DEF Shape, Opening, Pushers, In
    <3>. QED  BY <1>1, <1>14, <3>1, <3>2, <3>3 DEF LeadsTo, Intact
  <2>4. ASSUME In(u, "push")', io'[u].s \in muddled' PROVE LeadsTo(io[u].s, io[u].id)'
    <3>1. CASE u = t
      BY <1>1, <1>2, <1>10, <2>4, <3>1 DEF LeadsTo
    <3>2. CASE u # t /\ io[u].s \in muddled
      BY <1>1, <1>2, <1>14, <2>4, <3>2 DEF Indices, LeadsTo, In
    <3>3. CASE u # t /\ io[u].s \notin muddled
      <4>1. u \in Pushers /\ io'[u] = io[u]
        BY <1>2, <2>4, <3>3 DEF Pushers, In
      <4>2. io[u].id = Len(files)
        BY <4>1, <3>3 DEF Alone
      <4>. QED  BY <1>1, <1>10, <2>4, <4>1, <4>2 DEF LeadsTo
    <3>. QED  BY <3>1, <3>2, <3>3
  <2>. QED  BY <2>1, <2>2, <2>3, <2>4
<1>17. Indices'
  BY <1>15, <1>16 DEF Indices
<1>. QED  BY <1>6, <1>7, <1>8, <1>11, <1>17

(* The file goes to the end of the table.  An opening that is alone has the *)
(* index of that place, and nobody else has it.                             *)
LEMMA AllocPushStep ==
  ASSUME IoInv, NEW t \in IoThread, AllocPush(t)
  PROVE  IoInv'
<1>. DEFINE d == io[t].s
            i == io[t].id
<1>. USE DEF IoInv, IoTypeOK
<1>1. /\ io[t].op = "push" /\ t \in Pushers /\ d \in Stream /\ i \in Nat /\ fd[d] = Unopened
      /\ files' = Append(files, [of |-> d, open |-> TRUE])
      /\ io' = [io EXCEPT ![t] = [io[t] EXCEPT !.op = "publish"]]
      /\ next_id' = next_id /\ fd' = fd /\ rid' = rid /\ muddled' = muddled
  BY DEF AllocPush, In, Go, Shape, Opening, Pushers
<1>2. /\ io'[t].op = "publish" /\ io'[t].s = d /\ io'[t].id = i
      /\ \A u \in IoThread \ {t} : io'[u] = io[u]
      /\ \A u \in IoThread : io'[u].s = io[u].s /\ io'[u].id = io[u].id
      /\ d' = d /\ i' = i
  BY <1>1
<1>3. /\ Len(files') = Len(files) + 1 /\ Len(files) \in Nat
      /\ \A k \in 1 .. Len(files) : files'[k] = files[k]
      /\ files'[Len(files) + 1].of = d /\ files'[Len(files) + 1].open
  BY <1>1
<1>4. Pushers' = Pushers \ {t}
  BY <1>1, <1>2 DEF Pushers, In
<1>. HIDE DEF d, i
<1>5. IoTypeOK'
  <2>1. [of |-> d, open |-> TRUE] \in File
    BY <1>1 DEF File
  <2>2. files' \in Seq(File)
    BY <1>1, <2>1
  <2>3. [io[t] EXCEPT !.op = "publish"] \in [op : Ops, s : Stream \cup {Unopened}, id : Nat]
    BY DEF Ops
  <2>4. io' \in [IoThread -> [op : Ops, s : Stream \cup {Unopened}, id : Nat]]
    BY <1>1, <2>3
  <2>. QED  BY <1>1, <2>2, <2>4
<1>6. Counted'
  <2>1. IsFiniteSet(Pushers') /\ Cardinality(Pushers') = Cardinality(Pushers) - 1
    BY <1>1, <1>4, FS_RemoveElement DEF Counted
  <2>2. Cardinality(Pushers) \in Nat
    BY FS_CardinalityType DEF Counted
  <2>. QED  BY <1>1, <1>3, <2>1, <2>2 DEF Counted
<1>7. Shape'
  <2>1. \A u \in IoThread : Opening(u)' => Opening(u)
    BY <1>1, <1>2 DEF Opening
  <2>2. \A u \in IoThread : (Using(u)' => Using(u)) /\ (In(u, "close")' => In(u, "close"))
    BY <1>1, <1>2 DEF Using, In
  <2>3. \A u \in IoThread : Opening(u)' =>
          /\ io'[u].s \in Stream /\ fd'[io'[u].s] = Unopened
          /\ \A v \in IoThread : io'[v].s = io'[u].s => v = u
    BY <1>1, <1>2, <2>1 DEF Shape
  <2>4. \A u \in IoThread : Using(u)' => io'[u].s \in Stream /\ fd'[io'[u].s] # Unopened
    BY <1>1, <1>2, <2>2 DEF Shape, Opened
  <2>5. \A u \in IoThread : In(u, "close")' => rid'[fd'[io'[u].s]] \in {0, NullField}
    BY <1>1, <1>2, <2>2 DEF Shape
  <2>. QED  BY <1>1, <2>3, <2>4, <2>5 DEF Shape, Opened
<1>8. Alone'
  BY <1>1, <1>2, <1>4 DEF Alone
<1>9. d \notin muddled =>
        /\ i = Len(files)
        /\ \A s \in Stream : Below(rid[s], Len(files))
        /\ \A u \in IoThread \ {t} : Below(io[u].id, Len(files))
  BY <1>1 DEF Alone, d, i
<1>10. ASSUME NEW s, NEW k \in Nat \cup {NullField}, LeadsTo(s, k), Below(k, Len(files)) \/ d \in muddled
       PROVE  LeadsTo(s, k)' /\ (Intact(s, k) => Intact(s, k)')
  <2>. SUFFICES ASSUME k > 0 PROVE LeadsTo(s, k)' /\ (Intact(s, k) => Intact(s, k)')
    BY DEF LeadsTo, Intact
  <2>1. k \in Nat
    BY DEF NullField
  <2>2. CASE k < Len(files)
    <3>1. k + 1 \in 1 .. Len(files)
      BY <1>3, <2>1, <2>2
    <3>2. files'[k + 1] = files[k + 1]
      BY <1>3, <3>1
    <3>3. k < Len(files')
      BY <1>3, <2>1, <2>2
    <3>. QED  BY <1>1, <1>10, <2>2, <3>2, <3>3 DEF LeadsTo, Intact
  <2>3. CASE ~ (k < Len(files))
    <3>1. d \in muddled /\ s \in muddled
      BY <1>3, <1>10, <2>1, <2>3 DEF Below, LeadsTo
    <3>2. k < Len(files') => k = Len(files)
      BY <1>3, <2>1, <2>3
    <3>. QED  BY <1>1, <1>3, <3>1, <3>2 DEF LeadsTo, Intact
  <2>. QED  BY <2>2, <2>3
<1>11. \A s \in Stream : Below(rid'[s], next_id') /\ LeadsTo(s, rid[s])' /\ Intact(s, rid[s])'
  <2>. TAKE s \in Stream
  <2>1. rid[s] \in Nat \cup {NullField} /\ LeadsTo(s, rid[s]) /\ Intact(s, rid[s])
    BY DEF Indices
  <2>2. Below(rid[s], Len(files)) \/ d \in muddled
    BY <1>9
  <2>. QED  BY <1>1, <1>10, <2>1, <2>2 DEF Indices
<1>12. ASSUME NEW u \in IoThread
       PROVE  /\ Below(io'[u].id, next_id')
              /\ Using(u)' => LeadsTo(fd[io[u].s], io[u].id)'
              /\ In(u, "publish")' => LeadsTo(io[u].s, io[u].id)' /\ Intact(io[u].s, io[u].id)'
              /\ In(u, "push")' /\ io'[u].s \in muddled' => LeadsTo(io[u].s, io[u].id)'
  <2>1. Below(io'[u].id, next_id') /\ io[u].id \in Nat
    BY <1>1, <1>2 DEF Indices
  <2>2. CASE u = t
    <3>1. ~ Using(u)' /\ ~ In(u, "push")'
      BY <1>2, <2>2 DEF Using, In
    <3>2. LeadsTo(d, i)' /\ Intact(d, i)'
      <4>1. CASE d \in muddled
        <5>1. LeadsTo(d, i)
          <6>1. io[t].op = "push" /\ io[t].s \in muddled => LeadsTo(io[t].s, io[t].id)
            BY DEF Indices, In
          <6>. QED  BY <1>1, <4>1, <6>1 DEF d, i
        <5>2. LeadsTo(d, i)'
          BY <1>1, <1>2, <1>10, <4>1, <5>1
        <5>. QED  BY <1>1, <1>2, <4>1, <5>2 DEF Intact
      <4>2. CASE d \notin muddled
        BY <1>1, <1>2, <1>3, <1>9, <4>2 DEF LeadsTo, Intact
      <4>. QED  BY <4>1, <4>2
    <3>. QED  BY <1>2, <2>1, <2>2, <3>1, <3>2 DEF d, i
  <2>3. CASE u # t
    <3>1. Below(io[u].id, Len(files)) \/ d \in muddled
      BY <1>9, <2>3
    <3>2. io'[u] = io[u]
      BY <1>2, <2>3
    <3>3. Using(u)' => LeadsTo(fd[io[u].s], io[u].id)'
      BY <1>1, <1>10, <2>1, <3>1, <3>2 DEF Indices, Using
    <3>4. In(u, "publish")' => LeadsTo(io[u].s, io[u].id)' /\ Intact(io[u].s, io[u].id)'
      BY <1>1, <1>10, <2>1, <3>1, <3>2 DEF Indices, In
    <3>5. In(u, "push")' /\ io'[u].s \in muddled' => LeadsTo(io[u].s, io[u].id)'
      BY <1>1, <1>10, <2>1, <3>1, <3>2 DEF Indices, In
    <3>. QED  BY <2>1, <3>3, <3>4, <3>5
  <2>. QED  BY <2>2, <2>3
<1>13. Indices'
  BY <1>11, <1>12 DEF Indices
<1>. QED  BY <1>5, <1>6, <1>7, <1>8, <1>13

(* The descriptor gets the index of the file its stream opened.             *)
LEMMA NewStreamStep ==
  ASSUME IoInv, NEW t \in IoThread, NewStream(t)
  PROVE  IoInv'
<1>. DEFINE d == io[t].s
            i == io[t].id
<1>. USE DEF IoInv, IoTypeOK
<1>1. /\ io[t].op = "publish" /\ t \notin Pushers /\ d \in Stream /\ i \in Nat /\ fd[d] = Unopened
      /\ fd' = [fd EXCEPT ![d] = d]
      /\ rid' = [rid EXCEPT ![d] = i]
      /\ io' = [io EXCEPT ![t] = Idle]
      /\ next_id' = next_id /\ files' = files /\ muddled' = muddled
      /\ \A u \in IoThread \ {t} : io[u].s # d
  BY DEF NewStream, In, Go, Shape, Opening, Pushers
<1>2. /\ io'[t].op = "idle" /\ io'[t].s = Unopened /\ io'[t].id = 0
      /\ \A u \in IoThread \ {t} : io'[u] = io[u]
  BY <1>1 DEF Idle
<1>3. Pushers' = Pushers
  BY <1>1, <1>2 DEF Pushers, In
<1>4. LeadsTo(d, i) /\ Intact(d, i) /\ Below(i, next_id)
  BY <1>1 DEF Indices, In
<1>5. \A p \in Pushers : io[p].s \notin muddled => Below(i, Len(files))
  BY <1>1 DEF Alone
<1>6. \A s \in Stream \ {d} : fd'[s] = fd[s] /\ rid'[s] = rid[s]
  BY <1>1
<1>7. fd'[d] = d /\ rid'[d] = i
  BY <1>1
<1>8. \A s \in Stream : Opened(s) => s # d /\ fd[s] \in Stream \ {d}
  BY <1>1 DEF Opened, Shape
<1>. HIDE DEF d, i
<1>9. IoTypeOK'
  <2>1. Idle \in [op : Ops, s : Stream \cup {Unopened}, id : Nat]
    BY DEF Idle, Ops
  <2>. QED  BY <1>1, <2>1
<1>10. Counted'
  BY <1>1, <1>3 DEF Counted
<1>11. Shape'
  <2>1. \A s \in Stream : fd'[s] # Unopened => fd'[fd'[s]] = fd'[s]
    <3>1. ASSUME NEW s \in Stream \ {d}, fd'[s] # Unopened PROVE fd'[fd'[s]] = fd'[s]
      <4>1. fd'[s] = fd[s] /\ Opened(s)
        BY <1>6, <3>1 DEF Opened
      <4>. QED  BY <1>6, <1>8, <4>1 DEF Shape
    <3>. QED  BY <1>7, <3>1
  <2>2. \A s \in Stream : fd'[s] # s => rid'[s] = 0
    BY <1>6, <1>7 DEF Shape
  <2>3. \A u \in IoThread : Opening(u)' => u # t /\ Opening(u) /\ io'[u] = io[u] /\ io[u].s # d
    BY <1>1, <1>2 DEF Opening
  <2>4. ASSUME NEW u \in IoThread, Opening(u)'
        PROVE  /\ io'[u].s \in Stream /\ fd'[io'[u].s] = Unopened
               /\ \A v \in IoThread : io'[v].s = io'[u].s => v = u
    <3>1. io'[u] = io[u] /\ io[u].s \in Stream \ {d} /\ fd[io[u].s] = Unopened
      BY <2>3, <2>4 DEF Shape
    <3>2. \A v \in IoThread : io[v].s = io[u].s => v = u
      BY <2>3, <2>4 DEF Shape
    <3>3. io'[t].s # io'[u].s
      BY <1>2, <3>1, IoAssumption
    <3>. QED  BY <1>2, <1>6, <3>1, <3>2, <3>3
  <2>5. \A u \in IoThread : Using(u)' => u # t /\ Using(u) /\ io'[u] = io[u]
    BY <1>2 DEF Using
  <2>6. \A u \in IoThread : Using(u)' => io'[u].s \in Stream /\ fd'[io'[u].s] # Unopened
    BY <1>6, <1>8, <2>5 DEF Shape, Opened
  <2>7. \A u \in IoThread : In(u, "close")' => rid'[fd'[io'[u].s]] \in {0, NullField}
    <3>1. \A u \in IoThread : In(u, "close")' => In(u, "close") /\ Using(u)'
      BY <1>2 DEF In, Using
    <3>. QED  BY <1>6, <1>8, <2>5, <3>1 DEF Shape
  <2>. QED  BY <2>1, <2>2, <2>4, <2>6, <2>7 DEF Shape, Opened
<1>12. Alone'
  BY <1>1, <1>2, <1>3, <1>5, <1>6, <1>7 DEF Alone, Below
<1>13. \A s \in Stream : Below(rid'[s], next_id') /\ LeadsTo(s, rid[s])' /\ Intact(s, rid[s])'
  <2>. TAKE s \in Stream
  <2>1. CASE s = d
    BY <1>1, <1>4, <1>7, <2>1 DEF LeadsTo, Intact
  <2>2. CASE s # d
    BY <1>1, <1>6, <2>2 DEF Indices, LeadsTo, Intact
  <2>. QED  BY <2>1, <2>2
<1>14. ASSUME NEW u \in IoThread
       PROVE  /\ Below(io'[u].id, next_id')
              /\ Using(u)' => LeadsTo(fd[io[u].s], io[u].id)'
              /\ In(u, "publish")' => LeadsTo(io[u].s, io[u].id)' /\ Intact(io[u].s, io[u].id)'
              /\ In(u, "push")' /\ io'[u].s \in muddled' => LeadsTo(io[u].s, io[u].id)'
  <2>1. CASE u = t
    BY <1>2, <2>1 DEF Below, Using, In
  <2>2. CASE u # t
    <3>1. io'[u] = io[u]
      BY <1>2, <2>2
    <3>2. Using(u) => fd'[io[u].s] = fd[io[u].s]
      BY <1>6, <1>8 DEF Shape
    <3>. QED  BY <1>1, <3>1, <3>2 DEF Indices, Using, In, LeadsTo, Intact
  <2>. QED  BY <2>1, <2>2
<1>15. Indices'
  BY <1>13, <1>14 DEF Indices
<1>. QED  BY <1>9, <1>10, <1>11, <1>12, <1>15

(* A stream of another's descriptor uses a file that is in use.             *)
LEMMA NewStreamOfStep ==
  ASSUME IoInv, NEW t \in IoThread, NEW s \in Stream, NEW other \in Stream,
         NewStreamOf(t, s, other)
  PROVE  IoInv'
<1>. USE DEF IoInv, IoTypeOK
<1>1. /\ fd[s] = Unopened /\ \A u \in IoThread : io[u].s # s
      /\ fd[other] \in Stream /\ fd[fd[other]] = fd[other] /\ fd[other] # Unopened
      /\ fd' = [fd EXCEPT ![s] = fd[other]]
      /\ next_id' = next_id /\ files' = files /\ rid' = rid /\ io' = io /\ muddled' = muddled
  BY DEF NewStreamOf, Unused, Opened, Shape
<1>2. \A u \in IoThread : Using(u) => fd'[io[u].s] = fd[io[u].s]
  BY <1>1 DEF Shape
<1>3. IoTypeOK' /\ Counted' /\ Alone'
  BY <1>1 DEF Counted, Alone, Pushers, In
<1>4. Shape'
  <2>1. \A x \in Stream : fd'[x] # Unopened => fd'[fd'[x]] = fd'[x]
    BY <1>1 DEF Opened, Shape
  <2>2. \A x \in Stream : fd'[x] # x => rid'[x] = 0
    BY <1>1, IoAssumption DEF Shape
  <2>3. \A u \in IoThread : Opening(u) => fd'[io[u].s] = Unopened
    BY <1>1 DEF Shape
  <2>. QED  BY <1>1, <1>2, <2>1, <2>2, <2>3 DEF Shape, Opened, Opening, Using, In
<1>5. Indices'
  BY <1>1, <1>2 DEF Indices, LeadsTo, Intact, Using, In
<1>. QED  BY <1>3, <1>4, <1>5

(* The steps that leave the table, the descriptors and the openings alone:  *)
(* a native looks an index up, or is done with it.                          *)
LEMMA QuietStep ==
  ASSUME IoInv, NEW t \in IoThread,
         ~ Opening(t), UNCHANGED <<next_id, files, fd, rid, muddled>>,
         NEW x \in [op : Ops, s : Stream \cup {Unopened}, id : Nat],
         io' = [io EXCEPT ![t] = x],
         x = Idle \/ (x.op \in {"use", "clear"} /\ x.s \in Stream /\ Opened(x.s) /\ x.id = IdOf(x.s))
  PROVE  IoInv'
<1>. USE DEF IoInv, IoTypeOK
<1>1. /\ io'[t] = x
      /\ \A u \in IoThread \ {t} : io'[u] = io[u]
      /\ x.op \in {"idle", "use", "clear"} /\ t \notin Pushers
  BY DEF Idle, Opening, Pushers, In
<1>2. Pushers' = Pushers
  BY <1>1 DEF Pushers, In
<1>3. x.id = 0 \/ (x.op # "idle" /\ x.id = rid[fd[x.s]] /\ fd[x.s] \in Stream)
  BY DEF Idle, IdOf, ResourceId, Opened, Shape
<1>4. Below(x.id, next_id) /\ (x.op # "idle" => LeadsTo(fd[x.s], x.id))
  BY <1>3 DEF Below, Indices, LeadsTo
<1>5. \A p \in Pushers : io[p].s \notin muddled => Below(x.id, Len(files))
  BY <1>3 DEF Below, Alone
<1>6. IoTypeOK' /\ Counted'
  BY <1>2 DEF Counted
<1>7. Shape'
  <2>1. \A u \in IoThread : Opening(u)' => u # t /\ Opening(u) /\ io'[u] = io[u]
    BY <1>1 DEF Opening
  <2>2. \A u \in IoThread : Opening(u) => fd[io[u].s] = Unopened
    BY DEF Shape
  <2>3. x.s \in Stream => fd[x.s] # Unopened
    BY IoAssumption DEF Opened, Idle
  <2>4. \A u \in IoThread : Opening(u)' =>
          /\ io'[u].s \in Stream /\ fd'[io'[u].s] = Unopened
          /\ \A v \in IoThread : io'[v].s = io'[u].s => v = u
    BY <1>1, <2>1, <2>2, <2>3 DEF Shape
  <2>5. \A u \in IoThread : Using(u)' => io'[u].s \in Stream /\ fd'[io'[u].s] # Unopened
    BY <1>1 DEF Shape, Using, Opened, Idle
  <2>6. \A u \in IoThread : In(u, "close")' => u # t /\ In(u, "close") /\ io'[u] = io[u]
    BY <1>1 DEF In
  <2>. QED  BY <2>4, <2>5, <2>6 DEF Shape, Opened
<1>8. Alone'
  BY <1>1, <1>2, <1>5 DEF Alone, Below
<1>9. Indices'
  <2>1. \A s \in Stream : Below(rid'[s], next_id') /\ LeadsTo(s, rid[s])' /\ Intact(s, rid[s])'
    BY DEF Indices, LeadsTo, Intact
  <2>2. ASSUME NEW u \in IoThread
        PROVE  /\ Below(io'[u].id, next_id')
               /\ Using(u)' => LeadsTo(fd[io[u].s], io[u].id)'
               /\ In(u, "publish")' => LeadsTo(io[u].s, io[u].id)' /\ Intact(io[u].s, io[u].id)'
               /\ In(u, "push")' /\ io'[u].s \in muddled' => LeadsTo(io[u].s, io[u].id)'
    <3>1. CASE u = t
      BY <1>1, <1>4, <3>1 DEF Below, LeadsTo, Using, In
    <3>2. CASE u # t
      BY <1>1, <3>2 DEF Indices, LeadsTo, Intact, Using, In
    <3>. QED  BY <3>1, <3>2
  <2>. QED  BY <2>1, <2>2 DEF Indices
<1>. QED  BY <1>6, <1>7, <1>8, <1>9

LEMMA LookupStep ==
  ASSUME IoInv, NEW t \in IoThread, NEW s \in Stream, Lookup(t, s) \/ Close0(t, s)
  PROVE  IoInv'
<1>. DEFINE x == [op |-> IF Lookup(t, s) THEN "use" ELSE "clear", s |-> s, id |-> IdOf(s)]
<1>. USE DEF IoInv, IoTypeOK
<1>1. fd[s] \in Stream
  BY DEF Lookup, Close0, Opened
<1>2. IdOf(s) \in Nat
  BY <1>1 DEF IdOf, ResourceId
<1>3. x \in [op : Ops, s : Stream \cup {Unopened}, id : Nat]
  BY <1>2 DEF Ops
<1>4. io[t] = Idle /\ io' = [io EXCEPT ![t] = x] /\ Opened(s)
      /\ UNCHANGED <<next_id, files, fd, rid, muddled>>
  BY DEF Lookup, Close0, Go, Started
<1>5. ~ Opening(t)
  BY <1>4 DEF Idle, Opening
<1>6. x.op \in {"use", "clear"} /\ x.s = s /\ x.id = IdOf(s)
  OBVIOUS
<1>. HIDE DEF x
<1>. QED  BY <1>3, <1>4, <1>5, <1>6, QuietStep

LEMMA WithFileStep ==
  ASSUME IoInv, NEW t \in IoThread, WithFile(t)
  PROVE  IoInv'
<1>1. Idle \in [op : Ops, s : Stream \cup {Unopened}, id : Nat]
  BY DEF Idle, Ops
<1>2. ~ Opening(t) /\ io' = [io EXCEPT ![t] = Idle] /\ UNCHANGED <<next_id, files, fd, rid, muddled>>
  BY DEF WithFile, Go, Opening, In
<1>. QED  BY <1>1, <1>2, QuietStep

(* A step that takes the index out of a descriptor, by close0 or by closing *)
(* a writer, and leads nobody anywhere new.                                 *)
LEMMA ClearStep ==
  ASSUME IoInv, NEW t \in IoThread, NEW d \in Stream, fd[d] = d, NEW z \in {0, NullField},
         rid' = [rid EXCEPT ![d] = z],
         UNCHANGED <<next_id, files, fd, muddled>>,
         \/ UNCHANGED io
         \/ In(t, "clear") /\ fd[io[t].s] = d /\ z = 0
              /\ io' = [io EXCEPT ![t] = [io[t] EXCEPT !.op = "close"]]
  PROVE  IoInv'
<1>. USE DEF IoInv, IoTypeOK
<1>1. /\ \A u \in IoThread : io'[u].s = io[u].s /\ io'[u].id = io[u].id
      /\ \A u \in IoThread : io'[u] = io[u] \/ (Using(u) /\ Using(u)' /\ fd[io[u].s] = d /\ z = 0)
  BY DEF Using, In
<1>2. /\ \A u \in IoThread : Using(u)' => Using(u)
      /\ \A u \in IoThread : Opening(u)' => Opening(u)
      /\ \A u \in IoThread : In(u, "publish")' => In(u, "publish")
      /\ \A u \in IoThread : In(u, "push")' <=> In(u, "push")
      /\ \A u \in IoThread : In(u, "close")' => In(u, "close") \/ (fd[io[u].s] = d /\ z = 0)
  BY <1>1 DEF Using, Opening, In
<1>3. /\ \A s \in Stream \ {d} : rid'[s] = rid[s]
      /\ rid'[d] = z
  OBVIOUS
<1>4. IoTypeOK'
  <2>1. \A u \in IoThread : [io[u] EXCEPT !.op = "close"] \in [op : Ops, s : Stream \cup {Unopened}, id : Nat]
    BY DEF Ops
  <2>2. io' \in [IoThread -> [op : Ops, s : Stream \cup {Unopened}, id : Nat]]
    BY <2>1
  <2>. QED  BY <2>2
<1>5. Counted' /\ Pushers' = Pushers
  BY <1>2 DEF Counted, Pushers
<1>6. Shape'
  <2>1. \A s \in Stream : fd'[s] # s => rid'[s] = 0
    BY <1>3 DEF Shape
  <2>2. \A u \in IoThread : In(u, "close")' => rid'[fd'[io'[u].s]] \in {0, NullField}
    <3>. SUFFICES ASSUME NEW u \in IoThread, In(u, "close")' PROVE rid'[fd[io[u].s]] \in {0, NullField}
      BY <1>1
    <3>1. Using(u)
      BY <1>2 DEF Using, In
    <3>2. fd[io[u].s] \in Stream
      BY <3>1 DEF Shape, Opened
    <3>. QED  BY <1>2, <1>3, <3>2 DEF Shape
  <2>3. \A u \in IoThread : Opening(u)' =>
          /\ io'[u].s \in Stream /\ fd'[io'[u].s] = Unopened
          /\ \A v \in IoThread : io'[v].s = io'[u].s => v = u
    BY <1>1, <1>2 DEF Shape
  <2>4. \A u \in IoThread : Using(u)' => io'[u].s \in Stream /\ fd'[io'[u].s] # Unopened
    BY <1>1, <1>2 DEF Shape, Opened
  <2>5. \A s \in Stream : fd'[s] # Unopened => fd'[fd'[s]] = fd'[s]
    BY DEF Shape, Opened
  <2>. QED  BY <2>1, <2>2, <2>3, <2>4, <2>5 DEF Shape, Opened
<1>7. \A n \in Nat : Below(z, n)
  BY DEF Below, NullField
<1>8. Alone'
  <2>. SUFFICES ASSUME NEW p \in Pushers, io[p].s \notin muddled
                PROVE  /\ Pushers = {p}
                       /\ io[p].id = Len(files)
                       /\ \A s \in Stream : Below(rid'[s], Len(files))
                       /\ \A u \in IoThread \ {p} : Below(io[u].id, Len(files))
    BY <1>1, <1>5 DEF Alone, Below, Pushers
  <2>1. Below(z, Len(files))
    BY <1>7
  <2>2. \A s \in Stream : Below(rid[s], Len(files))
    BY DEF Alone
  <2>3. \A s \in Stream : Below(rid'[s], Len(files))
    BY <1>3, <2>1, <2>2
  <2>. QED  BY <2>3 DEF Alone
<1>9. Indices'
  <2>1. \A s \in Stream : Below(rid'[s], next_id') /\ LeadsTo(s, rid[s])' /\ Intact(s, rid[s])'
    BY <1>3, <1>7 DEF Indices, LeadsTo, Intact, NullField
  <2>2. \A u \in IoThread :
          /\ Below(io'[u].id, next_id')
          /\ Using(u)' => LeadsTo(fd[io[u].s], io[u].id)'
          /\ In(u, "publish")' => LeadsTo(io[u].s, io[u].id)' /\ Intact(io[u].s, io[u].id)'
          /\ In(u, "push")' /\ io'[u].s \in muddled' => LeadsTo(io[u].s, io[u].id)'
    BY <1>1, <1>2 DEF Indices, LeadsTo, Intact
  <2>. QED  BY <2>1, <2>2 DEF Indices
<1>. QED  BY <1>4, <1>5, <1>6, <1>8, <1>9

LEMMA ClearDescriptorStep ==
  ASSUME IoInv, NEW t \in IoThread, ClearDescriptor(t)
  PROVE  IoInv'
<1>. DEFINE d == fd[io[t].s]
<1>1. d \in Stream /\ fd[d] = d
  BY DEF ClearDescriptor, In, IoInv, IoTypeOK, Shape, Using, Opened
<1>2. /\ rid' = [rid EXCEPT ![d] = 0]
      /\ UNCHANGED <<next_id, files, fd, muddled>>
      /\ In(t, "clear") /\ io' = [io EXCEPT ![t] = [io[t] EXCEPT !.op = "close"]]
  BY DEF ClearDescriptor, Go
<1>. QED  BY <1>1, <1>2, ClearStep

LEMMA CloseWriterStep ==
  ASSUME IoInv, NEW t \in IoThread, NEW s \in Stream, CloseWriter(t, s)
  PROVE  IoInv'
<1>1. fd[s] \in Stream /\ fd[fd[s]] = fd[s]
  BY DEF CloseWriter, IoInv, IoTypeOK, Shape, Opened
<1>2. rid' = [rid EXCEPT ![fd[s]] = NullField] /\ UNCHANGED <<next_id, files, fd, muddled>> /\ UNCHANGED io
  BY DEF CloseWriter
<1>. QED  BY <1>1, <1>2, ClearStep

(* The file that is closed is not the one another descriptor leads to: the  *)
(* descriptor that led to it has been cleared.                              *)
LEMMA CloseFileStep ==
  ASSUME IoInv, NEW t \in IoThread, CloseFile(t)
  PROVE  IoInv'
<1>. DEFINE d == fd[io[t].s]
            i == io[t].id
<1>. USE DEF IoInv, IoTypeOK
<1>1. /\ In(t, "close") /\ ~ Opening(t) /\ Using(t) /\ d \in Stream /\ fd[d] = d /\ i \in Nat
      /\ rid[d] \in {0, NullField} /\ LeadsTo(d, i)
      /\ files' = Closed(i) /\ io' = [io EXCEPT ![t] = Idle]
      /\ next_id' = next_id /\ fd' = fd /\ rid' = rid /\ muddled' = muddled
  BY DEF CloseFile, In, Go, Using, Opening, Opened, Shape, Indices
<1>. HIDE DEF d, i
<1>2. /\ Len(files) \in Nat /\ Len(files') = Len(files) /\ files' \in Seq(File)
      /\ \A k \in 1 .. Len(files) : files'[k].of = files[k].of
      /\ \A k \in 1 .. Len(files) : k # i + 1 => files'[k] = files[k]
  <2>1. CASE i < Len(files)
    <3>1. i + 1 \in 1 .. Len(files)
      BY <1>1, <2>1
    <3>2. files[i + 1] \in File
      BY <3>1
    <3>3. [files[i + 1] EXCEPT !.open = FALSE] \in File /\ [files[i + 1] EXCEPT !.open = FALSE].of = files[i + 1].of
      BY <3>2 DEF File
    <3>4. files' = [files EXCEPT ![i + 1] = [files[i + 1] EXCEPT !.open = FALSE]]
      BY <1>1, <2>1 DEF Closed
    <3>. QED  BY <3>1, <3>3, <3>4
  <2>2. CASE ~ (i < Len(files))
    BY <1>1, <2>2 DEF Closed
  <2>. QED  BY <2>1, <2>2
<1>3. /\ io'[t] = Idle /\ io'[t].op = "idle" /\ io'[t].s = Unopened /\ io'[t].id = 0
      /\ \A u \in IoThread \ {t} : io'[u] = io[u]
      /\ t \notin Pushers
  BY <1>1 DEF Idle, Pushers, In, Opening
<1>4. Pushers' = Pushers
  BY <1>1, <1>3 DEF Pushers, In
<1>5. IoTypeOK' /\ Counted'
  <2>1. Idle \in [op : Ops, s : Stream \cup {Unopened}, id : Nat]
    BY DEF Idle, Ops
  <2>2. io' \in [IoThread -> [op : Ops, s : Stream \cup {Unopened}, id : Nat]]
    BY <1>1, <2>1
  <2>. QED  BY <1>1, <1>2, <1>4, <2>2 DEF Counted
<1>6. Shape'
  <2>1. \A u \in IoThread : Opening(u)' => u # t /\ Opening(u)
    BY <1>3 DEF Opening
  <2>2. ASSUME NEW u \in IoThread, Opening(u)'
        PROVE  /\ io'[u].s \in Stream /\ fd'[io'[u].s] = Unopened
               /\ \A v \in IoThread : io'[v].s = io'[u].s => v = u
    <3>1. io'[u] = io[u] /\ io[u].s \in Stream /\ fd[io[u].s] = Unopened
      BY <1>3, <2>1, <2>2 DEF Shape
    <3>2. \A v \in IoThread : io[v].s = io[u].s => v = u
      BY <2>1, <2>2 DEF Shape
    <3>3. io'[t].s # io'[u].s
      BY <1>3, <3>1, IoAssumption
    <3>. QED  BY <1>1, <1>3, <3>1, <3>2, <3>3
  <2>3. \A u \in IoThread : Using(u)' => io'[u].s \in Stream /\ fd'[io'[u].s] # Unopened
    BY <1>1, <1>3 DEF Shape, Opened, Using
  <2>4. \A u \in IoThread : In(u, "close")' => rid'[fd'[io'[u].s]] \in {0, NullField}
    BY <1>1, <1>3 DEF Shape, In
  <2>5. \A s \in Stream : (fd'[s] # Unopened => fd'[fd'[s]] = fd'[s]) /\ (fd'[s] # s => rid'[s] = 0)
    BY <1>1 DEF Shape, Opened
  <2>. QED  BY <2>2, <2>3, <2>4, <2>5 DEF Shape, Opened
<1>7. Alone'
  BY <1>1, <1>2, <1>3, <1>4 DEF Alone, Below
<1>8. ASSUME NEW s \in Stream, NEW k \in Nat \cup {NullField}, LeadsTo(s, k), s # d \/ k = 0
      PROVE  LeadsTo(s, k)' /\ (Intact(s, k) => Intact(s, k)')
  <2>. SUFFICES ASSUME k > 0 PROVE LeadsTo(s, k)' /\ (Intact(s, k) => Intact(s, k)')
    BY DEF LeadsTo, Intact
  <2>1. k \in Nat /\ (k < Len(files) => k + 1 \in 1 .. Len(files))
    BY <1>2 DEF NullField
  <2>2. LeadsTo(s, k)'
    BY <1>1, <1>2, <1>8, <2>1 DEF LeadsTo
  <2>3. ASSUME s \notin muddled PROVE k # i /\ k < Len(files)
    BY <1>1, <1>8, <2>1, <2>3 DEF LeadsTo
  <2>4. Intact(s, k) => Intact(s, k)'
    BY <1>1, <1>2, <2>1, <2>3 DEF Intact
  <2>. QED  BY <2>2, <2>4
<1>9. ASSUME NEW s \in Stream, NEW k \in Nat \cup {NullField}, LeadsTo(s, k) PROVE LeadsTo(s, k)'
  <2>. SUFFICES ASSUME k > 0 PROVE LeadsTo(s, k)'
    BY DEF LeadsTo
  <2>1. k \in Nat /\ (k < Len(files) => k + 1 \in 1 .. Len(files))
    BY <1>2 DEF NullField
  <2>. QED  BY <1>1, <1>2, <1>9, <2>1 DEF LeadsTo
<1>10. \A s \in Stream : Below(rid'[s], next_id') /\ LeadsTo(s, rid[s])' /\ Intact(s, rid[s])'
  <2>. TAKE s \in Stream
  <2>1. rid[s] \in Nat \cup {NullField} /\ Below(rid[s], next_id) /\ LeadsTo(s, rid[s]) /\ Intact(s, rid[s])
    BY DEF Indices
  <2>2. CASE rid[s] \in {0, NullField}
    BY <1>1, <2>1, <2>2 DEF LeadsTo, Intact, NullField
  <2>3. CASE rid[s] \notin {0, NullField}
    BY <1>1, <1>8, <2>1, <2>3
  <2>. QED  BY <2>2, <2>3
<1>11. ASSUME NEW u \in IoThread
       PROVE  /\ Below(io'[u].id, next_id')
              /\ Using(u)' => LeadsTo(fd[io[u].s], io[u].id)'
              /\ In(u, "publish")' => LeadsTo(io[u].s, io[u].id)' /\ Intact(io[u].s, io[u].id)'
              /\ In(u, "push")' /\ io'[u].s \in muddled' => LeadsTo(io[u].s, io[u].id)'
  <2>1. CASE u = t
    BY <1>3, <2>1 DEF Below, Using, In
  <2>2. CASE u # t
    <3>1. io'[u] = io[u] /\ io[u].id \in Nat /\ Below(io[u].id, next_id)
      BY <1>3, <2>2 DEF Indices
    <3>2. Using(u)' => LeadsTo(fd[io[u].s], io[u].id)'
      <4>1. Using(u) => fd[io[u].s] \in Stream /\ LeadsTo(fd[io[u].s], io[u].id)
        BY DEF Shape, Opened, Indices
      <4>. QED  BY <1>1, <1>9, <3>1, <4>1 DEF Using
    <3>3. Opening(u) => io[u].s \in Stream /\ io[u].s # d
      BY <1>1, IoAssumption DEF Shape
    <3>4. In(u, "publish")' => LeadsTo(io[u].s, io[u].id)' /\ Intact(io[u].s, io[u].id)'
      BY <1>8, <3>1, <3>3 DEF Indices, In, Opening
    <3>5. In(u, "push")' /\ io'[u].s \in muddled' => LeadsTo(io[u].s, io[u].id)'
      BY <1>1, <1>9, <3>1, <3>3 DEF Indices, In, Opening
    <3>. QED  BY <1>1, <3>1, <3>2, <3>4, <3>5
  <2>. QED  BY <2>1, <2>2
<1>12. Indices'
  BY <1>10, <1>11 DEF Indices
<1>. QED  BY <1>5, <1>6, <1>7, <1>12

-----------------------------------------------------------------------------
LEMMA IoInvStep == IoInv /\ [IoNext]_iovars => IoInv'
<1>. SUFFICES ASSUME IoInv, [IoNext]_iovars PROVE IoInv'
  OBVIOUS
<1>1. ASSUME NEW t \in IoThread, NEW s \in Stream, AllocId(t, s) PROVE IoInv'
  BY <1>1, AllocIdStep
<1>2. ASSUME NEW t \in IoThread, NEW s \in Stream, Lookup(t, s) \/ Close0(t, s) PROVE IoInv'
  BY <1>2, LookupStep
<1>3. ASSUME NEW t \in IoThread, NEW s \in Stream, CloseWriter(t, s) PROVE IoInv'
  BY <1>3, CloseWriterStep
<1>4. ASSUME NEW t \in IoThread, NEW s \in Stream, NEW other \in Stream, NewStreamOf(t, s, other)
      PROVE  IoInv'
  BY <1>4, NewStreamOfStep
<1>5. ASSUME NEW t \in IoThread, AllocPush(t) PROVE IoInv'
  BY <1>5, AllocPushStep
<1>6. ASSUME NEW t \in IoThread, NewStream(t) PROVE IoInv'
  BY <1>6, NewStreamStep
<1>7. ASSUME NEW t \in IoThread, WithFile(t) PROVE IoInv'
  BY <1>7, WithFileStep
<1>8. ASSUME NEW t \in IoThread, ClearDescriptor(t) PROVE IoInv'
  BY <1>8, ClearDescriptorStep
<1>9. ASSUME NEW t \in IoThread, CloseFile(t) PROVE IoInv'
  BY <1>9, CloseFileStep
<1>10. CASE UNCHANGED iovars
  <2>1. Counted'
    BY <1>10 DEF IoInv, Counted, Pushers, In, iovars
  <2>2. Alone'
    BY <1>10 DEF IoInv, Alone, Below, Pushers, In, iovars
  <2>. QED  BY <1>10, <2>1, <2>2 DEF IoInv, IoTypeOK, Shape, Indices, LeadsTo, Intact, Below, Opened,
                                   Opening, Using, In, iovars
<1>. QED  BY <1>1, <1>2, <1>3, <1>4, <1>5, <1>6, <1>7, <1>8, <1>9, <1>10 DEF IoNext

(* A stream whose opening overlapped no other keeps its own file whatever   *)
(* the others open and close (IoResources::alloc, close0 and the natives    *)
(* that use the index).                                                     *)
THEOREM OwnFileCorrect == IoSpec => []OwnFile
<1>1. IoSpec => []IoInv
  BY IoInvInit, IoInvStep, PTL DEF IoSpec
<1>. QED  BY <1>1, OwnFileFollows, PTL

-----------------------------------------------------------------------------
(* Shared variables.                                                       *)

Kinds == {"I", "J", "A", "F"}
IsValue(v) == v = <<v[1], v[2]>> /\ v[1] \in Kinds

\* What is known of a call a thread may make of a variable of kind k.
CallOf(k, c) ==
  /\ c.k = k /\ c.m # "none"
  /\ c.at \in {"there", "null", "outside"}
  /\ \/ c.api = "Atomic" /\ c.at = "there" /\ place = "field"
          /\ \/ k = "I" /\ c.m \in AtomicInteger
             \/ k = "J" /\ c.m \in AtomicLong
             \/ k = "A" /\ c.m \in AtomicReference
     \/ c.api = "LongAdder" /\ c.at = "there" /\ k = "J" /\ c.m \in LongAdder
     \/ c.api = "Unsafe" /\ c.m \in {"compareAndSet", "getAndSet", "get", "set", "getAndAdd"}
          /\ (k = "A" => c.m # "getAndAdd") /\ k # "F"
     \/ c.api = "VarHandle" /\ c.m \in AccessModes
  /\ c.m \notin NoArgument => IsValue(c.x) /\ c.x[1] = k
  /\ c.m \in TwoArguments => IsValue(c.y) /\ c.y[1] = k

LEMMA AskedShape ==
  ASSUME NEW api, NEW k, NEW methods, NEW ats, NEW c \in Asked(api, k, methods, ats)
  PROVE  /\ c.api = api /\ c.k = k /\ c.m \in methods /\ c.at \in ats
         /\ c.m \notin NoArgument => IsValue(c.x) /\ c.x[1] = k
         /\ c.m \in TwoArguments => IsValue(c.y) /\ c.y[1] = k
<1>1. PICK m \in methods :
        c \in [api : {api}, k : {k}, m : {m}, at : ats,
               x : IF m \in NoArgument THEN {Nothing} ELSE Arguments(k),
               y : IF m \in TwoArguments THEN Arguments(k) ELSE {Nothing}]
  BY DEF Asked
<1>2. c.m = m /\ c.api = api /\ c.k = k /\ c.at \in ats
  BY <1>1
<1>3. \A d \in Arguments(k) : IsValue(d) /\ d[1] = k
  BY DatumAssumption DEF Arguments, IsValue, Kinds
<1>4. QED
  BY <1>1, <1>2, <1>3

LEMMA CallShape ==
  ASSUME NEW k \in Kinds, place \in {"field", "element", "static"},
         NEW c \in KindCalls(k, place)
  PROVE  CallOf(k, c)
<1> DEFINE atomics == Asked("Atomic", k, CASE k = "I" -> AtomicInteger [] k = "J" -> AtomicLong
                             [] k = "A" -> AtomicReference [] OTHER -> {}, {"there"})
           adders == Asked("LongAdder", k, IF k = "J" THEN LongAdder ELSE {}, {"there"})
           unsafes == Asked("Unsafe", k, {"compareAndSet", "getAndSet", "get", "set"}
                     \cup (IF k = "A" THEN {} ELSE {"getAndAdd"}), Anchors(place))
           handles == Asked("VarHandle", k, AccessModes,
             IF place = "static" THEN {"there"} ELSE Anchors(place))
<1>1. \/ place = "field" /\ c \in atomics
      \/ place = "field" /\ c \in adders
      \/ k # "F" /\ c \in unsafes
      \/ c \in handles
  BY DEF KindCalls
<1>2. Anchors(place) \subseteq {"there", "null", "outside"}
  BY DEF Anchors
<1> USE DEF CallOf
<1>3. CASE place = "field" /\ c \in atomics
  <2>1. /\ c.api = "Atomic" /\ c.k = k /\ c.at = "there"
        /\ c.m \in (CASE k = "I" -> AtomicInteger [] k = "J" -> AtomicLong
                      [] k = "A" -> AtomicReference [] OTHER -> {})
        /\ c.m \notin NoArgument => IsValue(c.x) /\ c.x[1] = k
        /\ c.m \in TwoArguments => IsValue(c.y) /\ c.y[1] = k
    BY <1>3, AskedShape
  <2>2. QED
    BY <2>1, <1>3 DEF AtomicInteger, AtomicLong, AtomicReference, Kinds
<1>4. CASE place = "field" /\ c \in adders
  <2>1. /\ c.api = "LongAdder" /\ c.k = k /\ c.at = "there"
        /\ c.m \in (IF k = "J" THEN LongAdder ELSE {})
        /\ c.m \notin NoArgument => IsValue(c.x) /\ c.x[1] = k
        /\ c.m \in TwoArguments => IsValue(c.y) /\ c.y[1] = k
    BY <1>4, AskedShape
  <2>2. QED
    BY <2>1, <1>4 DEF LongAdder
<1>5. CASE k # "F" /\ c \in unsafes
  <2>1. /\ c.api = "Unsafe" /\ c.k = k /\ c.at \in Anchors(place)
        /\ c.m \in {"compareAndSet", "getAndSet", "get", "set"}
                     \cup (IF k = "A" THEN {} ELSE {"getAndAdd"})
        /\ c.m \notin NoArgument => IsValue(c.x) /\ c.x[1] = k
        /\ c.m \in TwoArguments => IsValue(c.y) /\ c.y[1] = k
    BY <1>5, AskedShape
  <2>2. QED
    BY <2>1, <1>2, <1>5
<1>6. CASE c \in handles
  <2>1. /\ c.api = "VarHandle" /\ c.k = k
        /\ c.at \in (IF place = "static" THEN {"there"} ELSE Anchors(place))
        /\ c.m \in AccessModes
        /\ c.m \notin NoArgument => IsValue(c.x) /\ c.x[1] = k
        /\ c.m \in TwoArguments => IsValue(c.y) /\ c.y[1] = k
    BY <1>6, AskedShape
  <2>2. QED
    BY <2>1, <1>2 DEF AccessModes
<1>7. QED
  BY <1>1, <1>3, <1>4, <1>5, <1>6

-----------------------------------------------------------------------------
(* The abstract module has the operators of MachineInts once more.         *)

LEMMA SameArithmetic ==
  /\ \A k, n : Cells!Wrap(k, n) = Wrap(k, n)
  /\ \A k : Cells!IntsOf(k) = IntsOf(k)
  /\ \A k : Cells!MaxOf(k) = MaxOf(k)
  /\ \A k, a, b : Cells!AndOf(k, a, b) = AndOf(k, a, b)
  /\ \A k, a, b : Cells!OrOf(k, a, b) = OrOf(k, a, b)
  /\ \A k, a, b : Cells!XorOf(k, a, b) = XorOf(k, a, b)
<1>1. \A k : Cells!Width(k) = Width(k)
  BY DEF Cells!Width, Width
<1>2. \A k : Cells!MaxOf(k) = MaxOf(k) /\ Cells!MinOf(k) = MinOf(k)
  BY <1>1 DEF Cells!MaxOf, MaxOf, Cells!MinOf, MinOf
<1>3. \A k, n : Cells!Unsigned(k, n) = Unsigned(k, n)
  BY <1>1 DEF Cells!Unsigned, Unsigned
<1>4. \A k, n : Cells!Wrap(k, n) = Wrap(k, n)
  BY <1>1, <1>2, <1>3 DEF Cells!Wrap, Wrap
<1>5. \A k : Cells!IntsOf(k) = IntsOf(k)
  BY <1>2 DEF Cells!IntsOf, IntsOf
<1>6. \A k, n : Cells!Ones(k, n) = Ones(k, n)
  BY <1>1 DEF Cells!Ones, Ones
<1>7. ASSUME NEW k, NEW ones PROVE Cells!OfOnes(k, ones) = OfOnes(k, ones)
  <2>1. Cells!Width(k) = Width(k)
    BY <1>1
  <2>2. \A n : Cells!Wrap(k, n) = Wrap(k, n)
    BY <1>4
  <2>3. QED
    BY <2>1, <2>2, Zenon DEF Cells!OfOnes, OfOnes
<1>8. QED
  BY <1>2, <1>4, <1>5, <1>6, <1>7, Zenon
     DEF Cells!AndOf, AndOf, Cells!OrOf, OrOf, Cells!XorOf, XorOf


-----------------------------------------------------------------------------
(* A call does to the variable and answers what it is documented to.       *)

LEMMA SameConstants ==
  /\ Cells!NoCall = NoCall /\ Cells!Nothing = Nothing
  /\ \A k : Cells!Zero(k) = Zero(k)
  /\ \A v, n : Cells!Plus(v, n) = SumOf(v, n)
  /\ \A c : Cells!Added(c) = Delta(c)
  /\ \A c : c.m \in Cells!Additions <=> Adds(c)
<1>1. \A c : c.m \in Cells!Additions <=> Adds(c)
  BY DEF Cells!Additions, Adds
<1>2. QED
  BY <1>1, SameArithmetic
     DEF Cells!NoCall, NoCall, Cells!Nothing, Nothing, Cells!Zero, Zero, Cells!Plus, SumOf,
         Cells!Added, Delta

\* Agrees(c, v): the two descriptions of call c on value v give the same.
Agrees(c, v) == /\ EffectOf(c, v).left = Cells!After(c, v)
                /\ EffectOf(c, v).told = Cells!Told(c, v)

LEMMA AtomicAgrees ==
  ASSUME NEW v, IsValue(v), NEW c, CallOf(v[1], c), c.api \in {"Atomic", "LongAdder"}
  PROVE  Agrees(c, v)
<1>1. c.m \in AtomicInteger \cup AtomicLong \cup AtomicReference \cup LongAdder
  BY DEF CallOf
<1>2. c.m = "reset" => v[1] = "J"
  BY DEF CallOf, AtomicInteger, AtomicLong, AtomicReference
<1>3. EffectOf(c, v) = AtomicEffect(c, v)
  BY DEF EffectOf
<1>4. AtomicEffect(c, v).left = Cells!After(c, v)
  BY <1>1, <1>2, SameConstants
     DEF AtomicEffect, Effect, Cells!After, Swap, Adds, Cells!Additions,
         AtomicInteger, AtomicLong, AtomicReference, LongAdder
<1>5. AtomicEffect(c, v).told = Cells!Told(c, v)
  <2>1. CASE c.m \in {"addAndGet", "incrementAndGet", "decrementAndGet"}
    BY <2>1, <1>4 DEF AtomicEffect, Effect, Cells!Told
  <2>2. CASE c.m \notin {"addAndGet", "incrementAndGet", "decrementAndGet"}
    BY <2>2, <1>1
       DEF AtomicEffect, Effect, Cells!Told, True, False,
           AtomicInteger, AtomicLong, AtomicReference, LongAdder
  <2>3. QED
    BY <2>1, <2>2
<1>6. QED
  BY <1>3, <1>4, <1>5 DEF Agrees

LEMMA UnsafeAgrees ==
  ASSUME NEW v, IsValue(v), NEW c, CallOf(v[1], c), c.api = "Unsafe"
  PROVE  Agrees(c, v)
<1>1. /\ c.m \in {"compareAndSet", "getAndSet", "get", "set", "getAndAdd"}
      /\ c.k = v[1]
  BY DEF CallOf
<1>2. UnsafeView(c.k, v) = v /\ ~Foreign(c.k, v)
  BY <1>1 DEF UnsafeView, Foreign
<1>3. EffectOf(c, v) = UnsafeEffect(c, v)
  BY <1>1 DEF EffectOf
<1>4. CASE c.m = "compareAndSet"
  <2>1. UnsafeEffect(c, v) = UnsafeCas(c, v)
    BY <1>4 DEF UnsafeEffect
  <2>2. QED
    <3>1. UnsafeCas(c, v) = IF v = c.x THEN Effect(c.y, True) ELSE Effect(v, False)
      BY <1>2 DEF UnsafeCas
    <3>2. Cells!After(c, v) = (IF v = c.x THEN c.y ELSE v)
      BY <1>4 DEF Cells!After, Cells!Additions
    <3>3. Cells!Told(c, v) = (IF v = c.x THEN True ELSE False)
      BY <1>4 DEF Cells!Told, True, False
    <3>4. QED
      BY <3>1, <3>2, <3>3, <2>1, <1>3 DEF Agrees, Effect
<1>5. CASE c.m = "getAndAdd"
  <2>1. UnsafeEffect(c, v) = UnsafeGetAndAdd(c, v)
    BY <1>5 DEF UnsafeEffect
  <2>2. Cells!Added(c) = c.x[2]
    BY <1>5 DEF Cells!Added
  <2>3. Cells!After(c, v) = SumOf(v, c.x[2])
    BY <1>5, <2>2, SameConstants DEF Cells!After, Cells!Additions
  <2>4. QED
    BY <2>1, <2>3, <1>2, <1>3, <1>5 DEF Agrees, UnsafeGetAndAdd, Effect, Cells!Told
<1>6. CASE c.m = "getAndSet"
  <2>1. UnsafeEffect(c, v) = UnsafeGetAndSet(c, v)
    BY <1>6 DEF UnsafeEffect
  <2>2. QED
    <3>1. UnsafeGetAndSet(c, v) = Effect(c.x, v)
      BY <1>2 DEF UnsafeGetAndSet
    <3>2. Cells!After(c, v) = c.x
      BY <1>6 DEF Cells!After, Cells!Additions
    <3>3. Cells!Told(c, v) = v
      BY <1>6 DEF Cells!Told
    <3>4. QED
      BY <3>1, <3>2, <3>3, <2>1, <1>3 DEF Agrees, Effect
<1>7. CASE c.m \in {"get", "set"}
  <2>1. UnsafeEffect(c, v) = UnsafeGetPut(c, v)
    BY <1>7 DEF UnsafeEffect
  <2>2. QED
    BY <2>1, <1>2, <1>3, <1>7
       DEF Agrees, UnsafeGetPut, Effect, Cells!After, Cells!Told, Cells!Additions
<1>8. QED
  BY <1>1, <1>4, <1>5, <1>6, <1>7

\* A handle refuses the arithmetic its variable has not.
HandleRefuses(c, v) ==
  \/ c.m \in Cells!Additions \cup Cells!Bitwises /\ v[1] \notin {"I", "J"}
  \/ place = "element" /\ v[1] = "F" /\ c.m \notin {"get", "set"}

LEMMA CombineAgrees ==
  ASSUME NEW v, IsValue(v), NEW c, c.m \in {"getAndAdd"} \cup Cells!Bitwises
  PROVE  /\ CombineRmw(c.m, v, c.x) = Cells!After(c, v)
         /\ v = Cells!Told(c, v)
<1>1. CASE c.m = "getAndAdd"
  BY <1>1, SameConstants DEF CombineRmw, Cells!After, Cells!Told, Cells!Additions, Delta, Cells!Added
<1>2. CASE c.m \in Cells!Bitwises
  BY <1>2, SameArithmetic
     DEF CombineRmw, Cells!After, Cells!Told, Cells!Additions, Cells!Bitwises
<1>3. QED
  BY <1>1, <1>2

\* Two values of one kind are equal as values when they are as numbers.
LEMMA SameKindEqual ==
  ASSUME NEW v, NEW w, IsValue(v), IsValue(w), v[1] = w[1]
  PROVE  ValueEqual(v, w) <=> v = w
BY DEF ValueEqual, IsValue

LEMMA HandleAgrees ==
  ASSUME NEW v, IsValue(v), NEW c, CallOf(v[1], c), c.api = "VarHandle"
  PROVE  IF HandleRefuses(c, v)
         THEN EffectOf(c, v).left = v /\ EffectOf(c, v).told = <<"unsupported">>
         ELSE Agrees(c, v)
<1> DEFINE arithmetic == {"getAndAdd"} \cup Cells!Bitwises
<1>1. c.m \in {"get", "set", "getAndSet", "compareAndSet", "compareAndExchange"} \cup arithmetic
  BY DEF CallOf, AccessModes, Cells!Bitwises
<1>2. c.m \in arithmetic <=> c.m \in Cells!Additions \cup Cells!Bitwises
  BY <1>1 DEF Cells!Bitwises, Cells!Additions
<1>3. c.m \in arithmetic <=> c.m \notin {"get", "set", "getAndSet", "compareAndSet", "compareAndExchange"}
  BY <1>1 DEF Cells!Bitwises
<1>4. c.m \in {"compareAndSet", "compareAndExchange"} => (ValueEqual(v, c.x) <=> v = c.x)
  BY SameKindEqual DEF CallOf, TwoArguments, NoArgument
<1>5. CASE place # "element"
  <2>1. EffectOf(c, v) = SlotEffect(c, v)
    BY <1>5 DEF EffectOf
  <2>2. CASE c.m \in arithmetic
    <3>1. SlotEffect(c, v) = IF v[1] \in {"I", "J"} THEN Effect(CombineRmw(c.m, v, c.x), v)
                             ELSE Effect(v, <<"unsupported">>)
      BY <2>2, <1>3 DEF SlotEffect
    <3>2. HandleRefuses(c, v) <=> v[1] \notin {"I", "J"}
      BY <2>2, <1>2, <1>5 DEF HandleRefuses
    <3>3. QED
      BY <3>1, <3>2, <2>1, <2>2, CombineAgrees DEF Effect, Agrees
  <2>3. CASE c.m \notin arithmetic
    <3>1. ~HandleRefuses(c, v)
      BY <2>3, <1>2, <1>5 DEF HandleRefuses
    <3>2. Agrees(c, v)
      BY <2>1, <2>3, <1>1, <1>4 DEF SlotEffect, Effect, Agrees, Cells!After, Cells!Told,
                               Cells!Additions, True, False
    <3>3. QED
      BY <3>1, <3>2
  <2>4. QED
    BY <2>2, <2>3
<1>6. CASE place = "element"
  <2> DEFINE plain == IntElementEffect(c, v)
  <2>1. EffectOf(c, v) = ElementEffect(c, v)
    BY <1>6 DEF EffectOf
  <2>2. c.m \notin arithmetic => plain.left = Cells!After(c, v) /\ plain.told = Cells!Told(c, v)
    BY <1>1 DEF IntElementEffect, Effect, Swap, Cells!After, Cells!Told, Cells!Additions, True, False
  <2>3. c.m \in arithmetic => plain.left = Cells!After(c, v) /\ plain.told = Cells!Told(c, v)
    BY <1>3, CombineAgrees DEF IntElementEffect, Effect
  <2> HIDE DEF plain
  <2>4. CASE v[1] \in {"I", "J"}
    <3>1. ElementEffect(c, v) = plain
      BY <2>4 DEF ElementEffect, LongElementEffect, plain
    <3>2. ~HandleRefuses(c, v)
      BY <2>4 DEF HandleRefuses
    <3>3. QED
      BY <3>1, <3>2, <2>1, <2>2, <2>3 DEF Agrees
  <2>5. CASE v[1] = "A"
    <3>1. ElementEffect(c, v) = IF c.m \notin arithmetic THEN plain ELSE Effect(v, <<"unsupported">>)
      BY <2>5, <1>3 DEF ElementEffect, ReferenceElementEffect, plain
    <3>2. HandleRefuses(c, v) <=> c.m \in arithmetic
      BY <2>5, <1>2 DEF HandleRefuses
    <3>3. QED
      BY <3>1, <3>2, <2>1, <2>2 DEF Agrees, Effect
  <2>6. CASE v[1] = "F"
    <3>1. ElementEffect(c, v) = IF c.m \in {"get", "set"} THEN plain ELSE Effect(v, <<"unsupported">>)
      BY <2>6 DEF ElementEffect, FloatElementEffect, plain
    <3>2. HandleRefuses(c, v) <=> c.m \notin {"get", "set"}
      BY <2>6, <1>2, <1>3, <1>6 DEF HandleRefuses
    <3>3. c.m \in {"get", "set"} => c.m \notin arithmetic
      BY <1>3
    <3>4. QED
      BY <3>1, <3>2, <3>3, <2>1, <2>2 DEF Agrees, Effect
  <2>7. QED
    BY <2>4, <2>5, <2>6 DEF IsValue, Kinds
<1>7. QED
  BY <1>5, <1>6


-----------------------------------------------------------------------------
(* The inductive invariant.                                                *)

Asks(t) == call[t] # NoCall

\* What a thread has found, asked and been told is what its place in the call says.
CallInv(t) ==
  /\ Asks(t) => CallOf(slot[1], call[t])
  /\ section[t] \in 0 .. 2
  /\ ~Asks(t) => section[t] = 0 /\ seen[t] = Nothing /\ answer[t] = Nothing
  /\ section[t] > 0 => section[t] <= Sections(call[t]) /\ answer[t] = Nothing
  /\ Asks(t) /\ section[t] = 0 => answer[t] # Nothing

\* The mutex protects what was read under it: in its first section a thread has
\* the value of the slot, before it nothing, after it a value.
LockInv(t) ==
  /\ section[t] > 0 /\ section[t] = Sections(call[t]) /\ lock # t => seen[t] = Nothing
  /\ lock = t => section[t] > 0 /\ call[t].at # "null"
  /\ lock = t /\ section[t] = Sections(call[t]) => seen[t] = slot
  /\ section[t] > 0 /\ section[t] < Sections(call[t]) => IsValue(seen[t]) /\ seen[t][1] = slot[1]

AccessInv ==
  /\ place \in {"field", "element", "static"}
  /\ IsValue(slot)
  /\ lock \in Accessor \cup {"free", "poisoned"}
  /\ lock = "poisoned" => \E u \in Accessor : answer[u] = <<"panic">>
  /\ call = [t \in Accessor |-> call[t]]
  /\ section = [t \in Accessor |-> section[t]]
  /\ seen = [t \in Accessor |-> seen[t]]
  /\ answer = [t \in Accessor |-> answer[t]]
  /\ \A t \in Accessor : CallInv(t) /\ LockInv(t)


LEMMA AccessInitInv == AccessInit => AccessInv
<1> SUFFICES ASSUME AccessInit PROVE AccessInv
  OBVIOUS
<1>1. IsValue(slot)
  BY DEF AccessInit, IsValue, Kinds, Zero
<1>2. \A t \in Accessor : lock # t
  BY AccessorAssumption DEF AccessInit
<1>3. \A t \in Accessor : CallInv(t) /\ LockInv(t)
  BY <1>2 DEF AccessInit, CallInv, LockInv, Asks
<1>4. QED
  BY <1>1, <1>3 DEF AccessInit, AccessInv

\* A value and the words of an answer are not Nothing.
LEMMA Answers ==
  /\ \A v : IsValue(v) => v # Nothing
  /\ \A w \in {<<"void">>, <<"unsupported">>, <<"panic">>, <<"NullPointerException">>,
               <<"ArrayIndexOutOfBoundsException">>} : w # Nothing
  /\ IsValue(True) /\ IsValue(False)
<1>1. ASSUME NEW v, IsValue(v) PROVE v # Nothing
  <2>1. DOMAIN Nothing = {1}
    BY DEF Nothing
  <2>2. DOMAIN <<v[1], v[2]>> = {1, 2}
    OBVIOUS
  <2>3. QED
    BY <2>1, <2>2, <1>1 DEF IsValue
<1>2. QED
  BY <1>1 DEF Nothing, True, False, IsValue, Kinds

\* The variable keeps its kind.
LEMMA EffectKinds ==
  ASSUME NEW v, IsValue(v), NEW c, CallOf(v[1], c)
  PROVE  /\ IsValue(EffectOf(c, v).left) /\ EffectOf(c, v).left[1] = v[1]
         /\ EffectOf(c, v).told # Nothing
<1>1. IsValue(Zero(v[1])) /\ Zero(v[1])[1] = v[1]
  BY DEF IsValue, Zero
<1>2. \A n : IsValue(SumOf(v, n)) /\ SumOf(v, n)[1] = v[1]
  BY DEF IsValue, SumOf
<1>3. c.m \in {"set", "getAndSet", "compareAndSet", "compareAndExchange"} =>
        IsValue(c.x) /\ c.x[1] = v[1]
  BY DEF CallOf, NoArgument
<1>4. c.m \in {"compareAndSet", "compareAndExchange"} => IsValue(c.y) /\ c.y[1] = v[1]
  BY DEF CallOf, TwoArguments
<1>5. \A d : IsValue(<<v[1], d>>) /\ <<v[1], d>>[1] = v[1]
  BY DEF IsValue
<1>6. IsValue(Cells!After(c, v)) /\ Cells!After(c, v)[1] = v[1]
  <2>1. CASE c.m \in {"set", "getAndSet"}
    BY <2>1, <1>3 DEF Cells!After, Cells!Additions
  <2>2. CASE c.m = "reset"
    BY <2>2, <1>1, SameConstants DEF Cells!After, Cells!Additions
  <2>3. CASE c.m \in {"compareAndSet", "compareAndExchange"}
    BY <2>3, <1>3, <1>4 DEF Cells!After, Cells!Additions
  <2>4. CASE c.m \in Cells!Additions
    <3>1. Cells!After(c, v) = SumOf(v, Cells!Added(c))
      BY <2>4, SameConstants DEF Cells!After, Cells!Additions
    <3>2. QED
      BY <3>1, <1>2
  <2>5. CASE c.m \in Cells!Bitwises
    <3>1. \/ Cells!After(c, v) = <<v[1], Cells!OrOf(v[1], v[2], c.x[2])>>
          \/ Cells!After(c, v) = <<v[1], Cells!AndOf(v[1], v[2], c.x[2])>>
          \/ Cells!After(c, v) = <<v[1], Cells!XorOf(v[1], v[2], c.x[2])>>
      BY <2>5 DEF Cells!After, Cells!Additions, Cells!Bitwises
    <3>2. QED
      BY <3>1, <1>5
  <2>6. CASE c.m \notin {"set", "getAndSet", "reset", "compareAndSet", "compareAndExchange"}
                          \cup Cells!Additions \cup Cells!Bitwises
    BY <2>6 DEF Cells!After, Cells!Bitwises
  <2>7. QED
    BY <2>1, <2>2, <2>3, <2>4, <2>5, <2>6
<1>7. Cells!Told(c, v) # Nothing
  <2>1. Cells!Told(c, v) \in {<<"void">>, <<"I", 1>>, <<"I", 0>>, Cells!After(c, v), v}
    BY DEF Cells!Told
  <2>2. QED
    BY <2>1, <1>6, Answers DEF True, False
<1>8. CASE c.api \in {"Atomic", "LongAdder"}
  BY <1>8, AtomicAgrees, <1>6, <1>7 DEF Agrees
<1>9. CASE c.api = "Unsafe"
  BY <1>9, UnsafeAgrees, <1>6, <1>7 DEF Agrees
<1>10. CASE c.api = "VarHandle"
  <2>1. CASE HandleRefuses(c, v)
    BY <2>1, <1>10, HandleAgrees, Answers
  <2>2. CASE ~HandleRefuses(c, v)
    BY <2>2, <1>10, HandleAgrees, <1>6, <1>7 DEF Agrees
  <2>3. QED
    BY <2>1, <2>2
<1>11. QED
  BY <1>8, <1>9, <1>10 DEF CallOf


\* What the inductive invariant says of the thread that takes a step.
LEMMA Caller ==
  ASSUME AccessInv, NEW t \in Accessor, section[t] > 0
  PROVE  /\ Asks(t) /\ CallOf(slot[1], call[t]) /\ answer[t] = Nothing
         /\ Sections(call[t]) \in {1, 2} /\ section[t] \in {1, 2}
         /\ section[t] <= Sections(call[t])
         /\ Sections(call[t]) = 2 => /\ call[t].api = "Atomic" /\ call[t].m = "getAndSet"
                                     /\ call[t].at = "there"
         /\ lock = t => /\ IsValue(seen[t]) /\ seen[t][1] = slot[1]
                        /\ section[t] = Sections(call[t]) => seen[t] = slot
<1>1. CallInv(t) /\ LockInv(t) /\ IsValue(slot)
  BY DEF AccessInv
<1>2. Asks(t) /\ CallOf(slot[1], call[t]) /\ answer[t] = Nothing
  BY <1>1 DEF CallInv
<1>3. Sections(call[t]) \in {1, 2} /\ section[t] \in {1, 2} /\ section[t] <= Sections(call[t])
  BY <1>1 DEF CallInv, Sections
<1>4. Sections(call[t]) = 2 => /\ call[t].api = "Atomic" /\ call[t].m = "getAndSet"
                               /\ call[t].at = "there"
  BY <1>2 DEF Sections, CallOf
<1>5. lock = t => /\ IsValue(seen[t]) /\ seen[t][1] = slot[1]
                  /\ section[t] = Sections(call[t]) => seen[t] = slot
  BY <1>1, <1>3 DEF LockInv
<1>6. QED
  BY <1>2, <1>3, <1>4, <1>5

\* The end of a call: outside the mutex or leaving it.
Concludes(t, a) ==
  /\ Tell(t, a) /\ a # Nothing /\ section[t] > 0
  /\ UNCHANGED <<place, call, seen>>
  /\ IsValue(slot') /\ slot'[1] = slot[1]
  /\ \/ lock # t /\ UNCHANGED <<lock, slot>>
     \/ lock = t /\ lock' = "free"
     \/ lock = t /\ lock' = "poisoned" /\ a = <<"panic">>

LEMMA TellInv ==
  ASSUME AccessInv, NEW t \in Accessor, NEW a, Concludes(t, a)
  PROVE  AccessInv'
<1> USE DEF Concludes
<1>1. /\ answer' = [answer EXCEPT ![t] = a] /\ section' = [section EXCEPT ![t] = 0]
      /\ call' = call /\ seen' = seen /\ place' = place
  BY DEF Tell
<1>2. /\ answer = [w \in Accessor |-> answer[w]] /\ section = [w \in Accessor |-> section[w]]
      /\ call = [w \in Accessor |-> call[w]] /\ seen = [w \in Accessor |-> seen[w]]
  BY DEF AccessInv
<1>3. /\ answer'[t] = a /\ section'[t] = 0
      /\ \A w \in Accessor \ {t} : answer'[w] = answer[w] /\ section'[w] = section[w]
  BY <1>1, <1>2
<1>4. lock' \in Accessor \cup {"free", "poisoned"} /\ lock' # t
  BY AccessorAssumption DEF AccessInv
<1>5. lock' = "poisoned" => \E u \in Accessor : answer'[u] = <<"panic">>
  <2> SUFFICES ASSUME lock' = "poisoned" PROVE \E u \in Accessor : answer'[u] = <<"panic">>
    OBVIOUS
  <2>1. CASE a = <<"panic">>
    BY <2>1, <1>3
  <2>2. CASE lock = "poisoned"
    <3>1. PICK u \in Accessor : answer[u] = <<"panic">>
      BY <2>2 DEF AccessInv
    <3>2. answer[t] = Nothing
      BY Caller
    <3>3. u # t
      BY <3>1, <3>2, Answers
    <3>4. QED
      BY <3>1, <3>3, <1>3
  <2>3. QED
    BY <2>1, <2>2
<1>6. ASSUME NEW w \in Accessor PROVE CallInv(w)' /\ LockInv(w)'
  <2>1. CallInv(w) /\ LockInv(w)
    BY DEF AccessInv
  <2>2. CallOf(slot[1], call[w]) => CallOf(slot[1], call[w])'
    BY <1>1 DEF CallOf
  <2>3. CASE w = t
    <3>1. Asks(t) /\ CallOf(slot[1], call[t])
      BY Caller
    <3>2. CallInv(w)'
      BY <2>2, <2>3, <3>1, <1>1, <1>3 DEF CallInv, Asks
    <3>3. LockInv(w)'
      BY <2>3, <1>3, <1>4 DEF LockInv
    <3>4. QED
      BY <3>2, <3>3
  <2>4. CASE w # t
    <3>1. answer'[w] = answer[w] /\ section'[w] = section[w] /\ call'[w] = call[w] /\ seen'[w] = seen[w]
      BY <2>4, <1>1, <1>3
    <3>2. CallInv(w)'
      BY <2>1, <2>2, <3>1 DEF CallInv, Asks
    <3>3. lock' = w => lock = w /\ slot' = slot
      BY <2>4, AccessorAssumption
    <3>4. lock = w => lock' = w
      BY <2>4
    <3>5. LockInv(w)'
      BY <2>1, <3>1, <3>3, <3>4 DEF LockInv
    <3>6. QED
      BY <3>2, <3>5
  <2>5. QED
    BY <2>3, <2>4
<1>7. QED
  BY <1>1, <1>2, <1>4, <1>5, <1>6 DEF AccessInv

LEMMA LockStepInv ==
  ASSUME AccessInv, NEW t \in Accessor, UNCHANGED <<place, slot, checks, call, answer>>,
         Enter(t) \/ LeaveFirst(t)
  PROVE  AccessInv'
<1>1. section[t] > 0
  <2>1. lock = t => section[t] > 0
    BY DEF AccessInv, LockInv
  <2>2. QED
    BY <2>1 DEF Enter, LeaveFirst, Waiting
<1>2. /\ answer = [w \in Accessor |-> answer[w]] /\ section = [w \in Accessor |-> section[w]]
      /\ call = [w \in Accessor |-> call[w]] /\ seen = [w \in Accessor |-> seen[w]]
  BY DEF AccessInv
<1>3. ASSUME NEW w \in Accessor PROVE CallOf(slot[1], call[w]) => CallOf(slot[1], call[w])'
  BY DEF CallOf
<1>4. /\ \A w \in Accessor \ {t} : section'[w] = section[w] /\ seen'[w] = seen[w]
      /\ section' = [w \in Accessor |-> section'[w]] /\ seen' = [w \in Accessor |-> seen'[w]]
  BY <1>2 DEF Enter, LeaveFirst
<1>5. \/ lock = "free" /\ lock' = t
      \/ lock = t /\ lock' = "free"
  BY DEF Enter, LeaveFirst
<1>6. ASSUME NEW w \in Accessor, w # t PROVE CallInv(w)' /\ LockInv(w)'
  <2>1. CallInv(w) /\ LockInv(w)
    BY DEF AccessInv
  <2>2. section'[w] = section[w] /\ seen'[w] = seen[w]
    BY <1>4, <1>6
  <2>3. lock # w /\ lock' # w
    BY <1>5, <1>6, AccessorAssumption
  <2>4. CallInv(w)'
    BY <2>1, <2>2, <1>3 DEF CallInv, Asks
  <2>5. LockInv(w)'
    BY <2>1, <2>2, <2>3 DEF LockInv
  <2>6. QED
    BY <2>4, <2>5
<1>7. CallInv(t)' /\ LockInv(t)'
  <2>1. CallInv(t) /\ LockInv(t)
    BY DEF AccessInv
  <2>2. CASE Enter(t)
    <3>1. section' = section /\ call[t].at # "null" /\ lock # t /\ lock' = t
      BY <2>2 DEF Enter, Waiting
    <3>2. CallInv(t)'
      BY <2>1, <3>1, <1>1, <1>3, Caller DEF CallInv, Asks
    <3>3. seen'[t] = IF seen[t] = Nothing THEN slot ELSE seen[t]
      BY <2>2, <1>2 DEF Enter
    <3>4. IsValue(slot)
      BY DEF AccessInv
    <3>5. section[t] = Sections(call[t]) => seen'[t] = slot
      BY <2>1, <3>1, <3>3, <1>1 DEF LockInv
    <3>6. section[t] < Sections(call[t]) => seen'[t] = seen[t]
      BY <2>1, <3>3, <1>1, Answers DEF LockInv
    <3>7. LockInv(t)'
      <4>1. IsValue(seen[t])' <=> IsValue(seen'[t])
        BY DEF IsValue
      <4>2. QED
        BY <2>1, <3>1, <3>5, <3>6, <1>1, <4>1 DEF LockInv
    <3>8. QED
      BY <3>2, <3>7
  <2>3. CASE LeaveFirst(t)
    <3>1. section[t] = 2 /\ section'[t] = 1 /\ seen' = seen /\ lock = t /\ lock' # t
      BY <2>3, <1>2, AccessorAssumption DEF LeaveFirst
    <3>2. /\ Asks(t) /\ CallOf(slot[1], call[t]) /\ answer[t] = Nothing
          /\ Sections(call[t]) = 2 /\ IsValue(seen[t]) /\ seen[t][1] = slot[1]
      BY <3>1, <1>1, Caller
    <3>3. CallInv(t)'
      BY <3>1, <3>2, <1>3 DEF CallInv, Asks
    <3>4. LockInv(t)'
      BY <3>1, <3>2 DEF LockInv
    <3>5. QED
      BY <3>3, <3>4
  <2>4. QED
    BY <2>2, <2>3
<1>8. lock' # "poisoned" /\ lock' \in Accessor \cup {"free", "poisoned"}
  BY <1>5, AccessorAssumption
<1>9. QED
  BY <1>2, <1>4, <1>6, <1>7, <1>8 DEF AccessInv


LEMMA AccessStepInv ==
  ASSUME AccessInv, [AccessNext]_avars
  PROVE  AccessInv'
<1>1. CASE UNCHANGED avars
  BY <1>1 DEF avars, AccessInv, CallInv, LockInv, Asks, CallOf, IsValue
<1>2. CASE AccessNext
  <2>1. PICK t \in Accessor :
          \/ Invoke(t) \/ RefuseNull(t) \/ Enter(t) \/ EnterPoisoned(t)
          \/ OutOfRange(t) \/ Overflow(t) \/ LeaveFirst(t) \/ Leave(t)
    BY <1>2 DEF AccessNext
  <2>2. IsValue(slot)
    BY DEF AccessInv
  <2>3. lock = t => section[t] > 0
    BY DEF AccessInv, LockInv
  <2>4. CASE Invoke(t)
    <3>1. PICK c \in KindCalls(slot[1], place) :
            /\ call' = [call EXCEPT ![t] = c]
            /\ section' = [section EXCEPT ![t] = Sections(c)]
      BY <2>4 DEF Invoke
    <3>2. /\ call[t] = NoCall
          /\ UNCHANGED <<place, slot, checks, lock, seen, answer>>
      BY <2>4 DEF Invoke
    <3>3. CallOf(slot[1], c)
      BY CallShape DEF AccessInv, IsValue
    <3>4. c # NoCall
      BY <3>3 DEF CallOf, NoCall
    <3>5. /\ answer = [w \in Accessor |-> answer[w]] /\ section = [w \in Accessor |-> section[w]]
          /\ call = [w \in Accessor |-> call[w]] /\ seen = [w \in Accessor |-> seen[w]]
      BY DEF AccessInv
    <3>6. ASSUME NEW w \in Accessor PROVE CallInv(w)' /\ LockInv(w)'
      <4>1. CallInv(w) /\ LockInv(w)
        BY DEF AccessInv
      <4>2. \A b : CallOf(slot[1], b) => CallOf(slot[1], b)'
        BY <3>2 DEF CallOf
      <4>3. CASE w = t
        <5>1. call'[w] = c /\ section'[w] = Sections(c) /\ Sections(c) \in {1, 2}
          BY <4>3, <3>1, <3>5 DEF Sections
        <5>2. section[w] = 0 /\ seen[w] = Nothing /\ answer[w] = Nothing /\ lock # w
          BY <4>1, <4>3, <3>2 DEF CallInv, LockInv, Asks
        <5>3. CallInv(w)'
          BY <5>1, <5>2, <4>2, <3>2, <3>3, <3>4 DEF CallInv, Asks, CallOf
        <5>4. LockInv(w)'
          BY <5>1, <5>2, <3>2 DEF LockInv
        <5>5. QED
          BY <5>3, <5>4
      <4>4. CASE w # t
        <5>1. call'[w] = call[w] /\ section'[w] = section[w]
          BY <4>4, <3>1, <3>5
        <5>2. CallInv(w)'
          BY <5>1, <4>1, <4>2, <3>2 DEF CallInv, Asks, CallOf
        <5>3. LockInv(w)'
          BY <5>1, <4>1, <3>2 DEF LockInv, IsValue
        <5>4. QED
          BY <5>2, <5>3
      <4>5. QED
        BY <4>3, <4>4
    <3>7. QED
      BY <3>1, <3>2, <3>5, <3>6 DEF AccessInv, IsValue
  <2>5. CASE RefuseNull(t)
    <3>1. /\ Tell(t, <<"NullPointerException">>) /\ section[t] > 0 /\ lock # t
          /\ UNCHANGED <<place, slot, checks, lock, call, seen>>
      BY <2>5 DEF RefuseNull, Waiting
    <3>2. QED
      BY <3>1, <2>2, TellInv, Answers DEF Concludes
  <2>6. CASE EnterPoisoned(t)
    <3>1. /\ Tell(t, <<"panic">>) /\ section[t] > 0 /\ lock # t
          /\ UNCHANGED <<place, slot, checks, lock, call, seen>>
      BY <2>6 DEF EnterPoisoned, Waiting
    <3>2. QED
      BY <3>1, <2>2, TellInv, Answers DEF Concludes
  <2>7. CASE OutOfRange(t)
    <3>1. /\ Tell(t, <<"ArrayIndexOutOfBoundsException">>) /\ section[t] > 0 /\ lock = t
          /\ lock' = "free" /\ UNCHANGED <<place, slot, checks, call, seen>>
      BY <2>7, <2>3 DEF OutOfRange
    <3>2. IsValue(slot') /\ slot'[1] = slot[1] /\ lock' # "poisoned"
      BY <3>1, <2>2
    <3>3. <<"ArrayIndexOutOfBoundsException">> # Nothing
      BY Answers
    <3>4. QED
      <4>1. Concludes(t, <<"ArrayIndexOutOfBoundsException">>)
        BY <3>1, <3>2, <3>3 DEF Concludes
      <4>2. QED
        BY <4>1, TellInv
  <2>8. CASE Overflow(t)
    <3>1. /\ Tell(t, <<"panic">>) /\ section[t] > 0 /\ lock = t
          /\ lock' = "poisoned" /\ UNCHANGED <<place, slot, checks, call, seen>>
      BY <2>8, <2>3 DEF Overflow
    <3>2. IsValue(slot') /\ slot'[1] = slot[1]
      BY <3>1, <2>2
    <3>3. <<"panic">> # Nothing
      BY Answers
    <3>4. QED
      <4>1. Concludes(t, <<"panic">>)
        BY <3>1, <3>2, <3>3 DEF Concludes
      <4>2. QED
        BY <4>1, TellInv
  <2>9. CASE Leave(t)
    <3> DEFINE e == EffectOf(call[t], seen[t])
    <3>1. /\ Tell(t, e.told) /\ section[t] > 0 /\ lock = t /\ slot' = e.left
          /\ lock' = "free" /\ UNCHANGED <<place, checks, call, seen>>
      BY <2>9, <2>3 DEF Leave
    <3>2. IsValue(seen[t]) /\ seen[t][1] = slot[1] /\ CallOf(seen[t][1], call[t])
      BY <3>1, Caller
    <3>3. IsValue(e.left) /\ e.left[1] = slot[1] /\ e.told # Nothing
      BY <3>2, EffectKinds
    <3>4. IsValue(slot') /\ slot'[1] = slot[1] /\ lock' # "poisoned"
      BY <3>1, <3>3
    <3>5. PICK a : a = e.told
      OBVIOUS
    <3>6. Tell(t, a) /\ a # Nothing
      BY <3>1, <3>3, <3>5
    <3> HIDE DEF e
    <3>7. Concludes(t, a)
      BY <3>1, <3>4, <3>6 DEF Concludes
    <3>8. QED
      BY <3>7, TellInv
  <2>10. CASE Enter(t) \/ LeaveFirst(t)
    BY <2>10, LockStepInv DEF Enter, LeaveFirst
  <2>11. QED
    BY <2>1, <2>4, <2>5, <2>6, <2>7, <2>8, <2>9, <2>10
<1>3. QED
  BY <1>1, <1>2

\* The mutex and the sections of the calls keep what a call has read valid until
\* it acts on it, and the threads that meet a poisoned mutex have one to blame.
THEOREM AccessInvariant == AccessSpec => []AccessInv
<1>1. AccessInit => AccessInv
  BY AccessInitInv
<1>2. AccessInv /\ [AccessNext]_avars => AccessInv'
  BY AccessStepInv
<1>3. QED
  BY <1>1, <1>2, PTL DEF AccessSpec

-----------------------------------------------------------------------------
(* Refinement.                                                             *)

EarlyOf(t) == IF call[t] # NoCall /\ Sections(call[t]) = 2 /\ section[t] = 1
              THEN seen[t] ELSE Nothing
early == [t \in Accessor |-> EarlyOf(t)]

LEMMA InitImplements == AccessInit => Cells!Init
<1> SUFFICES ASSUME AccessInit PROVE Cells!Init
  OBVIOUS
<1>1. \A t \in Accessor : EarlyOf(t) = Nothing
  BY DEF AccessInit, EarlyOf
<1>2. QED
  BY <1>1, SameConstants, SameArithmetic DEF AccessInit, Cells!Init, EarlyOf

\* A thread that is told something leaves no early value behind.
LEMMA TellImplements ==
  ASSUME AccessInv, NEW t \in Accessor, NEW a, Tell(t, a), section[t] > 0,
         UNCHANGED <<place, call, seen>>
  PROVE  Cells!Pending(t) /\ Cells!Answer(t, a)
<1>1. call[t] # NoCall /\ answer[t] = Nothing
  BY Caller DEF Asks
<1>2. section = [w \in Accessor |-> section[w]]
  BY DEF AccessInv
<1>3. section'[t] = 0 /\ \A w \in Accessor \ {t} : section'[w] = section[w]
  BY <1>2 DEF Tell
<1>4. EarlyOf(t)' = Nothing
  BY <1>3 DEF EarlyOf
<1>5. \A w \in Accessor \ {t} : EarlyOf(w)' = EarlyOf(w)
  BY <1>3 DEF EarlyOf
<1>6. early' = [early EXCEPT ![t] = Nothing]
  BY <1>4, <1>5 DEF early
<1>7. QED
  BY <1>1, <1>6, SameConstants DEF Cells!Pending, Cells!Answer, Tell, early, EarlyOf

LEMMA StepImplements ==
  ASSUME AccessInv, [AccessNext]_avars
  PROVE  [Cells!Next]_Cells!cellVars
<1>1. CASE UNCHANGED avars
  BY <1>1 DEF avars, Cells!cellVars
<1>2. CASE AccessNext
  <2>1. PICK t \in Accessor :
          \/ Invoke(t) \/ RefuseNull(t) \/ Enter(t) \/ EnterPoisoned(t)
          \/ OutOfRange(t) \/ Overflow(t) \/ LeaveFirst(t) \/ Leave(t)
    BY <1>2 DEF AccessNext
  <2>2. lock = t => section[t] > 0
    BY DEF AccessInv, LockInv
  <2>3. /\ call = [w \in Accessor |-> call[w]] /\ section = [w \in Accessor |-> section[w]]
        /\ seen = [w \in Accessor |-> seen[w]]
    BY DEF AccessInv
  <2>4. CASE Invoke(t)
    <3>1. PICK c \in KindCalls(slot[1], place) :
            /\ call' = [call EXCEPT ![t] = c]
            /\ section' = [section EXCEPT ![t] = Sections(c)]
      BY <2>4 DEF Invoke
    <3>2. /\ call[t] = NoCall
          /\ UNCHANGED <<place, slot, checks, lock, seen, answer>>
      BY <2>4 DEF Invoke
    <3>3. c \in AllCalls[place] /\ call'[t] = c
      BY <3>1, <2>3 DEF AllCalls, AccessInv, IsValue, Kinds
    <3>4. early' = early
      <4>1. EarlyOf(t) = Nothing /\ EarlyOf(t)' = Nothing
        BY <3>1, <3>2, <2>3 DEF EarlyOf, Sections
      <4>2. \A w \in Accessor \ {t} : EarlyOf(w)' = EarlyOf(w)
        BY <3>1, <3>2, <2>3 DEF EarlyOf
      <4>3. QED
        BY <4>1, <4>2 DEF early
    <3>5. Cells!Ask(t)
      BY <3>1, <3>2, <3>3, <3>4, SameConstants DEF Cells!Ask, early, EarlyOf
    <3>6. QED
      BY <3>5 DEF Cells!Next
  <2>5. CASE RefuseNull(t)
    <3>1. /\ Tell(t, <<"NullPointerException">>) /\ section[t] > 0 /\ call[t].at = "null"
          /\ UNCHANGED <<place, slot, checks, lock, call, seen>>
      BY <2>5 DEF RefuseNull, Waiting
    <3>2. Cells!Throw(t)
      BY <3>1, TellImplements DEF Cells!Throw
    <3>3. QED
      BY <3>2 DEF Cells!Next
  <2>6. CASE OutOfRange(t)
    <3>1. /\ Tell(t, <<"ArrayIndexOutOfBoundsException">>) /\ section[t] > 0
          /\ call[t].at = "outside" /\ UNCHANGED <<place, slot, checks, call, seen>>
      BY <2>6, <2>2 DEF OutOfRange
    <3>2. Cells!Throw(t)
      BY <3>1, TellImplements DEF Cells!Throw
    <3>3. QED
      BY <3>2 DEF Cells!Next
  <2>7. CASE EnterPoisoned(t)
    <3>1. /\ Tell(t, <<"panic">>) /\ section[t] > 0 /\ lock = "poisoned"
          /\ UNCHANGED <<place, slot, checks, lock, call, seen>>
      BY <2>7 DEF EnterPoisoned, Waiting
    <3>2. \E u \in Accessor : answer[u] = <<"panic">>
      BY <3>1 DEF AccessInv
    <3>3. Cells!Die(t)
      BY <3>1, <3>2, TellImplements DEF Cells!Die
    <3>4. QED
      BY <3>3 DEF Cells!Next
  <2>8. CASE Overflow(t)
    <3>1. /\ Tell(t, <<"panic">>) /\ section[t] > 0 /\ lock = t /\ Overflows(call[t], seen[t])
          /\ UNCHANGED <<place, slot, checks, call, seen>>
      BY <2>8, <2>2 DEF Overflow
    <3>2. call[t].api \in {"Atomic", "LongAdder"} /\ Adds(call[t])
      BY <3>1 DEF Overflows
    <3>3. Sections(call[t]) = 1
      BY <3>2 DEF Sections, Adds
    <3>4. seen[t] = slot
      BY <3>1, <3>3, Caller
    <3>5. slot[2] + Cells!Added(call[t]) \notin Cells!IntsOf(slot[1])
      BY <3>1, <3>4, SameConstants, SameArithmetic DEF Overflows
    <3>6. Cells!Die(t)
      BY <3>1, <3>2, <3>5, SameConstants, TellImplements DEF Cells!Die
    <3>7. QED
      BY <3>6 DEF Cells!Next
  <2>9. CASE Enter(t)
    <3>1. /\ section[t] > 0 /\ lock # t
          /\ UNCHANGED <<place, slot, checks, call, section, answer>>
          /\ seen' = [seen EXCEPT ![t] = IF @ = Nothing THEN slot ELSE @]
      BY <2>9 DEF Enter, Waiting
    <3>2. EarlyOf(t)' = EarlyOf(t)
      <4>1. CASE Sections(call[t]) = 2 /\ section[t] = 1
        <5>1. IsValue(seen[t])
          BY <4>1 DEF AccessInv, LockInv
        <5>2. QED
          BY <5>1, <4>1, <3>1, <2>3, Answers DEF EarlyOf
      <4>2. CASE ~(Sections(call[t]) = 2 /\ section[t] = 1)
        BY <4>2, <3>1 DEF EarlyOf
      <4>3. QED
        BY <4>1, <4>2
    <3>3. \A w \in Accessor \ {t} : EarlyOf(w)' = EarlyOf(w)
      BY <3>1, <2>3 DEF EarlyOf
    <3>4. early' = early
      BY <3>2, <3>3 DEF early
    <3>5. QED
      BY <3>1, <3>4 DEF Cells!cellVars, early, EarlyOf
  <2>10. CASE LeaveFirst(t)
    <3>1. /\ lock = t /\ section[t] = 2 /\ section' = [section EXCEPT ![t] = 1]
          /\ UNCHANGED <<place, slot, checks, call, seen, answer>>
      BY <2>10 DEF LeaveFirst
    <3>2. /\ Asks(t) /\ answer[t] = Nothing /\ Sections(call[t]) = 2 /\ seen[t] = slot
          /\ call[t].api = "Atomic" /\ call[t].m = "getAndSet"
      BY <3>1, <2>2, Caller
    <3>3. EarlyOf(t) = Nothing /\ EarlyOf(t)' = slot
      BY <3>1, <3>2, <2>3 DEF EarlyOf, Asks
    <3>4. \A w \in Accessor \ {t} : EarlyOf(w)' = EarlyOf(w)
      BY <3>1, <2>3 DEF EarlyOf
    <3>5. early' = [early EXCEPT ![t] = slot] /\ early[t] = Nothing
      BY <3>3, <3>4 DEF early
    <3>6. Cells!TakeRead(t)
      BY <3>1, <3>2, <3>5, SameConstants
         DEF Cells!TakeRead, Cells!Pending, Cells!TwoInstants, Asks, early, EarlyOf
    <3>7. QED
      BY <3>6 DEF Cells!Next
  <2>11. CASE Leave(t)
    <3> DEFINE c == call[t]
               e == EffectOf(c, seen[t])
    <3>1. /\ lock = t /\ section[t] = 1 /\ c.at = "there" /\ section[t] > 0
          /\ slot' = e.left /\ Tell(t, e.told)
          /\ UNCHANGED <<place, checks, call, seen>>
      BY <2>11 DEF Leave, Here
    <3>2. /\ Asks(t) /\ CallOf(slot[1], c) /\ Sections(c) \in {1, 2}
          /\ IsValue(seen[t]) /\ seen[t][1] = slot[1]
          /\ section[t] = Sections(c) => seen[t] = slot
          /\ Sections(c) = 2 => c.api = "Atomic" /\ c.m = "getAndSet"
      BY <3>1, Caller
    <3>3. Cells!Pending(t) /\ Cells!Answer(t, e.told)
      <4>1. PICK a : a = e.told
        OBVIOUS
      <4>2. Tell(t, a)
        BY <3>1, <4>1
      <4> HIDE DEF e
      <4>3. Cells!Pending(t) /\ Cells!Answer(t, a)
        BY <3>1, <4>2, TellImplements
      <4>4. QED
        BY <4>1, <4>3 DEF Cells!Answer
    <3>4. CASE Sections(c) = 2
      <4>1. Agrees(c, seen[t])
        BY <3>2, <3>4, AtomicAgrees
      <4>2. e.left = c.x /\ e.told = seen[t]
        BY <4>1, <3>2, <3>4 DEF Agrees, Cells!After, Cells!Told, Cells!Additions
      <4>3. early[t] = seen[t] /\ seen[t] # Nothing
        BY <3>1, <3>2, <3>4, Answers DEF early, EarlyOf, Asks
      <4>4. Cells!TakeWrite(t)
        BY <3>1, <3>3, <4>2, <4>3, SameConstants DEF Cells!TakeWrite, Cells!Answer, early, EarlyOf
      <4>5. QED
        BY <4>4 DEF Cells!Next
    <3>5. CASE Sections(c) = 1
      <4>1. seen[t] = slot /\ ~Cells!TwoInstants(c)
        BY <3>1, <3>2, <3>5 DEF Cells!TwoInstants, Sections
      <4>2. CASE Cells!Refused(c)
        <5>1. c.api = "VarHandle" /\ HandleRefuses(c, slot)
          BY <4>2 DEF Cells!Refused, HandleRefuses
        <5>2. e.left = slot /\ e.told = <<"unsupported">>
          BY <5>1, <4>1, <3>2, HandleAgrees
        <5>3. Cells!Throw(t)
          BY <3>1, <3>3, <4>2, <5>2 DEF Cells!Throw, Cells!Answer
        <5>4. QED
          BY <5>3 DEF Cells!Next
      <4>3. CASE ~Cells!Refused(c)
        <5>1. Agrees(c, slot)
          <6>1. CASE c.api \in {"Atomic", "LongAdder"}
            BY <6>1, <3>2, <4>1, AtomicAgrees
          <6>2. CASE c.api = "Unsafe"
            BY <6>2, <3>2, <4>1, UnsafeAgrees
          <6>3. CASE c.api = "VarHandle"
            <7>1. ~HandleRefuses(c, slot)
              BY <6>3, <4>3 DEF Cells!Refused, HandleRefuses
            <7>2. QED
              BY <6>3, <7>1, <3>2, <4>1, HandleAgrees
          <6>4. QED
            BY <6>1, <6>2, <6>3, <3>2 DEF CallOf
        <5>2. Cells!Take(t)
          BY <5>1, <3>1, <3>3, <4>1, <4>3 DEF Cells!Take, Cells!Answer, Agrees
        <5>3. QED
          BY <5>2 DEF Cells!Next
      <4>4. QED
        BY <4>2, <4>3
    <3>6. QED
      BY <3>2, <3>4, <3>5
  <2>12. QED
    BY <2>1, <2>4, <2>5, <2>6, <2>7, <2>8, <2>9, <2>10, <2>11
<1>3. QED
  BY <1>1, <1>2

\* Whatever the widths, the threads and their arguments, every call through the
\* atomics, Unsafe or a VarHandle takes effect at one instant (getAndSet of an
\* Atomic class at two) and means what is documented.
THEOREM AccessImplementsCells == AccessSpec => ImplementsCells
<1>1. AccessInit => Cells!Init
  BY InitImplements
<1>2. AccessInv /\ [AccessNext]_avars => [Cells!Next]_Cells!cellVars
  BY StepImplements
<1>3. QED
  BY <1>1, <1>2, AccessInvariant, PTL DEF AccessSpec, ImplementsCells, Cells!Spec

-----------------------------------------------------------------------------
(* Decoding.                                                               *)

LEMMA PaddingIsAlignment ==
  ASSUME NEW at \in 0 .. 3
  PROVE  1 + Padding(at + 1) = Aligned(at + 4) - at
<1>1. at = 0 \/ at = 1 \/ at = 2 \/ at = 3
  OBVIOUS
<1>2. QED
  BY <1>1 DEF Padding, Aligned

LEMMA LengthsAgreeInit ==
  ASSUME instruction \in Instructions
  PROVE  LengthsAgree
<1> DEFINE i == instruction
<1> SUFFICES ASSUME Executable(i)
             PROVE  /\ InterpreterLength(i) = VerifierLength(i)
                    /\ CompilerLength(i) = VerifierLength(i)
                    /\ LosesItsPlace(i) # (RefusalLength(i) = VerifierLength(i))
  BY DEF LengthsAgree
<1>1. i.op \in FromByte /\ i.at \in 0 .. 3 /\ i.n \in Nat
  BY MaxEntriesAssumption
     DEF Instructions, FromByte, Wide, TableSwitch, LookupSwitch, Constants, Loads, Stores, StackOps, Arithmetic,
         Iinc, Conversions, Comparisons, Control, ReferenceOps, Extended
<1>2. i.op \in 1 .. 201
  BY <1>1 DEF FromByte, Constants, Loads, Stores, StackOps, Arithmetic,
              Iinc, Conversions, Comparisons, Control, ReferenceOps, Extended
<1>3. 1 + Padding(i.at + 1) = Aligned(i.at + 4) - i.at
  BY <1>1, PaddingIsAlignment
<1>4. Padding(i.at + 1) \in Int /\ Aligned(i.at + 4) \in Int
  BY <1>1 DEF Padding, Aligned
<1> HIDE DEF i
<1> USE DEF InterpreterLength, VerifierLength, CompilerLength, RefusalLength, LosesItsPlace, Reads,
            ByteOperand, ShortOperand, IntOperand, Iinc, Wide, TableSwitch, LookupSwitch, Ret, u8, u16, i32
<1>5. CASE i.op = TableSwitch
  <2>1. InterpreterLength(i) = 1 + SwitchReads(i)
    BY <1>5
  <2>2. QED
    BY <1>5, <2>1, <1>1, <1>3, <1>4 DEF SwitchReads, SwitchTable
<1>6. CASE i.op = LookupSwitch
  BY <1>6, <1>1, <1>3, <1>4 DEF SwitchReads, SwitchTable
<1>7. CASE i.op = Wide
  BY <1>7 DEF WideReads
<1>8. CASE i.op \in {16, 18, 188, Ret} \cup 21 .. 25 \cup 54 .. 58
  BY <1>8
<1>9. CASE i.op \in {17, 19, 20} \cup 153 .. 168 \cup {198, 199}
  BY <1>9
<1>10. CASE i.op \in 178 .. 184 \cup {187, 189, 192, 193}
  BY <1>10
<1>11. CASE i.op = Iinc
  BY <1>11
<1>12. CASE i.op \in {200, 201, 185, 186}
  BY <1>12
<1>13. CASE i.op = 197
  BY <1>13
<1>14. CASE i.op \notin {16, 17, 18, 19, 20, 188, 198, 199, 187, 189, 192, 193, 200, 201, 185, 186, 197,
                         Ret, Iinc, Wide, TableSwitch, LookupSwitch}
                        \cup 21 .. 25 \cup 54 .. 58 \cup 153 .. 168 \cup 178 .. 184
  BY <1>14, <1>2
<1>15. QED
  BY <1>5, <1>6, <1>7, <1>8, <1>9, <1>10, <1>11, <1>12, <1>13, <1>14

\* The verifier, the interpreter and the compiler find every instruction equally
\* long, and the pass that refuses methods all but the ones it is known to misread.
THEOREM LengthsAgreeCorrect == DecodingSpec => []LengthsAgree
<1>1. DecodingInit => LengthsAgree
  BY LengthsAgreeInit DEF DecodingInit
<1>2. LengthsAgree /\ [UNCHANGED instruction]_instruction => LengthsAgree'
  BY DEF LengthsAgree
<1>3. QED
  BY <1>1, <1>2, PTL DEF DecodingSpec

-----------------------------------------------------------------------------
(* Method selection: counting and repeating.                               *)

(* A set of numbers that has 0, and with a number below N the next one, has *)
(* all numbers up to N.                                                     *)
LEMMA CountingTo ==
  ASSUME NEW N \in Nat, NEW S, 0 \in S, \A n \in 0 .. N : n < N /\ n \in S => n + 1 \in S
  PROVE  0 .. N \subseteq S
<1>. DEFINE Left == (0 .. N) \ S
<1>. SUFFICES ASSUME Left # {} PROVE FALSE
  OBVIOUS
<1>1. Left \subseteq Nat
  OBVIOUS
<1>. HIDE DEF Left
<1>2. PICK n \in Left : \A k \in Left : <<k, n>> \notin OpToRel(<, Nat)
  BY <1>1, NatLessThanWellFounded, WFMin
<1>3. n \in 0 .. N /\ n \notin S /\ n # 0
  BY <1>2 DEF Left
<1>4. n - 1 \in 0 .. N /\ n - 1 < n /\ n - 1 < N /\ (n - 1) + 1 = n
  BY <1>3
<1>5. n - 1 \in Nat /\ n \in Nat /\ <<n - 1, n>> \in OpToRel(<, Nat)
  BY <1>3, <1>4 DEF OpToRel
<1>6. n - 1 \in S
  BY <1>2, <1>4, <1>5 DEF Left
<1>. QED  BY <1>3, <1>4, <1>6

(* What repeating a step gives, when the step stays within a set.           *)
Repeating(f, N, s, g) == \A k \in 0 .. N : f[k] = IF k = 0 THEN s ELSE g[k][f[k - 1]]

LEMMA RepeatingExists ==
  ASSUME NEW N \in Nat, NEW S, NEW s \in S, NEW g \in [1 .. N -> [S -> S]]
  PROVE  \E f \in [0 .. N -> S] : Repeating(f, N, s, g)
<1>. DEFINE P(n, f) == \A k \in 0 .. n : f[k] = IF k = 0 THEN s ELSE g[k][f[k - 1]]
            T == {n \in 0 .. N : \E f \in [0 .. n -> S] : P(n, f)}
<1>1. 0 \in T
  <2>. DEFINE h == [k \in 0 .. 0 |-> s]
  <2>1. h \in [0 .. 0 -> S] /\ P(0, h)
    OBVIOUS
  <2>2. \E f \in [0 .. 0 -> S] : P(0, f)
    <3>. HIDE DEF h, P
    <3>. QED  BY <2>1
  <2>. QED  BY <2>2
<1>2. ASSUME NEW n \in 0 .. N, n < N, n \in T PROVE n + 1 \in T
  <2>1. PICK f \in [0 .. n -> S] : P(n, f)
    BY <1>2
  <2>. DEFINE h == [k \in 0 .. n + 1 |-> IF k = n + 1 THEN g[n + 1][f[n]] ELSE f[k]]
  <2>2. n + 1 \in 0 .. N /\ n + 1 \in 1 .. N /\ n \in 0 .. n
    BY <1>2
  <2>3. f[n] \in S /\ g[n + 1] \in [S -> S]
    BY <2>2
  <2>4. g[n + 1][f[n]] \in S
    BY <2>3
  <2>5. h \in [0 .. n + 1 -> S]
    BY <2>4
  <2>6. \A k \in 0 .. n + 1 : h[k] = IF k = n + 1 THEN g[n + 1][f[n]] ELSE f[k]
    OBVIOUS
  <2>. HIDE DEF h
  <2>7. ASSUME NEW k \in 0 .. n + 1
        PROVE  h[k] = IF k = 0 THEN s ELSE g[k][h[k - 1]]
    <3>1. CASE k = n + 1
      <4>1. k - 1 = n /\ k # 0 /\ h[k] = g[k][f[n]] /\ h[k - 1] = f[n]
        BY <3>1, <2>6
      <4>. QED  BY <4>1
    <3>2. CASE k \in 0 .. n
      <4>1. h[k] = f[k] /\ (k # 0 => k - 1 \in 0 .. n /\ h[k - 1] = f[k - 1])
        BY <3>2, <2>6
      <4>. QED  BY <4>1, <2>1, <3>2
    <3>. QED  BY <3>1, <3>2
  <2>. QED  BY <2>2, <2>5, <2>7
<1>. HIDE DEF T
<1>3. 0 .. N \subseteq T
  BY <1>1, <1>2, CountingTo
<1>4. N \in T
  BY <1>3
<1>. QED  BY <1>4 DEF T, Repeating

-----------------------------------------------------------------------------
(* Up the classes.                                                         *)

Climbing(c, f) ==
  f = [k \in 0 .. Cardinality(Classes) |-> IF k = 0 THEN <<c>> ELSE Above(f[k - 1])]

LEMMA SizesFinite ==
  Cardinality(Classes) \in Nat /\ Cardinality(Interfaces) \in Nat
BY TypesAssumption, FS_CardinalityType

LEMMA AboveClasses ==
  ASSUME shape \in Shapes, NEW s \in Seq(Classes), s # <<>>
  PROVE  /\ Above(s) \in Seq(Classes) /\ Above(s) # <<>>
         /\ Last(s) \in Classes /\ SuperOf(Last(s)) = shape.super[Last(s)]
<1>1. Len(s) \in Nat \ {0} /\ Last(s) = s[Len(s)]
  BY DEF Last
<1>2. Last(s) \in Classes
  BY <1>1
<1>3. SuperOf(Last(s)) = shape.super[Last(s)] /\ shape.super[Last(s)] \in Classes \cup {Nobody}
  BY <1>2, ShapesAssumption DEF SuperOf
<1>. QED  BY <1>2, <1>3 DEF Above

LEMMA ChainClimbs ==
  ASSUME shape \in Shapes, NEW c \in Classes
  PROVE  \E f : Climbing(c, f) /\ Chain(c) = f[Cardinality(Classes)]
<1>. DEFINE N == Cardinality(Classes)
            S == Seq(Classes) \ {<<>>}
            g == [k \in 1 .. N |-> [s \in S |-> Above(s)]]
<1>1. N \in Nat
  BY SizesFinite
<1>2. <<c>> \in S /\ g \in [1 .. N -> [S -> S]]
  BY AboveClasses
<1>3. PICK f \in [0 .. N -> S] : \A k \in 0 .. N : f[k] = IF k = 0 THEN <<c>> ELSE g[k][f[k - 1]]
  <2>. DEFINE s == <<c>>
  <2>. HIDE DEF N, S, g, s
  <2>1. s \in S
    BY <1>2 DEF s
  <2>2. \E f \in [0 .. N -> S] : Repeating(f, N, s, g)
    <3>1. N \in Nat /\ g \in [1 .. N -> [S -> S]]
      BY <1>1, <1>2
    <3>. QED  BY <2>1, <3>1, RepeatingExists
  <2>. QED  BY <2>2 DEF s, Repeating
<1>4. ASSUME NEW k \in 0 .. N PROVE f[k] = IF k = 0 THEN <<c>> ELSE Above(f[k - 1])
  <2>1. k # 0 => k \in 1 .. N /\ f[k - 1] \in S
    BY <1>1
  <2>2. k # 0 => g[k][f[k - 1]] = Above(f[k - 1])
    BY <2>1
  <2>. QED  BY <1>3, <2>2
<1>5. f = [k \in 0 .. N |-> IF k = 0 THEN <<c>> ELSE Above(f[k - 1])]
  BY <1>4
<1>. DEFINE up == CHOOSE h : h = [n \in 0 .. N |-> IF n = 0 THEN <<c>> ELSE Above(h[n - 1])]
<1>6. Climbing(c, up)
  BY <1>5 DEF Climbing
<1>7. Chain(c) = up[N]
  BY DEF Chain
<1>. QED  BY <1>6, <1>7

Links(s) == \A k \in 1 .. Len(s) : k < Len(s) => s[k + 1] = SuperOf(s[k])

(* The chain goes from the class to one that has no super class.            *)
LEMMA ChainFacts ==
  ASSUME shape \in Shapes, NEW c \in Classes
  PROVE  /\ Chain(c) \in Seq(Classes) /\ Len(Chain(c)) > 0 /\ Chain(c)[1] = c
         /\ Links(Chain(c)) /\ SuperOf(Chain(c)[Len(Chain(c))]) = Nobody
<1>. DEFINE N == Cardinality(Classes)
<1>0. N \in Nat
  BY SizesFinite
<1>1. PICK f : Climbing(c, f) /\ Chain(c) = f[N]
  BY ChainClimbs
<1>2. PICK rank \in [Classes -> 0 .. N] :
        \A d \in Classes : shape.super[d] # Nobody => rank[shape.super[d]] < rank[d]
  BY ShapesAssumption
<1>. DEFINE Good(s, n) == /\ s \in Seq(Classes) /\ s # <<>> /\ s[1] = c /\ Links(s)
                          /\ SuperOf(Last(s)) = Nobody \/ rank[Last(s)] + n <= N
            T == {n \in 0 .. N : Good(f[n], n)}
<1>3. 0 \in T
  <2>1. f[0] = <<c>>
    BY <1>0, <1>1 DEF Climbing
  <2>2. rank[c] \in 0 .. N /\ Last(<<c>>) = c
    BY DEF Last
  <2>3. Good(<<c>>, 0)
    BY <1>0, <2>2 DEF Links
  <2>4. 0 \in 0 .. N
    BY <1>0
  <2>. HIDE DEF Good
  <2>. QED  BY <2>1, <2>3, <2>4
<1>4. ASSUME NEW n \in 0 .. N, n < N, Good(f[n], n) PROVE Good(f[n + 1], n + 1)
  <2>. DEFINE s == f[n]
  <2>1. f[n + 1] = Above(s)
    BY <1>0, <1>1, <1>4 DEF Climbing
  <2>. HIDE DEF s
  <2>2. s \in Seq(Classes) /\ s # <<>> /\ s[1] = c /\ Links(s)
    BY <1>4 DEF s
  <2>3. SuperOf(Last(s)) = Nobody \/ rank[Last(s)] + n <= N
    BY <1>4 DEF s
  <2>4. /\ Above(s) \in Seq(Classes) /\ Above(s) # <<>> /\ Last(s) \in Classes
        /\ SuperOf(Last(s)) = shape.super[Last(s)] /\ shape.super[Last(s)] \in Classes \cup {Nobody}
    BY <2>2, AboveClasses, ShapesAssumption
  <2>5. CASE SuperOf(Last(s)) = Nobody
    BY <2>1, <2>2, <2>5 DEF Above
  <2>6. CASE SuperOf(Last(s)) # Nobody
    <3>. DEFINE d == SuperOf(Last(s))
    <3>1. Above(s) = Append(s, d) /\ d \in Classes /\ d = shape.super[Last(s)]
      BY <2>4, <2>6 DEF Above
    <3>2. rank[d] < rank[Last(s)] /\ rank[d] \in 0 .. N /\ rank[Last(s)] \in 0 .. N
      BY <1>2, <2>4, <2>6, <3>1
    <3>. HIDE DEF d
    <3>3. Len(Append(s, d)) = Len(s) + 1 /\ Len(s) \in Nat \ {0}
      BY <2>2, <3>1
    <3>4. Append(s, d)[1] = c /\ Last(Append(s, d)) = d
      BY <2>2, <3>1, <3>3 DEF Last
    <3>5. Links(Append(s, d))
      BY <2>2, <3>1, <3>3 DEF Links, Last, d
    <3>6. rank[d] + (n + 1) <= N
      BY <1>0, <2>3, <2>6, <3>2
    <3>. QED  BY <2>1, <2>4, <3>1, <3>4, <3>5, <3>6
  <2>. QED  BY <2>5, <2>6
<1>5. N \in T
  <2>1. \A n \in 0 .. N : n < N /\ n \in T => n + 1 \in T
    BY <1>0, <1>4
  <2>. HIDE DEF T
  <2>. QED  BY <1>0, <1>3, <2>1, CountingTo
<1>6. Good(Chain(c), N)
  BY <1>1, <1>5
<1>7. Len(Chain(c)) \in Nat \ {0} /\ Last(Chain(c)) = Chain(c)[Len(Chain(c))] /\ Last(Chain(c)) \in Classes
  BY <1>6 DEF Last
<1>8. rank[Last(Chain(c))] + N <= N => SuperOf(Last(Chain(c))) = Nobody
  <2>. SUFFICES ASSUME rank[Last(Chain(c))] + N <= N, SuperOf(Last(Chain(c))) # Nobody PROVE FALSE
    OBVIOUS
  <2>. DEFINE d == Last(Chain(c))
  <2>1. d \in Classes /\ SuperOf(d) = shape.super[d] /\ shape.super[d] \in Classes
    BY <1>7, ShapesAssumption DEF SuperOf
  <2>2. rank[shape.super[d]] < rank[d] /\ rank[shape.super[d]] \in 0 .. N /\ rank[d] \in 0 .. N
    BY <1>2, <1>7, <2>1, TypesAssumption DEF Types
  <2>. QED  BY <1>0, <2>2
<1>. QED  BY <1>6, <1>7, <1>8

-----------------------------------------------------------------------------
(* The list of interfaces.                                                 *)

Distinct(s) == \A j, k \in 1 .. Len(s) : s[j] = s[k] => j = k
InterfaceLists == {s \in Seq(Interfaces) : Distinct(s)}

(* Longer by interfaces of a set, without repeating one.                   *)
Extends(s, t, by) ==
  /\ t \in Seq(Interfaces) /\ Distinct(t)
  /\ Len(s) <= Len(t) /\ \A k \in 1 .. Len(s) : t[k] = s[k]
  /\ ToSet(t) = ToSet(s) \cup by

LEMMA AddExtends ==
  ASSUME NEW s \in InterfaceLists, NEW i \in Interfaces
  PROVE  Extends(s, Add(s, i), {i})
<1>1. s \in Seq(Interfaces) /\ Distinct(s) /\ Len(s) \in Nat
  BY DEF InterfaceLists
<1>2. CASE i \in ToSet(s)
  BY <1>1, <1>2 DEF Add, Extends
<1>3. CASE i \notin ToSet(s)
  <2>1. Add(s, i) = Append(s, i)
    BY <1>3 DEF Add
  <2>. DEFINE t == Append(s, i)
  <2>2. /\ t \in Seq(Interfaces) /\ Len(t) = Len(s) + 1 /\ t[Len(s) + 1] = i
        /\ \A k \in 1 .. Len(s) : t[k] = s[k]
    BY <1>1
  <2>. HIDE DEF t
  <2>3. \A k \in 1 .. Len(s) : s[k] # i
    BY <1>1, <1>3 DEF ToSet
  <2>4. Distinct(t)
    BY <1>1, <2>2, <2>3 DEF Distinct
  <2>5. ToSet(t) = ToSet(s) \cup {i}
    <3>1. ToSet(t) = {t[k] : k \in 1 .. Len(s) + 1} /\ ToSet(s) = {s[k] : k \in 1 .. Len(s)}
      BY <1>1, <2>2 DEF ToSet
    <3>2. ASSUME NEW k \in 1 .. Len(s) + 1 PROVE t[k] \in ToSet(s) \cup {i}
      BY <1>1, <2>2, <3>1
    <3>3. ASSUME NEW k \in 1 .. Len(s) PROVE s[k] \in ToSet(t)
      <4>1. k \in 1 .. Len(s) + 1 /\ t[k] = s[k]
        BY <1>1, <2>2
      <4>. QED  BY <3>1, <4>1
    <3>4. i \in ToSet(t)
      BY <1>1, <2>2, <3>1
    <3>. QED  BY <3>1, <3>2, <3>3, <3>4
  <2>. QED  BY <1>1, <2>1, <2>2, <2>4, <2>5 DEF Extends, t
<1>. QED  BY <1>2, <1>3

LEMMA ExtendsTwice ==
  ASSUME NEW s \in InterfaceLists, NEW t, NEW u, NEW by, NEW and,
         Extends(s, t, by), Extends(t, u, and)
  PROVE  Extends(s, u, by \cup and)
<1>1. Len(s) \in Nat /\ Len(t) \in Nat /\ Len(u) \in Nat
  BY DEF InterfaceLists, Extends
<1>2. \A k \in 1 .. Len(s) : k \in 1 .. Len(t) /\ u[k] = s[k]
  BY <1>1 DEF Extends
<1>. QED  BY <1>1, <1>2 DEF Extends

Adding(listed, new, f) ==
  f = [k \in 0 .. Len(new) |-> IF k = 0 THEN listed ELSE Add(f[k - 1], new[k])]

LEMMA AddedRepeats ==
  ASSUME NEW listed \in InterfaceLists, NEW new \in Seq(Interfaces)
  PROVE  \E f : Adding(listed, new, f) /\ Added(listed, new) = f[Len(new)]
<1>. DEFINE N == Len(new)
            S == InterfaceLists
            g == [k \in 1 .. N |-> [s \in S |-> Add(s, new[k])]]
<1>1. N \in Nat
  OBVIOUS
<1>2. ASSUME NEW k \in 1 .. N, NEW s \in S PROVE Add(s, new[k]) \in S
  <2>1. new[k] \in Interfaces
    OBVIOUS
  <2>. QED  BY <2>1, AddExtends DEF Extends, InterfaceLists
<1>3. g \in [1 .. N -> [S -> S]]
  BY <1>2
<1>4. PICK f \in [0 .. N -> S] : Repeating(f, N, listed, g)
  <2>. HIDE DEF N, S, g
  <2>1. listed \in S
    BY DEF S
  <2>. QED  BY <1>1, <1>3, <2>1, RepeatingExists
<1>5. ASSUME NEW k \in 0 .. N PROVE f[k] = IF k = 0 THEN listed ELSE Add(f[k - 1], new[k])
  <2>1. k # 0 => k \in 1 .. N /\ f[k - 1] \in S
    BY <1>1
  <2>2. k # 0 => g[k][f[k - 1]] = Add(f[k - 1], new[k])
    BY <2>1
  <2>. HIDE DEF g
  <2>. QED  BY <1>4, <2>2 DEF Repeating
<1>6. f = [k \in 0 .. N |-> IF k = 0 THEN listed ELSE Add(f[k - 1], new[k])]
  BY <1>5
<1>. DEFINE acc == CHOOSE h : h = [n \in 0 .. N |-> IF n = 0 THEN listed ELSE Add(h[n - 1], new[n])]
<1>7. Adding(listed, new, acc)
  BY <1>6 DEF Adding
<1>8. Added(listed, new) = acc[N]
  BY DEF Added
<1>. QED  BY <1>7, <1>8

LEMMA AddedExtends ==
  ASSUME NEW listed \in InterfaceLists, NEW new \in Seq(Interfaces)
  PROVE  Extends(listed, Added(listed, new), ToSet(new))
<1>. DEFINE N == Len(new)
            First(n) == {new[k] : k \in 1 .. n}
<1>1. N \in Nat
  OBVIOUS
<1>2. PICK f : Adding(listed, new, f) /\ Added(listed, new) = f[N]
  BY AddedRepeats
<1>. DEFINE T == {n \in 0 .. N : Extends(listed, f[n], First(n))}
<1>3. 0 \in T
  <2>1. f[0] = listed /\ First(0) = {} /\ 0 \in 0 .. N
    BY <1>1, <1>2 DEF Adding
  <2>. QED  BY <2>1 DEF Extends, InterfaceLists
<1>4. ASSUME NEW n \in 0 .. N, n < N, n \in T PROVE n + 1 \in T
  <2>1. n + 1 \in 1 .. N /\ n + 1 \in 0 .. N /\ new[n + 1] \in Interfaces
    BY <1>1, <1>4
  <2>2. f[n + 1] = Add(f[n], new[n + 1])
    BY <1>2, <2>1 DEF Adding
  <2>3. Extends(listed, f[n], First(n)) /\ f[n] \in InterfaceLists
    BY <1>4 DEF Extends, InterfaceLists
  <2>4. Extends(f[n], f[n + 1], {new[n + 1]})
    BY <2>1, <2>2, <2>3, AddExtends
  <2>5. First(n + 1) = First(n) \cup {new[n + 1]}
    OBVIOUS
  <2>6. Extends(listed, f[n + 1], First(n) \cup {new[n + 1]})
    BY <2>3, <2>4, ExtendsTwice
  <2>. QED  BY <2>1, <2>5, <2>6
<1>5. 0 .. N \subseteq T
  <2>. HIDE DEF T
  <2>. QED  BY <1>1, <1>3, <1>4, CountingTo
<1>6. N \in 0 .. N /\ First(N) = ToSet(new)
  BY <1>1 DEF ToSet
<1>. QED  BY <1>2, <1>5, <1>6

LEMMA DistinctBounded ==
  ASSUME NEW s \in InterfaceLists
  PROVE  Len(s) <= Cardinality(Interfaces)
<1>1. s \in [1 .. Len(s) -> Interfaces] /\ Len(s) \in Nat /\ Distinct(s)
  BY DEF InterfaceLists
<1>2. IsFiniteSet(1 .. Len(s)) /\ Cardinality(1 .. Len(s)) = Len(s)
  <2>1. 1 \in Int /\ Len(s) \in Int
    BY <1>1
  <2>2. IsFiniteSet(1 .. Len(s)) /\ Cardinality(1 .. Len(s)) = IF 1 > Len(s) THEN 0 ELSE Len(s) - 1 + 1
    BY <2>1, FS_Interval
  <2>. QED  BY <1>1, <2>2
<1>. SUFFICES ASSUME Cardinality(Interfaces) < Len(s) PROVE FALSE
  BY <1>1, SizesFinite
<1>3. Cardinality(Interfaces) < Cardinality(1 .. Len(s)) /\ IsFiniteSet(Interfaces)
  BY <1>2, TypesAssumption
<1>4. \E j, k \in 1 .. Len(s) : j # k /\ s[j] = s[k]
  <2>. DEFINE D == 1 .. Len(s)
  <2>1. IsFiniteSet(D) /\ s \in [D -> Interfaces] /\ Cardinality(Interfaces) < Cardinality(D)
    BY <1>1, <1>2, <1>3
  <2>. HIDE DEF D
  <2>2. \E j, k \in D : j # k /\ s[j] = s[k]
    BY <1>3, <2>1, FS_PigeonHole
  <2>. QED  BY <2>2 DEF D
<1>. QED  BY <1>1, <1>4 DEF Distinct

Most(c) == Len(Chain(c)) + Cardinality(Interfaces)
Visiting(c, f) == f = [n \in 0 .. Most(c) |-> IF n = 0 THEN <<>> ELSE Visit(c, f[n - 1], n)]

(* The place visited is a class or an interface, and its interfaces are met. *)
LEMMA VisitMeets ==
  ASSUME shape \in Shapes, NEW c \in Classes, NEW met \in InterfaceLists, NEW n \in Nat \ {0},
         NEW all, all = Chain(c) \o met
  PROVE  /\ Visit(c, met, n) \in InterfaceLists
         /\ n > Len(all) => Visit(c, met, n) = met
         /\ n <= Len(all) => /\ all[n] \in Types
                             /\ Extends(met, Visit(c, met, n), ToSet(shape.interfaces[all[n]]))
<1>1. Chain(c) \in Seq(Classes) /\ met \in Seq(Interfaces)
  BY ChainFacts DEF InterfaceLists
<1>2. all \in Seq(Types) /\ Len(all) \in Nat
  <2>1. Chain(c) \in Seq(Types) /\ met \in Seq(Types)
    BY <1>1 DEF Types
  <2>. QED  BY <2>1
<1>3. CASE n > Len(all)
  BY <1>2, <1>3 DEF Visit
<1>4. CASE n <= Len(all)
  <2>1. all[n] \in Types
    BY <1>2, <1>4
  <2>2. shape.interfaces[all[n]] \in Seq(Interfaces)
    BY <2>1, ShapesAssumption
  <2>3. Visit(c, met, n) = Added(met, shape.interfaces[all[n]])
    BY <1>2, <1>4 DEF Visit
  <2>4. Extends(met, Visit(c, met, n), ToSet(shape.interfaces[all[n]]))
    BY <2>2, <2>3, AddedExtends
  <2>. QED  BY <1>2, <1>4, <2>1, <2>4 DEF Extends, InterfaceLists
<1>. QED  BY <1>2, <1>3, <1>4

LEMMA InterfacesMetRepeats ==
  ASSUME shape \in Shapes, NEW c \in Classes
  PROVE  \E f : Visiting(c, f) /\ InterfacesMet(c) = f[Most(c)]
<1>. DEFINE N == Most(c)
            S == InterfaceLists
            g == [k \in 1 .. N |-> [s \in S |-> Visit(c, s, k)]]
            none == <<>>
<1>1. N \in Nat
  BY ChainFacts, SizesFinite DEF Most
<1>2. g \in [1 .. N -> [S -> S]]
  <2>1. ASSUME NEW k \in 1 .. N, NEW s \in S PROVE Visit(c, s, k) \in S
    <3>1. k \in Nat \ {0}
      BY <1>1
    <3>. DEFINE all == Chain(c) \o s
    <3>. HIDE DEF all
    <3>2. all = Chain(c) \o s
      BY DEF all
    <3>. QED  BY <3>1, <3>2, VisitMeets
  <2>. QED  BY <2>1
<1>3. none \in S
  BY DEF InterfaceLists, Distinct
<1>4. PICK f \in [0 .. N -> S] : Repeating(f, N, none, g)
  <2>. HIDE DEF N, S, g, none
  <2>. QED  BY <1>1, <1>2, <1>3, RepeatingExists
<1>5. ASSUME NEW k \in 0 .. N PROVE f[k] = IF k = 0 THEN <<>> ELSE Visit(c, f[k - 1], k)
  <2>1. k # 0 => k \in 1 .. N /\ f[k - 1] \in S
    BY <1>1
  <2>2. k # 0 => g[k][f[k - 1]] = Visit(c, f[k - 1], k)
    BY <2>1
  <2>. HIDE DEF g
  <2>. QED  BY <1>4, <2>2 DEF Repeating
<1>6. f = [k \in 0 .. N |-> IF k = 0 THEN <<>> ELSE Visit(c, f[k - 1], k)]
  BY <1>5
<1>. DEFINE met == CHOOSE h : h = [n \in 0 .. N |-> IF n = 0 THEN <<>> ELSE Visit(c, h[n - 1], n)]
<1>7. Visiting(c, met)
  BY <1>6 DEF Visiting
<1>8. InterfacesMet(c) = met[N]
  BY DEF InterfacesMet, Most
<1>. QED  BY <1>7, <1>8

(* A set of types with everything directly above its members.               *)
UpwardClosed(S) == \A d \in S : Parents(d) \subseteq S

(* What the first n places of the work list list has been met, and only     *)
(* what lies above the class.                                               *)
Visited(c, met, n) ==
  /\ met \in InterfaceLists
  /\ \A k \in 1 .. Len(Chain(c) \o met) :
       k <= n => ToSet(shape.interfaces[(Chain(c) \o met)[k]]) \subseteq ToSet(met)
  /\ \A S : c \in S /\ ToSet(Chain(c)) \subseteq S /\ UpwardClosed(S) => ToSet(met) \subseteq S

LEMMA VisitedNext ==
  ASSUME shape \in Shapes, NEW c \in Classes, NEW met, NEW n \in Nat, Visited(c, met, n)
  PROVE  Visited(c, Visit(c, met, n + 1), n + 1)
<1>. DEFINE all == Chain(c) \o met
            met1 == Visit(c, met, n + 1)
            all1 == Chain(c) \o met1
<1>1. Chain(c) \in Seq(Classes) /\ met \in InterfaceLists /\ met \in Seq(Interfaces)
  BY ChainFacts DEF Visited, InterfaceLists
<1>2. /\ met1 \in InterfaceLists
      /\ n + 1 > Len(all) => met1 = met
      /\ n + 1 <= Len(all) => /\ all[n + 1] \in Types
                              /\ Extends(met, met1, ToSet(shape.interfaces[all[n + 1]]))
  <2>1. n + 1 \in Nat \ {0}
    OBVIOUS
  <2>. HIDE DEF all
  <2>2. all = Chain(c) \o met
    BY DEF all
  <2>. QED  BY <1>1, <2>1, <2>2, VisitMeets
<1>3. Len(all) \in Nat /\ Len(all) = Len(Chain(c)) + Len(met)
  BY <1>1
<1>4. CASE n + 1 > Len(all)
  <2>1. met1 = met
    BY <1>2, <1>4
  <2>2. \A k \in 1 .. Len(Chain(c) \o met) : k <= n
    BY <1>3, <1>4
  <2>. QED  BY <2>1, <2>2 DEF Visited
<1>5. CASE n + 1 <= Len(all)
  <2>. DEFINE new == ToSet(shape.interfaces[all[n + 1]])
  <2>1. /\ met1 \in Seq(Interfaces) /\ Len(met) <= Len(met1)
        /\ \A k \in 1 .. Len(met) : met1[k] = met[k]
        /\ ToSet(met1) = ToSet(met) \cup new
    BY <1>2, <1>5 DEF Extends
  <2>2. \A k \in 1 .. Len(all) : all1[k] = all[k]
    <3>. HIDE DEF met1
    <3>. QED  BY <1>1, <1>3, <2>1
  <2>3. ASSUME NEW k \in 1 .. Len(all1), k <= n + 1
        PROVE  ToSet(shape.interfaces[all1[k]]) \subseteq ToSet(met1)
    <3>1. CASE k = n + 1
      BY <1>3, <1>5, <2>1, <2>2, <3>1
    <3>2. CASE k # n + 1
      <4>1. k \in 1 .. Len(all) /\ k <= n
        BY <1>3, <1>5, <2>3, <3>2
      <4>2. ToSet(shape.interfaces[all[k]]) \subseteq ToSet(met)
        BY <4>1 DEF Visited
      <4>. HIDE DEF met1, all1, all
      <4>. QED  BY <2>1, <2>2, <4>1, <4>2
    <3>. QED  BY <3>1, <3>2
  <2>4. ASSUME NEW S, c \in S, ToSet(Chain(c)) \subseteq S, UpwardClosed(S)
        PROVE  ToSet(met1) \subseteq S
    <3>1. ToSet(met) \subseteq S
      BY <2>4 DEF Visited
    <3>2. all[n + 1] \in ToSet(Chain(c)) \cup ToSet(met)
      BY <1>1, <1>3, <1>5 DEF ToSet
    <3>3. all[n + 1] \in S
      BY <2>4, <3>1, <3>2
    <3>4. new \subseteq Parents(all[n + 1])
      BY DEF Parents
    <3>. QED  BY <2>1, <2>4, <3>1, <3>3, <3>4 DEF UpwardClosed
  <2>. QED  BY <1>2, <2>3, <2>4 DEF Visited
<1>. QED  BY <1>3, <1>4, <1>5

LEMMA InterfacesMetFacts ==
  ASSUME shape \in Shapes, NEW c \in Classes
  PROVE  /\ Visited(c, InterfacesMet(c), Most(c))
         /\ Len(Chain(c) \o InterfacesMet(c)) <= Most(c)
<1>. DEFINE N == Most(c)
<1>1. N \in Nat
  BY ChainFacts, SizesFinite DEF Most
<1>2. PICK f : Visiting(c, f) /\ InterfacesMet(c) = f[N]
  BY InterfacesMetRepeats
<1>. DEFINE T == {n \in 0 .. N : Visited(c, f[n], n)}
<1>3. 0 \in T
  <2>1. f[0] = <<>>
    BY <1>1, <1>2 DEF Visiting
  <2>2. Visited(c, <<>>, 0)
    BY ChainFacts DEF Visited, InterfaceLists, Distinct, ToSet
  <2>. QED  BY <1>1, <2>1, <2>2
<1>4. ASSUME NEW n \in 0 .. N, n < N, n \in T PROVE n + 1 \in T
  <2>1. n + 1 \in 1 .. N /\ n + 1 \in 0 .. N /\ (n + 1) - 1 = n
    BY <1>1, <1>4
  <2>2. f[n + 1] = Visit(c, f[n], n + 1)
    BY <1>2, <2>1 DEF Visiting
  <2>. QED  BY <1>4, <2>1, <2>2, VisitedNext
<1>5. 0 .. N \subseteq T
  <2>. HIDE DEF T
  <2>. QED  BY <1>1, <1>3, <1>4, CountingTo
<1>6. Visited(c, InterfacesMet(c), N)
  BY <1>1, <1>2, <1>5
<1>7. Len(InterfacesMet(c)) <= Cardinality(Interfaces) /\ InterfacesMet(c) \in Seq(Interfaces)
  BY <1>6, DistinctBounded DEF Visited, InterfaceLists
<1>. QED  BY <1>6, <1>7, ChainFacts, SizesFinite DEF Most

-----------------------------------------------------------------------------
(* The list has what lies above the class, and only that.                  *)

LEMMA ChainClosed ==
  ASSUME shape \in Shapes, NEW c \in Classes, NEW S, c \in S, UpwardClosed(S)
  PROVE  ToSet(Chain(c)) \subseteq S
<1>. DEFINE s == Chain(c)
            N == Len(s)
            T == {n \in 0 .. N : n > 0 => s[n] \in S}
<1>1. s \in Seq(Classes) /\ N \in Nat /\ N > 0 /\ s[1] = c /\ Links(s)
  BY ChainFacts
<1>. HIDE DEF s
<1>2. 0 \in T
  BY <1>1
<1>3. ASSUME NEW n \in 0 .. N, n < N, n \in T PROVE n + 1 \in T
  <2>1. CASE n = 0
    BY <1>1, <2>1
  <2>2. CASE n # 0
    <3>1. n \in 1 .. N /\ n + 1 \in 1 .. N /\ s[n] \in S
      BY <1>1, <1>3, <2>2
    <3>2. s[n + 1] = SuperOf(s[n]) /\ s[n + 1] \in Classes
      BY <1>1, <1>3, <3>1 DEF Links
    <3>3. s[n + 1] # Nobody
      BY <3>2, TypesAssumption DEF Types
    <3>4. s[n + 1] \in Parents(s[n])
      BY <3>2, <3>3 DEF Parents
    <3>. QED  BY <3>1, <3>4 DEF UpwardClosed
  <2>. QED  BY <2>1, <2>2
<1>4. 0 .. N \subseteq T
  <2>. HIDE DEF T, N
  <2>. QED  BY <1>1, <1>2, <1>3, CountingTo
<1>5. \A n \in 1 .. N : s[n] \in S
  BY <1>1, <1>4
<1>. QED  BY <1>1, <1>5 DEF ToSet, s

LEMMA InstanceOfIsMet ==
  ASSUME shape \in Shapes, NEW c \in Classes, NEW i \in Interfaces
  PROVE  IsInstanceOf(c, i) <=> i \in ToSet(InterfacesMet(c))
<1>. DEFINE s == Chain(c)
            met == InterfacesMet(c)
            all == s \o met
<1>1. s \in Seq(Classes) /\ Len(s) \in Nat \ {0} /\ s[1] = c /\ Links(s) /\ SuperOf(s[Len(s)]) = Nobody
  BY ChainFacts
<1>2. Visited(c, met, Most(c)) /\ Len(all) <= Most(c)
  BY InterfacesMetFacts
<1>3. met \in Seq(Interfaces)
  BY <1>2 DEF Visited, InterfaceLists
<1>4. ASSUME i \in ToSet(met), NEW S \in SUBSET Types, c \in S, \A d \in S : Parents(d) \subseteq S
      PROVE  i \in S
  <2>1. UpwardClosed(S)
    BY <1>4 DEF UpwardClosed
  <2>2. ToSet(s) \subseteq S
    BY <1>4, <2>1, ChainClosed
  <2>. QED  BY <1>2, <1>4, <2>1, <2>2 DEF Visited
<1>5. ASSUME IsInstanceOf(c, i) PROVE i \in ToSet(met)
  <2>. DEFINE S == ToSet(s) \cup ToSet(met)
  <2>1. ToSet(s) = {s[k] : k \in 1 .. Len(s)} /\ ToSet(met) = {met[k] : k \in 1 .. Len(met)}
    BY <1>1, <1>3 DEF ToSet
  <2>2. ToSet(s) \subseteq Classes /\ ToSet(met) \subseteq Interfaces
    BY <1>1, <1>3, <2>1
  <2>3. S \in SUBSET Types
    BY <2>2 DEF Types
  <2>4. c \in S
    BY <1>1, <2>1
  <2>5. \A k \in 1 .. Len(all) : ToSet(shape.interfaces[all[k]]) \subseteq ToSet(met)
    <3>1. Most(c) \in Nat /\ Len(all) \in Nat
      BY <1>1, <1>3, SizesFinite DEF Most
    <3>. QED  BY <1>2, <3>1 DEF Visited
  <2>6. \A d \in S : \E k \in 1 .. Len(all) : d = all[k]
    <3>. TAKE d \in S
    <3>1. CASE d \in ToSet(s)
      <4>1. PICK k \in 1 .. Len(s) : d = s[k]
        BY <2>1, <3>1
      <4>2. k \in 1 .. Len(all) /\ all[k] = s[k]
        BY <1>1, <1>3
      <4>. QED  BY <4>1, <4>2
    <3>2. CASE d \in ToSet(met)
      <4>1. PICK k \in 1 .. Len(met) : d = met[k]
        BY <2>1, <3>2
      <4>2. Len(s) + k \in 1 .. Len(all) /\ all[Len(s) + k] = met[k]
        BY <1>1, <1>3
      <4>. QED  BY <4>1, <4>2
    <3>. QED  BY <3>1, <3>2
  <2>7. ASSUME NEW d \in S PROVE SuperOf(d) = Nobody \/ SuperOf(d) \in S
    <3>1. CASE d \in ToSet(s)
      <4>1. PICK k \in 1 .. Len(s) : d = s[k]
        BY <2>1, <3>1
      <4>2. CASE k = Len(s)
        BY <1>1, <4>1, <4>2
      <4>3. CASE k < Len(s)
        <5>1. k + 1 \in 1 .. Len(s) /\ s[k + 1] = SuperOf(d)
          BY <1>1, <4>1, <4>3 DEF Links
        <5>. QED  BY <2>1, <5>1
      <4>. QED  BY <1>1, <4>2, <4>3
    <3>2. CASE d \in ToSet(met)
      BY <2>2, <3>2, TypesAssumption DEF SuperOf
    <3>. QED  BY <3>1, <3>2
  <2>8. \A d \in S : Parents(d) \subseteq S
    <3>. HIDE DEF all, met, s
    <3>. QED  BY <2>5, <2>6, <2>7 DEF Parents
  <2>9. i \in S
    <3>. HIDE DEF S
    <3>. QED  BY <1>5, <2>3, <2>4, <2>8 DEF IsInstanceOf
  <2>. QED  BY <2>2, <2>9, TypesAssumption
<1>. QED  BY <1>4, <1>5 DEF IsInstanceOf

-----------------------------------------------------------------------------
(* The first declaration in a list.                                        *)

LEMMA MinFacts ==
  ASSUME NEW S, S \subseteq Nat, S # {}
  PROVE  Min(S) \in S /\ \A y \in S : Min(S) <= y
<1>1. PICK x \in S : \A y \in S : <<y, x>> \notin OpToRel(<, Nat)
  BY NatLessThanWellFounded, WFMin
<1>2. ASSUME NEW y \in S PROVE x <= y
  <2>1. x \in Nat /\ y \in Nat
    OBVIOUS
  <2>2. y < x => <<y, x>> \in OpToRel(<, Nat)
    BY <2>1 DEF OpToRel
  <2>3. ~(y < x)
    BY <1>1, <2>2
  <2>. QED  BY <2>1, <2>3
<1>3. \E m \in S : \A y \in S : m <= y
  BY <1>2
<1>. QED  BY <1>3 DEF Min

LEMMA FirstDeclaredFacts ==
  ASSUME shape \in Shapes, NEW s \in Seq(Types)
  PROVE  IF Places(s) = {} THEN FirstDeclared(s) = NotFound
         ELSE \E d \in ToSet(s) : d \in Types /\ Declares(d) /\ FirstDeclared(s) = Method(d)
<1>1. Places(s) \subseteq Nat /\ \A n \in Places(s) : n \in 1 .. Len(s) /\ Declares(s[n])
  BY DEF Places
<1>2. CASE Places(s) # {}
  <2>1. Min(Places(s)) \in Places(s)
    BY <1>1, <1>2, MinFacts
  <2>. DEFINE d == s[Min(Places(s))]
  <2>2. d \in ToSet(s) /\ d \in Types /\ Declares(d)
    BY <1>1, <2>1 DEF ToSet
  <2>3. FirstDeclared(s) = Method(d)
    BY <1>2 DEF FirstDeclared
  <2>. HIDE DEF d
  <2>. QED  BY <1>2, <2>2, <2>3
<1>. QED  BY <1>2 DEF FirstDeclared

LEMMA FirstOfBoth ==
  ASSUME NEW s \in Seq(Types), NEW t \in Seq(Types), Places(s) # {}
  PROVE  FirstDeclared(s \o t) = FirstDeclared(s)
<1>. DEFINE m == Min(Places(s))
            n == Min(Places(s \o t))
<1>1. Places(s) \subseteq Nat /\ Places(s \o t) \subseteq Nat
  BY DEF Places
<1>2. \A k \in 1 .. Len(s) : k \in 1 .. Len(s \o t) /\ (s \o t)[k] = s[k]
  OBVIOUS
<1>3. Places(s) \subseteq Places(s \o t)
  BY <1>2 DEF Places
<1>4. /\ m \in Places(s) /\ \A y \in Places(s) : m <= y
      /\ n \in Places(s \o t) /\ \A y \in Places(s \o t) : n <= y
  BY <1>1, <1>3, MinFacts
<1>5. m \in 1 .. Len(s) /\ n \in 1 .. Len(s \o t) /\ n <= m /\ Declares((s \o t)[n])
  <2>. HIDE DEF m, n
  <2>1. m \in 1 .. Len(s) /\ n \in 1 .. Len(s \o t) /\ Declares((s \o t)[n])
    BY <1>4 DEF Places
  <2>. QED  BY <1>3, <1>4, <2>1
<1>6. n \in 1 .. Len(s) /\ n \in Places(s)
  <2>. HIDE DEF m, n
  <2>1. n \in 1 .. Len(s)
    BY <1>5
  <2>. QED  BY <1>2, <1>5, <2>1 DEF Places
<1>7. n = m
  <2>. HIDE DEF m, n
  <2>. QED  BY <1>4, <1>5, <1>6
<1>8. Places(s \o t) # {} /\ (s \o t)[n] = s[m]
  BY <1>2, <1>4, <1>6, <1>7
<1>. QED  BY <1>7, <1>8 DEF FirstDeclared

-----------------------------------------------------------------------------
(* Every call runs what the specification selects.                         *)

LEMMA Lists ==
  ASSUME shape \in Shapes, NEW c \in Classes
  PROVE  /\ Chain(c) \in Seq(Types) /\ InterfacesMet(c) \in Seq(Types)
         /\ InterfacesMet(c) \in Seq(Interfaces) /\ ToSet(Chain(c)) \subseteq Classes
<1>1. Chain(c) \in Seq(Classes) /\ InterfacesMet(c) \in Seq(Interfaces)
  BY ChainFacts, InterfacesMetFacts DEF Visited, InterfaceLists
<1>. QED  BY <1>1 DEF Types, ToSet

LEMMA MethodFound ==
  ASSUME shape \in Shapes, NEW d \in Types, Declares(d)
  PROVE  Method(d) # NotFound /\ Method(d)[1] \in {"Bytecode", "Native"} /\ Method(d)[2] = d
BY ShapesAssumption DEF Declares, Method, NotFound

LEMMA ResolveFacts ==
  ASSUME shape \in Shapes, NEW c \in Classes
  PROVE  /\ Resolve(c) = NotFound \/ \E d \in Types : Declares(d) /\ Resolve(c) = Method(d)
         /\ Declares(c) => Resolve(c) = Method(c)
<1>1. Chain(c) \o InterfacesMet(c) \in Seq(Types)
  BY Lists
<1>2. Resolve(c) = NotFound \/ \E d \in Types : Declares(d) /\ Resolve(c) = Method(d)
  BY <1>1, FirstDeclaredFacts DEF Resolve
<1>3. ASSUME Declares(c) PROVE Resolve(c) = Method(c)
  <2>. DEFINE all == Chain(c) \o InterfacesMet(c)
  <2>1. all[1] = c /\ 1 \in DOMAIN all
    BY ChainFacts, Lists
  <2>. HIDE DEF all
  <2>2. 1 \in Places(all) /\ Places(all) \subseteq Nat \ {0}
    BY <1>1, <1>3, <2>1 DEF Places, all
  <2>3. Min(Places(all)) = 1
    BY <2>2, MinFacts
  <2>. QED  BY <2>1, <2>2, <2>3 DEF Resolve, FirstDeclared, all
<1>. QED  BY <1>2, <1>3

LEMMA ResolveAgrees ==
  ASSUME shape \in Shapes, NEW c \in Classes, Unambiguous(c)
  PROVE  Resolve(c) = Selected(c)
<1>. DEFINE s == Chain(c)
            met == InterfacesMet(c)
<1>1. s \in Seq(Types) /\ met \in Seq(Types) /\ met \in Seq(Interfaces) /\ s \o met \in Seq(Types)
  BY Lists
<1>2. CASE Places(s) # {}
  BY <1>1, <1>2, FirstOfBoth DEF Resolve, Selected
<1>3. CASE Places(s) = {}
  <2>1. \A d \in ToSet(s \o met) : Declares(d) => d \in ToSet(met)
    <3>. TAKE d \in ToSet(s \o met)
    <3>. HAVE Declares(d)
    <3>1. PICK k \in 1 .. Len(s \o met) : d = (s \o met)[k]
      BY <1>1 DEF ToSet
    <3>2. CASE k \in 1 .. Len(s)
      <4>1. d = s[k] /\ k \in DOMAIN s
        BY <1>1, <3>1, <3>2
      <4>. QED  BY <1>3, <4>1 DEF Places
    <3>3. CASE k \notin 1 .. Len(s)
      <4>1. k - Len(s) \in 1 .. Len(met) /\ d = met[k - Len(s)]
        BY <1>1, <3>1, <3>3
      <4>. QED  BY <1>1, <4>1 DEF ToSet
    <3>. QED  BY <3>2, <3>3
  <2>2. ToSet(met) \subseteq Interfaces /\ ToSet(met) \subseteq ToSet(s \o met)
    <3>1. \A k \in 1 .. Len(met) : Len(s) + k \in 1 .. Len(s \o met) /\ (s \o met)[Len(s) + k] = met[k]
      BY <1>1
    <3>2. /\ ToSet(met) = {met[k] : k \in 1 .. Len(met)}
          /\ ToSet(s \o met) = {(s \o met)[k] : k \in 1 .. Len(s \o met)}
      <4>1. DOMAIN met = 1 .. Len(met) /\ DOMAIN (s \o met) = 1 .. Len(s \o met)
        BY <1>1
      <4>. QED  BY <4>1 DEF ToSet
    <3>3. ToSet(met) \subseteq Interfaces
      BY <1>1, <3>2
    <3>4. ToSet(met) \subseteq ToSet(s \o met)
      <4>. HIDE DEF met, s
      <4>. QED  BY <3>1, <3>2
    <3>. QED  BY <3>3, <3>4
  <2>3. \A i \in Interfaces : i \in Candidates(c) <=> Declares(i) /\ i \in ToSet(met)
    BY InstanceOfIsMet DEF Candidates
  <2>4. CASE Places(s \o met) = {}
    <3>1. Candidates(c) = {}
      <4>1. ASSUME NEW i \in Candidates(c) PROVE FALSE
        <5>1. i \in Interfaces /\ Declares(i) /\ i \in ToSet(s \o met)
          BY <2>2, <2>3, <4>1 DEF Candidates
        <5>2. PICK k \in DOMAIN (s \o met) : i = (s \o met)[k]
          BY <1>1, <5>1 DEF ToSet
        <5>. QED  BY <2>4, <5>1, <5>2 DEF Places
      <4>. QED  BY <4>1
    <3>. QED  BY <1>3, <2>4, <3>1 DEF Resolve, FirstDeclared, Selected
  <2>5. CASE Places(s \o met) # {}
    <3>1. PICK d \in ToSet(s \o met) : d \in Types /\ Declares(d) /\ Resolve(c) = Method(d)
      BY <1>1, <2>5, FirstDeclaredFacts DEF Resolve
    <3>2. d \in Interfaces /\ d \in Candidates(c)
      BY <2>1, <2>2, <2>3, <3>1
    <3>3. Candidates(c) = {d}
      <4>1. Cardinality(Candidates(c)) <= 1
        BY <1>3 DEF Unambiguous
      <4>2. IsFiniteSet(Candidates(c))
        <5>1. Candidates(c) \subseteq Interfaces
          BY DEF Candidates
        <5>. QED  BY <5>1, TypesAssumption, FS_Subset
      <4>3. Cardinality(Candidates(c)) \in Nat /\ Cardinality(Candidates(c)) # 0
        BY <3>2, <4>2, FS_CardinalityType, FS_EmptySet
      <4>4. Cardinality(Candidates(c)) = 1
        BY <4>1, <4>3
      <4>5. \E x : Candidates(c) = {x}
        BY <4>2, <4>4, FS_Singleton
      <4>. QED  BY <3>2, <4>5
    <3>4. MostSpecific(c) = {d}
      BY <3>3 DEF MostSpecific
    <3>. QED  BY <1>3, <3>1, <3>3, <3>4 DEF Selected
  <2>. QED  BY <2>4, <2>5
<1>. QED  BY <1>2, <1>3

(* The inline cache holds the method declared in the class it names.        *)
CacheHoldsOwn ==
  cache.resolved_class # Nobody =>
    /\ cache.resolved_class \in Types /\ Declares(cache.resolved_class)
    /\ cache.method = Method(cache.resolved_class)

DispatchInv == shape \in Shapes /\ CacheHoldsOwn /\ DispatchAgrees

LEMMA SameShape ==
  ASSUME shape' = shape, NEW c
  PROVE  /\ HasNativeOverride(c)' = HasNativeOverride(c) /\ Unambiguous(c)' = Unambiguous(c)
         /\ Selected(c)' = Selected(c) /\ NativeFallback(c)' = NativeFallback(c)
BY DEF HasNativeOverride, Unambiguous, Selected, NativeFallback, Places, Declares, Chain, Above,
       SuperOf, Candidates, IsInstanceOf, Parents, MostSpecific, FirstDeclared, Method

LEMMA CallAgrees ==
  ASSUME shape \in Shapes, shape' = shape, NEW c \in Classes, NEW how, NEW m,
         called' = [how |-> how, on |-> c, ran |-> m],
         IF how \notin {"callback", "lambda"} /\ HasNativeOverride(c) THEN m = <<"Native", c>>
         ELSE IF how \notin {"callback", "lambda"} /\ Resolve(c) = NotFound THEN m = NativeFallback(c)
         ELSE m = Resolve(c) \/ (how = "lambda" /\ Resolve(c)[1] = "Native" /\ m[1] = "Native")
  PROVE  DispatchAgrees'
<1>1. /\ called'.how = how /\ called'.on = c /\ called'.ran = m
  OBVIOUS
<1>2. /\ HasNativeOverride(c)' = HasNativeOverride(c) /\ Unambiguous(c)' = Unambiguous(c)
      /\ Selected(c)' = Selected(c) /\ NativeFallback(c)' = NativeFallback(c)
  BY SameShape
<1>3. Unambiguous(c) => Resolve(c) = Selected(c)
  BY ResolveAgrees
<1>. QED  BY <1>1, <1>2, <1>3 DEF DispatchAgrees

LEMMA CacheKept ==
  ASSUME CacheHoldsOwn, UNCHANGED <<shape, cache>> PROVE CacheHoldsOwn'
BY DEF CacheHoldsOwn, Declares, Method

LEMMA DispatchInitInv == DispatchInit => DispatchInv
BY DEF DispatchInit, DispatchInv, CacheHoldsOwn, DispatchAgrees

LEMMA DispatchStep == DispatchInv /\ [DispatchNext]_dvars => DispatchInv'
<1>. SUFFICES ASSUME DispatchInv, [DispatchNext]_dvars PROVE DispatchInv'
  OBVIOUS
<1>0. shape \in Shapes /\ CacheHoldsOwn /\ shape.target \in Classes
  BY ShapesAssumption DEF DispatchInv
<1>1. ASSUME NEW c \in Classes, InvokeVirtual(c) PROVE DispatchInv'
  <2>1. UNCHANGED shape
    BY <1>1 DEF InvokeVirtual
  <2>2. CASE HasNativeOverride(c)
    <3>1. called' = [how |-> "virtual", on |-> c, ran |-> <<"Native", c>>] /\ UNCHANGED cache
      BY <1>1, <2>2 DEF InvokeVirtual, Ran
    <3>2. DispatchAgrees'
      BY <1>0, <2>1, <2>2, <3>1, CallAgrees
    <3>. QED  BY <1>0, <2>1, <3>1, <3>2, CacheKept DEF DispatchInv
  <2>3. CASE ~HasNativeOverride(c) /\ Cached(c)
    <3>1. called' = [how |-> "virtual", on |-> c, ran |-> cache.method] /\ UNCHANGED cache
      BY <1>1, <2>3 DEF InvokeVirtual, Ran
    <3>2. cache.resolved_class = c /\ c # Nobody
      BY <2>3, TypesAssumption DEF Cached, Types
    <3>3. cache.method = Resolve(c) /\ Resolve(c) # NotFound
      BY <1>0, <3>2, ResolveFacts, MethodFound DEF CacheHoldsOwn, Types
    <3>4. DispatchAgrees'
      BY <1>0, <2>1, <2>3, <3>1, <3>3, CallAgrees
    <3>. QED  BY <1>0, <2>1, <3>1, <3>4, CacheKept DEF DispatchInv
  <2>4. CASE ~HasNativeOverride(c) /\ ~Cached(c) /\ Resolve(c) = NotFound
    <3>1. called' = [how |-> "virtual", on |-> c, ran |-> NativeFallback(c)] /\ UNCHANGED cache
      BY <1>1, <2>4 DEF InvokeVirtual, Ran
    <3>2. DispatchAgrees'
      BY <1>0, <2>1, <2>4, <3>1, CallAgrees
    <3>. QED  BY <1>0, <2>1, <3>1, <3>2, CacheKept DEF DispatchInv
  <2>5. CASE ~HasNativeOverride(c) /\ ~Cached(c) /\ Resolve(c) # NotFound
    <3>1. /\ called' = [how |-> "virtual", on |-> c, ran |-> Resolve(c)]
          /\ cache' = [resolved_class |-> Resolve(c)[2], method |-> Resolve(c)]
      BY <1>1, <2>5 DEF InvokeVirtual, Ran
    <3>2. DispatchAgrees'
      BY <1>0, <2>1, <2>5, <3>1, CallAgrees
    <3>3. PICK d \in Types : Declares(d) /\ Resolve(c) = Method(d)
      BY <1>0, <2>5, ResolveFacts
    <3>4. Resolve(c)[2] = d
      BY <1>0, <3>3, MethodFound
    <3>5. CacheHoldsOwn'
      BY <2>1, <3>1, <3>3, <3>4 DEF CacheHoldsOwn, Declares, Method
    <3>. QED  BY <1>0, <2>1, <3>2, <3>5 DEF DispatchInv
  <2>. QED  BY <2>2, <2>3, <2>4, <2>5
<1>2. ASSUME NEW c \in Classes, InvokeInterface(c) PROVE DispatchInv'
  <2>1. called' = [how |-> "interface", on |-> c, ran |-> DispatchInstance(c)] /\ UNCHANGED <<shape, cache>>
    BY <1>2 DEF InvokeInterface, Ran
  <2>2. DispatchAgrees'
    BY <1>0, <2>1, CallAgrees DEF DispatchInstance
  <2>. QED  BY <1>0, <2>1, <2>2, CacheKept DEF DispatchInv
<1>3. ASSUME NEW c \in Classes, CallVirtual(c) PROVE DispatchInv'
  <2>1. called' = [how |-> "callback", on |-> c, ran |-> Resolve(c)] /\ UNCHANGED <<shape, cache>>
    BY <1>3 DEF CallVirtual, Ran
  <2>2. DispatchAgrees'
    BY <1>0, <2>1, CallAgrees
  <2>. QED  BY <1>0, <2>1, <2>2, CacheKept DEF DispatchInv
<1>4. ASSUME InvokeLambda PROVE DispatchInv'
  <2>. DEFINE c == shape.target
  <2>1. called' = [how |-> "lambda", on |-> c, ran |-> DispatchLambda] /\ UNCHANGED <<shape, cache>>
    BY <1>4 DEF InvokeLambda, Ran
  <2>2. IF Resolve(c)[1] = "Native" THEN DispatchLambda[1] = "Native" ELSE DispatchLambda = Resolve(c)
    BY DEF DispatchLambda
  <2>. HIDE DEF c
  <2>3. DispatchAgrees'
    BY <1>0, <2>1, <2>2, CallAgrees DEF c
  <2>. QED  BY <1>0, <2>1, <2>3, CacheKept DEF DispatchInv
<1>5. ASSUME CallLambda PROVE DispatchInv'
  <2>1. /\ called' = [how |-> "callback", on |-> shape.target, ran |-> Resolve(shape.target)]
        /\ UNCHANGED <<shape, cache>>
    BY <1>5 DEF CallLambda, Ran
  <2>2. DispatchAgrees'
    BY <1>0, <2>1, CallAgrees
  <2>. QED  BY <1>0, <2>1, <2>2, CacheKept DEF DispatchInv
<1>6. CASE UNCHANGED dvars
  <2>1. UNCHANGED shape /\ UNCHANGED cache /\ UNCHANGED called
    BY <1>6 DEF dvars
  <2>2. DispatchAgrees'
    <3>. DEFINE c == called.on
    <3>1. /\ HasNativeOverride(c)' = HasNativeOverride(c) /\ Unambiguous(c)' = Unambiguous(c)
          /\ Selected(c)' = Selected(c) /\ NativeFallback(c)' = NativeFallback(c)
      BY <2>1, SameShape
    <3>. QED  BY <2>1, <3>1 DEF DispatchInv, DispatchAgrees
  <2>. QED  BY <1>0, <2>1, <2>2, CacheKept DEF DispatchInv
<1>. QED  BY <1>1, <1>2, <1>3, <1>4, <1>5, <1>6 DEF DispatchNext

(* Whatever the hierarchy and whatever was called before, a call runs the    *)
(* method the specification selects, by whichever way it is made, but for   *)
(* the exceptions DispatchAgrees names.                                     *)
THEOREM DispatchAgreesCorrect == DispatchSpec => []DispatchAgrees
<1>1. DispatchInv => DispatchAgrees
  BY DEF DispatchInv
<1>. QED  BY <1>1, DispatchInitInv, DispatchStep, PTL DEF DispatchSpec
-----------------------------------------------------------------------------
(***************************************************************************)
(* The string pool.                                                        *)
(***************************************************************************)
(* The slots in use are numbered from 0 without gaps, as the heap hands     *)
(* them out.                                                                *)
Dense(S) == \E n \in Nat : S = 0..(n - 1)

(* What a call in progress remembers agrees with the heap.                  *)
InterningCalls ==
  \A t \in Threads :
    /\ value[t] \in Strings
    /\ pc[t] \in {"insert", "native"} =>
         reference[t] \in Slots /\ heap[reference[t]] = value[t]

(* The type of the state.                                                   *)
PoolTypes ==
  /\ \A s \in Slots : heap[s] \in Strings
  /\ pc \in [Threads -> Phases]
  /\ value \in [Threads -> Strings]
  /\ DOMAIN reference = Threads
  /\ string_pool \in [Strings -> Slots \cup {Null}]
  /\ interned \subseteq Slots

PoolInv == Dense(Slots) /\ PoolTypes /\ InterningCalls /\ PoolOfOwnValue

-----------------------------------------------------------------------------
(* The heap hands out a slot that is not in use.                            *)
LEMMA NextSlotFresh ==
  ASSUME Dense(Slots)
  PROVE  /\ NextSlot \in Nat
         /\ NextSlot \notin Slots
         /\ Dense(Slots \cup {NextSlot})
<1>1. PICK n \in Nat : Slots = 0..(n - 1)
  BY DEF Dense
<1>2. IsFiniteSet(Slots) /\ Cardinality(Slots) = n
  <2>1. 0..(n - 1) = IF 0 > n - 1 THEN {} ELSE 0..(n - 1)
    OBVIOUS
  <2>2. /\ IsFiniteSet(0..(n - 1))
        /\ Cardinality(0..(n - 1)) = IF 0 > n - 1 THEN 0 ELSE (n - 1) - 0 + 1
    BY FS_Interval
  <2>. QED  BY <1>1, <2>2
<1>3. Slots \cup {n} = 0..((n + 1) - 1)
  BY <1>1
<1>. QED  BY <1>1, <1>2, <1>3 DEF NextSlot, Dense

(* Allocating a string adds one slot and leaves the others alone.           *)
LEMMA AllocateAdds ==
  ASSUME Dense(Slots), NEW v, heap' = Allocate(v)
  PROVE  /\ Slots' = Slots \cup {NextSlot}
         /\ heap'[NextSlot] = v
         /\ \A s \in Slots : heap'[s] = heap[s]
         /\ Dense(Slots)'
<1>1. Slots' = Slots \cup {NextSlot}
  BY DEF Allocate, Slots
<1>2. NextSlot \notin Slots /\ Dense(Slots \cup {NextSlot})
  BY NextSlotFresh
<1>3. heap'[NextSlot] = v /\ \A s \in Slots : heap'[s] = heap[s]
  BY <1>2 DEF Allocate
<1>. QED  BY <1>1, <1>2, <1>3 DEF Dense

-----------------------------------------------------------------------------
LEMMA PoolInit == Init => PoolInv
<1>. SUFFICES ASSUME Init PROVE PoolInv
  OBVIOUS
<1>1. Slots = {}
  BY DEF Init, Slots
<1>2. Dense(Slots)
  <2>1. Slots = 0..(0 - 1)
    BY <1>1
  <2>. QED  BY <2>1 DEF Dense
<1>. QED  BY <1>1, <1>2 DEF Init, PoolInv, PoolTypes, InterningCalls, PoolOfOwnValue, Phases

(* Every step preserves it: most leave the heap alone, and the two that     *)
(* allocate only add a slot.                                                *)
LEMMA PoolStep == PoolInv /\ [Next]_vars => PoolInv'
<1>. SUFFICES ASSUME PoolInv, [Next]_vars PROVE PoolInv'
  OBVIOUS
<1>0. Dense(Slots) /\ PoolTypes /\ InterningCalls /\ PoolOfOwnValue
  BY DEF PoolInv
<1>1. ASSUME NEW t \in Threads, NEW v \in Strings, NewString(t, v) PROVE PoolInv'
  <2>1. /\ Slots' = Slots \cup {NextSlot}
        /\ heap'[NextSlot] = v
        /\ \A s \in Slots : heap'[s] = heap[s]
        /\ Dense(Slots)'
    BY <1>0, <1>1, AllocateAdds DEF NewString
  <2>2. PoolTypes'
    BY <1>0, <1>1, <2>1 DEF PoolTypes, Phases, NewString, Goto, InterningCalls
  <2>3. InterningCalls'
    BY <1>0, <1>1, <2>1 DEF PoolTypes, InterningCalls, NewString, Goto
  <2>4. PoolOfOwnValue'
    BY <1>0, <1>1, <2>1 DEF PoolTypes, PoolOfOwnValue, InterningCalls, NewString, Goto
  <2>. QED  BY <2>1, <2>2, <2>3, <2>4 DEF PoolInv
<1>2. ASSUME NEW t \in Threads, NEW v \in ClassStrings, InternString(t, v) PROVE PoolInv'
  <2>0. v \in Strings
    BY InterningAssumption
  <2>1. heap' = heap /\ Slots' = Slots /\ Dense(Slots)'
    BY <1>0, <1>2 DEF InternString, Slots, Dense
  <2>2. PoolTypes'
    BY <1>0, <1>2, <2>0, <2>1 DEF PoolTypes, Phases, InternString, Goto, InterningCalls
  <2>3. InterningCalls'
    BY <1>0, <1>2, <2>0, <2>1 DEF PoolTypes, InterningCalls, InternString, Goto
  <2>4. PoolOfOwnValue'
    BY <1>0, <1>2, <2>0, <2>1 DEF PoolTypes, PoolOfOwnValue, InterningCalls, InternString, Goto
  <2>. QED  BY <2>1, <2>2, <2>3, <2>4 DEF PoolInv
<1>3. ASSUME NEW t \in Threads, InternAllocate(t) PROVE PoolInv'
  <2>1. /\ Slots' = Slots \cup {NextSlot}
        /\ heap'[NextSlot] = value[t]
        /\ \A s \in Slots : heap'[s] = heap[s]
        /\ Dense(Slots)'
    BY <1>0, <1>3, AllocateAdds DEF InternAllocate
  <2>2. PoolTypes'
    BY <1>0, <1>3, <2>1 DEF PoolTypes, Phases, InternAllocate, Goto, InterningCalls
  <2>3. InterningCalls'
    BY <1>0, <1>3, <2>1 DEF PoolTypes, InterningCalls, InternAllocate, Goto
  <2>4. PoolOfOwnValue'
    BY <1>0, <1>3, <2>1 DEF PoolTypes, PoolOfOwnValue, InterningCalls, InternAllocate, Goto
  <2>. QED  BY <2>1, <2>2, <2>3, <2>4 DEF PoolInv
<1>4. ASSUME NEW t \in Threads, InternInsert(t) PROVE PoolInv'
  <2>1. heap' = heap /\ Slots' = Slots /\ Dense(Slots)'
    BY <1>0, <1>4 DEF InternInsert, Slots, Dense
  <2>2. PoolTypes'
    BY <1>0, <1>4, <2>1 DEF PoolTypes, Phases, InternInsert, Goto, InterningCalls
  <2>3. InterningCalls'
    BY <1>0, <1>4, <2>1 DEF PoolTypes, InterningCalls, InternInsert, Goto
  <2>4. PoolOfOwnValue'
    BY <1>0, <1>4, <2>1 DEF PoolTypes, PoolOfOwnValue, InterningCalls, InternInsert, Goto
  <2>. QED  BY <2>1, <2>2, <2>3, <2>4 DEF PoolInv
<1>5. ASSUME NEW t \in Threads, NEW s \in Slots, Intern(t, s) PROVE PoolInv'
  <2>1. heap' = heap /\ Slots' = Slots /\ Dense(Slots)'
    BY <1>0, <1>5 DEF Intern, Slots, Dense
  <2>2. PoolTypes'
    BY <1>0, <1>5, <2>1 DEF PoolTypes, Phases, Intern, Goto, InterningCalls
  <2>3. InterningCalls'
    BY <1>0, <1>5, <2>1 DEF PoolTypes, InterningCalls, Intern, Goto
  <2>4. PoolOfOwnValue'
    BY <1>0, <1>5, <2>1 DEF PoolTypes, PoolOfOwnValue, InterningCalls, Intern, Goto
  <2>. QED  BY <2>1, <2>2, <2>3, <2>4 DEF PoolInv
<1>6. ASSUME NEW t \in Threads, InternPool(t) PROVE PoolInv'
  <2>1. heap' = heap /\ Slots' = Slots /\ Dense(Slots)'
    BY <1>0, <1>6 DEF InternPool, Slots, Dense
  <2>2. PoolTypes'
    BY <1>0, <1>6, <2>1 DEF PoolTypes, Phases, InternPool, Goto, Pooled, InterningCalls
  <2>3. InterningCalls'
    BY <1>0, <1>6, <2>1 DEF PoolTypes, InterningCalls, InternPool, Goto, Pooled
  <2>4. PoolOfOwnValue'
    BY <1>0, <1>6, <2>1 DEF PoolTypes, PoolOfOwnValue, InterningCalls, InternPool, Goto, Pooled
  <2>. QED  BY <2>1, <2>2, <2>3, <2>4 DEF PoolInv
<1>7. CASE UNCHANGED vars
  <2>1. heap' = heap /\ Slots' = Slots /\ Dense(Slots)'
    BY <1>0, <1>7 DEF vars, Slots, Dense
  <2>. QED  BY <1>0, <1>7, <2>1 DEF vars, PoolInv, PoolTypes, InterningCalls, PoolOfOwnValue
<1>. QED  BY <1>1, <1>2, <1>3, <1>4, <1>5, <1>6, <1>7 DEF Next

(* Whatever threads race for it, a string is pooled under its own value.    *)
THEOREM PoolOfOwnValueCorrect == Spec => []PoolOfOwnValue
<1>1. PoolInv => PoolOfOwnValue
  BY DEF PoolInv
<1>. QED  BY PoolInit, PoolStep, <1>1, PTL DEF Spec

-----------------------------------------------------------------------------
(* intern_string is called with constants of classes only, and whatever     *)
(* else has been interned is the pooled reference of its value.             *)
NativeInv ==
  /\ \A t \in Threads :
       pc[t] \in {"allocate", "insert"} => value[t] \in ClassStrings
  /\ \A r \in interned :
       heap[r] \notin ClassStrings => string_pool[heap[r]] = r

LEMMA NativeStep ==
  PoolInv /\ NativeInv /\ [Next]_vars => NativeInv'
<1>. SUFFICES ASSUME PoolInv, NativeInv, [Next]_vars PROVE NativeInv'
  OBVIOUS
<1>. USE DEF NativeInv
<1>0. /\ interned \subseteq Slots /\ Dense(Slots)
      /\ pc \in [Threads -> Phases]
      /\ value \in [Threads -> Strings]
      /\ \A s \in Slots : heap[s] \in Strings
      /\ string_pool \in [Strings -> Slots \cup {Null}]
  BY DEF PoolInv, PoolTypes
<1>1. ASSUME NEW t \in Threads, NEW v \in Strings, NewString(t, v) PROVE NativeInv'
  <2>1. \A s \in Slots : heap'[s] = heap[s]
    BY <1>0, <1>1, AllocateAdds DEF NewString
  <2>. QED  BY <1>0, <1>1, <2>1 DEF NewString
<1>2. ASSUME NEW t \in Threads, NEW v \in ClassStrings, InternString(t, v) PROVE NativeInv'
  <2>1. heap' = heap /\ string_pool' = string_pool
    BY <1>2 DEF InternString
  <2>2. CASE string_pool[v] # Null /\ interned' = interned \cup {string_pool[v]}
                                   /\ UNCHANGED <<pc, value>>
    <3>1. heap[string_pool[v]] = v
      BY <2>2, InterningAssumption DEF PoolInv, PoolOfOwnValue
    <3>. QED  BY <2>1, <2>2, <3>1
  <2>3. CASE UNCHANGED interned /\ value' = [value EXCEPT ![t] = v]
                                /\ Goto(t, "allocate")
    BY <1>0, <2>1, <2>3 DEF Goto
  <2>. QED  BY <1>2, <2>2, <2>3 DEF InternString
<1>3. ASSUME NEW t \in Threads, InternAllocate(t) PROVE NativeInv'
  <2>1. \A s \in Slots : heap'[s] = heap[s]
    BY <1>0, <1>3, AllocateAdds DEF InternAllocate
  <2>. QED  BY <1>0, <1>3, <2>1 DEF InternAllocate, Goto
<1>4. ASSUME NEW t \in Threads, InternInsert(t) PROVE NativeInv'
  <2>1. value[t] \in ClassStrings /\ heap[reference[t]] = value[t] /\ heap' = heap
    BY <1>4 DEF PoolInv, InterningCalls, InternInsert
  <2>2. /\ string_pool' = [string_pool EXCEPT ![value[t]] = reference[t]]
        /\ interned' = interned \cup {reference[t]}
    BY <1>4 DEF InternInsert
  <2>3. \A r \in interned' :
          heap'[r] \notin ClassStrings => string_pool'[heap'[r]] = r
    BY <1>0, <2>1, <2>2
  <2>. QED  BY <1>0, <1>4, <2>3 DEF InternInsert, Goto
<1>5. ASSUME NEW t \in Threads, NEW s \in Slots, Intern(t, s) PROVE NativeInv'
  BY <1>0, <1>5 DEF Intern, Goto
<1>6. ASSUME NEW t \in Threads, InternPool(t) PROVE NativeInv'
  <2>1. /\ value[t] \in Strings /\ reference[t] \in Slots
        /\ heap[reference[t]] = value[t] /\ heap' = heap
    BY <1>6 DEF PoolInv, InterningCalls, InternPool
  <2>2. \A u \in Threads :
          pc'[u] \in {"allocate", "insert"} => value'[u] \in ClassStrings
    BY <1>0, <1>6 DEF InternPool, Goto
  <2>3. CASE Pooled(value[t])
    <3>1. /\ string_pool' = string_pool
          /\ interned' = interned \cup {string_pool[value[t]]}
      BY <1>6, <2>3 DEF InternPool
    <3>2. heap[string_pool[value[t]]] = value[t]
      BY <2>1, <2>3 DEF PoolInv, PoolOfOwnValue, Pooled
    <3>. QED  BY <2>1, <2>2, <3>1, <3>2
  <2>4. CASE ~Pooled(value[t])
    <3>1. /\ string_pool' = [string_pool EXCEPT ![value[t]] = reference[t]]
          /\ interned' = interned \cup {reference[t]}
      BY <1>6, <2>4 DEF InternPool
    <3>2. \A r \in interned : heap[r] \notin ClassStrings => heap[r] # value[t]
      <4>1. \A r \in interned : r # Null
        <5>1. PICK n \in Nat : Slots = 0..(n - 1)
          BY <1>0 DEF Dense
        <5>. QED  BY <1>0, <5>1, InterningAssumption
      <4>. QED  BY <2>4, <4>1 DEF Pooled
    <3>. QED  BY <1>0, <2>1, <2>2, <3>1, <3>2
  <2>. QED  BY <2>3, <2>4
<1>7. CASE UNCHANGED vars
  BY <1>7 DEF vars
<1>. QED  BY <1>1, <1>2, <1>3, <1>4, <1>5, <1>6, <1>7 DEF Next

LEMMA NativeInitially == Init => NativeInv
  BY DEF Init, NativeInv

(* String.intern() alone is canonical: equal strings, one reference.        *)
THEOREM NativeInternedOnceCorrect == Spec => []NativeInternedOnce
<1>1. PoolInv /\ NativeInv => NativeInternedOnce
  BY DEF PoolInv, NativeInv, NativeInternedOnce
<1>. QED  BY PoolInit, PoolStep, NativeInitially, NativeStep, <1>1, PTL DEF Spec

(* What String.intern() has pooled stays pooled, as the same reference.     *)
THEOREM NativePoolStableCorrect == Spec => NativePoolStable
<1>1. ASSUME PoolInv, NativeInv, [Next]_vars, NEW v \in Strings \ ClassStrings,
             string_pool[v] # Null
      PROVE  string_pool'[v] = string_pool[v]
  <2>1. string_pool \in [Strings -> Slots \cup {Null}] /\ value \in [Threads -> Strings]
    BY <1>1 DEF PoolInv, PoolTypes
  <2>2. ASSUME NEW t \in Threads, InternInsert(t) PROVE string_pool'[v] = string_pool[v]
    BY <1>1, <2>1, <2>2 DEF InternInsert, NativeInv
  <2>3. ASSUME NEW t \in Threads, InternPool(t) PROVE string_pool'[v] = string_pool[v]
    BY <1>1, <2>1, <2>3 DEF InternPool, Pooled
  <2>4. CASE UNCHANGED string_pool
    BY <2>4
  <2>. QED
    BY <1>1, <2>2, <2>3, <2>4
    DEF Next, vars, NewString, InternString, InternAllocate, Intern
<1>2. PoolInv /\ NativeInv /\ [Next]_vars =>
        [\A v \in Strings \ ClassStrings : string_pool[v] # Null =>
           string_pool'[v] = string_pool[v]]_vars
  BY <1>1
<1>. QED
  BY PoolInit, PoolStep, NativeInitially, NativeStep, <1>2, PTL DEF Spec, NativePoolStable
=============================================================================
