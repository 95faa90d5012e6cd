--------------------------- MODULE VerifierProofs ---------------------------
(***************************************************************************)
(* Facts about the verifier and the interpreter, for any method and any    *)
(* methods it calls that were accepted before: the states the verifier     *)
(* accepts a method with are a post-fixed point of the data flow, what     *)
(* executes is always covered by them, and what the compiler has on its    *)
(* stack is the top of theirs.                                             *)
(***************************************************************************)
EXTENDS CompiledExecution, FiniteSetTheorems, SequenceTheorems, WellFoundedInduction, TLAPS

(* Lists.                                                                   *)
LEMMA ListIsSeq ==
  ASSUME NEW s, IsList(s)
  PROVE  s \in Seq({s[j] : j \in 1 .. Len(s)})
BY DEF IsList

LEMMA SeqIsList ==
  ASSUME NEW S, NEW s \in Seq(S)
  PROVE  IsList(s)
BY DEF IsList

LEMMA ListOf ==
  ASSUME NEW n \in Nat, NEW s, s = [j \in 1 .. n |-> s[j]]
  PROVE  IsList(s) /\ Len(s) = n
BY DEF IsList

LEMMA Joined ==
  ASSUME NEW s, NEW t, IsList(s), IsList(t)
  PROVE  /\ IsList(s \o t) /\ Len(s \o t) = Len(s) + Len(t)
         /\ \A j \in 1 .. Len(s) : (s \o t)[j] = s[j]
         /\ \A j \in 1 .. Len(t) : (s \o t)[Len(s) + j] = t[j]
<1>. DEFINE S == {s[j] : j \in 1 .. Len(s)} \cup {t[j] : j \in 1 .. Len(t)}
<1>1. s \in Seq(S) /\ t \in Seq(S)
  BY DEF IsList
<1>2. s \o t \in Seq(S) /\ Len(s \o t) = Len(s) + Len(t)
  BY <1>1, ConcatProperties
<1>3. Len(s) \in Nat /\ Len(t) \in Nat
  BY DEF IsList
<1>4. \A j \in 1 .. Len(s) : (s \o t)[j] = s[j]
  BY <1>1, <1>3
<1>5. \A j \in 1 .. Len(t) : (s \o t)[Len(s) + j] = t[j]
  BY <1>1, <1>3
<1>. QED  BY <1>2, <1>4, <1>5, SeqIsList

LEMMA Rest ==
  ASSUME NEW s, IsList(s), NEW n \in Nat, n <= Len(s)
  PROVE  /\ IsList(Below(s, n)) /\ Len(Below(s, n)) = Len(s) - n
         /\ \A j \in 1 .. Len(s) - n : Below(s, n)[j] = s[n + j]
<1>. DEFINE S == {s[j] : j \in 1 .. Len(s)}
<1>1. Len(s) \in Nat
  BY DEF IsList
<1>2. \A j \in n + 1 .. Len(s) : s[j] \in S
  OBVIOUS
<1>. HIDE DEF S
<1>3. /\ SubSeq(s, n + 1, Len(s)) \in Seq(S)
      /\ Len(SubSeq(s, n + 1, Len(s))) = IF n + 1 <= Len(s) THEN Len(s) - (n + 1) + 1 ELSE 0
      /\ \A j \in 1 .. Len(s) - (n + 1) + 1 : SubSeq(s, n + 1, Len(s))[j] = s[n + 1 + j - 1]
  BY <1>1, <1>2, SubSeqProperties
<1>4. ASSUME NEW j \in 1 .. Len(s) - n PROVE SubSeq(s, n + 1, Len(s))[j] = s[n + j]
  <2>1. j \in 1 .. Len(s) - (n + 1) + 1 /\ n + 1 + j - 1 = n + j
    BY <1>1
  <2>. QED  BY <1>3, <2>1
<1>5. IsList(SubSeq(s, n + 1, Len(s)))
  BY <1>3, SeqIsList
<1>6. Len(SubSeq(s, n + 1, Len(s))) = Len(s) - n
  BY <1>1, <1>3
<1>. QED  BY <1>4, <1>5, <1>6 DEF Below

-----------------------------------------------------------------------------
(* The order of types and states.                                           *)
LEMMA TypeBelowTransitive ==
  ASSUME NEW a, NEW b, NEW c, TypeBelow(a, b), TypeBelow(b, c)
  PROVE  TypeBelow(a, c)
BY DEF TypeBelow, IsRef, AnyRef, Ref, Unset, NullT

LEMMA AllBelowTransitive ==
  ASSUME NEW s, NEW t, NEW u, AllBelow(s, t), AllBelow(t, u)
  PROVE  AllBelow(s, u)
BY TypeBelowTransitive DEF AllBelow

LEMMA StateBelowTransitive ==
  ASSUME NEW s, NEW t, NEW u, StateBelow(s, t), StateBelow(t, u)
  PROVE  StateBelow(s, u)
BY AllBelowTransitive DEF StateBelow

LEMMA StateBelowReflexive == \A s : StateBelow(s, s)
BY DEF StateBelow, AllBelow, TypeBelow

(* The merge of two types stands for all that either does.                  *)
LEMMA MergeTypeAbove ==
  ASSUME NEW a, NEW b, MergeType(a, b) # Error
  PROVE  TypeBelow(a, MergeType(a, b)) /\ TypeBelow(b, MergeType(a, b))
<1>. USE DEF TypeBelow, IsRef, AnyRef, Ref, Unset, NullT
<1>1. CASE a = b
  BY <1>1 DEF MergeType
<1>2. CASE a # b /\ Unset \in {a, b}
  BY <1>2 DEF MergeType
<1>3. CASE a # b /\ Unset \notin {a, b} /\ a = NullT /\ IsRef(b)
  BY <1>3 DEF MergeType
<1>4. CASE a # b /\ Unset \notin {a, b} /\ b = NullT /\ IsRef(a)
  BY <1>4 DEF MergeType
<1>5. CASE a # b /\ IsRef(a) /\ IsRef(b)
  BY <1>5 DEF MergeType
<1>6. CASE a # b /\ Unset \notin {a, b} /\ ~(a = NullT /\ IsRef(b)) /\ ~(b = NullT /\ IsRef(a))
             /\ ~(IsRef(a) /\ IsRef(b))
  BY <1>6 DEF MergeType
<1>. QED  BY <1>1, <1>2, <1>3, <1>4, <1>5, <1>6

(* An operand stack has no unset slots.                                    *)
Full(ts) == \A j \in 1 .. Len(ts) : ts[j] # Unset

LEMMA MergeTypeFull ==
  ASSUME NEW a, NEW b, a # Unset, b # Unset
  PROVE  MergeType(a, b) # Unset
<1>. USE DEF IsRef, AnyRef, Ref, Unset, NullT, Error
<1>1. CASE a = b
  BY <1>1 DEF MergeType
<1>2. CASE a # b /\ a = NullT /\ IsRef(b)
  BY <1>2 DEF MergeType
<1>3. CASE a # b /\ b = NullT /\ IsRef(a)
  BY <1>3 DEF MergeType
<1>4. CASE a # b /\ IsRef(a) /\ IsRef(b)
  BY <1>4 DEF MergeType
<1>5. CASE a # b /\ ~(a = NullT /\ IsRef(b)) /\ ~(b = NullT /\ IsRef(a)) /\ ~(IsRef(a) /\ IsRef(b))
  BY <1>5 DEF MergeType
<1>. QED  BY <1>1, <1>2, <1>3, <1>4, <1>5

LEMMA MergeAllAbove ==
  ASSUME NEW s, NEW t, IsList(s), IsList(t), Len(s) = Len(t),
         \A j \in DOMAIN MergeAll(s, t) : MergeAll(s, t)[j] # Error
  PROVE  /\ IsList(MergeAll(s, t)) /\ Len(MergeAll(s, t)) = Len(s)
         /\ AllBelow(s, MergeAll(s, t)) /\ AllBelow(t, MergeAll(s, t))
         /\ Full(s) /\ Full(t) => Full(MergeAll(s, t))
<1>1. Len(s) \in Nat
  BY DEF IsList
<1>2. /\ MergeAll(s, t) = [j \in 1 .. Len(s) |-> MergeAll(s, t)[j]]
      /\ \A j \in 1 .. Len(s) : MergeAll(s, t)[j] = MergeType(s[j], t[j])
      /\ DOMAIN MergeAll(s, t) = 1 .. Len(s)
  BY DEF MergeAll
<1>3. IsList(MergeAll(s, t)) /\ Len(MergeAll(s, t)) = Len(s)
  BY <1>1, <1>2, ListOf
<1>4. AllBelow(s, MergeAll(s, t)) /\ AllBelow(t, MergeAll(s, t))
  BY <1>2, <1>3, MergeTypeAbove DEF AllBelow
<1>5. Full(s) /\ Full(t) => Full(MergeAll(s, t))
  BY <1>2, <1>3, MergeTypeFull DEF Full
<1>. QED  BY <1>3, <1>4, <1>5

LEMMA StatesDiffer ==
  \A locals, stack : At(locals, stack) # NoState /\ At(locals, stack) # Clash
BY DEF At, NoState, Clash

LEMMA MergeStateAbove ==
  ASSUME NEW m, NEW old, NEW new, IsState(m, old), IsState(m, new),
         MergeState(old, new) # Clash
  PROVE  /\ IsState(m, MergeState(old, new))
         /\ StateBelow(old, MergeState(old, new))
         /\ StateBelow(new, MergeState(old, new))
         /\ old # NoState \/ new # NoState => MergeState(old, new) # NoState
<1>1. CASE new = NoState
  BY <1>1, StateBelowReflexive DEF MergeState, StateBelow
<1>2. CASE new # NoState /\ old = NoState
  BY <1>2, StateBelowReflexive DEF MergeState, StateBelow
<1>3. CASE new # NoState /\ old # NoState
  <2>. DEFINE locals == MergeAll(old.locals, new.locals)
              stack == MergeAll(old.stack, new.stack)
  <2>1. Len(old.stack) = Len(new.stack) /\ Len(old.locals) = Len(new.locals)
    BY <1>3 DEF IsState, MergeState
  <2>2. /\ ~ \E s \in {locals, stack} : \E j \in DOMAIN s : s[j] = Error
        /\ MergeState(old, new) = At(locals, stack)
    BY <1>3, <2>1 DEF MergeState
  <2>3. /\ IsList(old.locals) /\ IsList(new.locals) /\ IsList(old.stack) /\ IsList(new.stack)
    BY <1>3 DEF IsState
  <2>4. /\ \A j \in DOMAIN locals : locals[j] # Error
        /\ \A j \in DOMAIN stack : stack[j] # Error
    BY <2>2
  <2>5. /\ IsList(locals) /\ Len(locals) = Len(old.locals)
        /\ AllBelow(old.locals, locals) /\ AllBelow(new.locals, locals)
    BY <2>1, <2>3, <2>4, MergeAllAbove
  <2>6. /\ IsList(stack) /\ Len(stack) = Len(old.stack)
        /\ AllBelow(old.stack, stack) /\ AllBelow(new.stack, stack) /\ Full(stack)
    <3>1. Full(old.stack) /\ Full(new.stack)
      BY <1>3 DEF IsState, Full
    <3>. QED  BY <2>1, <2>3, <2>4, <3>1, MergeAllAbove
  <2>7. At(locals, stack).locals = locals /\ At(locals, stack).stack = stack
    BY DEF At
  <2>8. Len(old.locals) = m.max_locals
    BY <1>3 DEF IsState
  <2>. HIDE DEF locals, stack
  <2>. QED  BY <2>2, <2>5, <2>6, <2>7, <2>8, StatesDiffer DEF IsState, StateBelow, Full
<1>. QED  BY <1>1, <1>2, <1>3


-----------------------------------------------------------------------------
(* What an instruction makes of a state is a state.                         *)
LEMMA ShortLists ==
  /\ IsList(<<>>) /\ Len(<<>>) = 0
  /\ \A a : IsList(<<a>>)
  /\ \A a, b : IsList(<<a, b>>)
  /\ \A a, b, c : IsList(<<a, b, c>>)
  /\ \A a, b, c, d : IsList(<<a, b, c, d>>)
  /\ \A a, b, c, d, e : IsList(<<a, b, c, d, e>>)
  /\ \A a, b, c, d, e, f : IsList(<<a, b, c, d, e, f>>)
<1>1. IsList(<<>>) /\ Len(<<>>) = 0
  BY DEF IsList
<1>2. \A a : IsList(<<a>>)
  BY DEF IsList
<1>3. \A a, b : IsList(<<a, b>>)
  BY DEF IsList
<1>4. \A a, b, c : IsList(<<a, b, c>>)
  BY DEF IsList
<1>5. \A a, b, c, d : IsList(<<a, b, c, d>>)
  BY DEF IsList
<1>6. \A a, b, c, d, e : IsList(<<a, b, c, d, e>>)
  BY DEF IsList
<1>7. \A a, b, c, d, e, f : IsList(<<a, b, c, d, e, f>>)
  BY DEF IsList
<1>. QED  BY <1>1, <1>2, <1>3, <1>4, <1>5, <1>6, <1>7

LEMMA JoinedFull ==
  ASSUME NEW s, NEW t, IsList(s), IsList(t), Full(s), Full(t)
  PROVE  IsList(s \o t) /\ Full(s \o t)
<1>1. /\ IsList(s \o t) /\ Len(s \o t) = Len(s) + Len(t)
      /\ \A j \in 1 .. Len(s) : (s \o t)[j] = s[j]
      /\ \A j \in 1 .. Len(t) : (s \o t)[Len(s) + j] = t[j]
  BY Joined
<1>2. Len(s) \in Nat /\ Len(t) \in Nat
  BY DEF IsList
<1>3. ASSUME NEW j \in 1 .. Len(s \o t), j > Len(s) PROVE (s \o t)[j] # Unset
  <2>1. j - Len(s) \in 1 .. Len(t) /\ j = Len(s) + (j - Len(s))
    BY <1>1, <1>2, <1>3
  <2>. QED  BY <1>1, <2>1 DEF Full
<1>. QED  BY <1>1, <1>2, <1>3 DEF Full

LEMMA RestFull ==
  ASSUME NEW s, IsList(s), Full(s), NEW n \in Nat, n <= Len(s)
  PROVE  IsList(Below(s, n)) /\ Full(Below(s, n))
<1>1. /\ IsList(Below(s, n)) /\ Len(Below(s, n)) = Len(s) - n /\ Len(s) \in Nat
      /\ \A j \in 1 .. Len(s) - n : Below(s, n)[j] = s[n + j]
  BY Rest DEF IsList
<1>. QED  BY <1>1 DEF Full

LEMMA PushIsState ==
  ASSUME NEW m, NEW locals, NEW stack, NEW ts, IsList(locals), Len(locals) = m.max_locals,
         IsList(stack), IsList(ts), Full(stack), Full(ts)
  PROVE  IsState(m, Push(m, At(locals, stack), ts))
<1>1. At(locals, stack).locals = locals /\ At(locals, stack).stack = stack
  BY DEF At
<1>2. IsList(ts \o stack) /\ Full(ts \o stack)
  BY JoinedFull
<1>3. /\ At(locals, ts \o stack).locals = locals /\ At(locals, ts \o stack).stack = ts \o stack
  BY DEF At
<1>. QED  BY <1>1, <1>2, <1>3 DEF Push, IsState, Full

LEMMA AtIsState ==
  ASSUME NEW m, NEW locals, NEW stack, IsList(locals), Len(locals) = m.max_locals, IsList(stack),
         Full(stack)
  PROVE  IsState(m, At(locals, stack))
BY DEF At, IsState, Full

(* Each index of the picks is one of the values taken.                      *)
Picks(f) == IsList(f[1]) /\ IsList(f[2]) /\ \A k \in 1 .. Len(f[2]) : f[2][k] \in 1 .. Len(f[1])

LEMMA ShortPicks ==
  \A a, b, c, d :
    /\ Picks(<<<<a>>, <<>>>>) /\ Picks(<<<<a, b>>, <<>>>>)
    /\ Picks(<<<<a>>, <<1, 1>>>>) /\ Picks(<<<<a, b>>, <<2, 1>>>>)
    /\ Picks(<<<<a, b>>, <<1, 2, 1>>>>) /\ Picks(<<<<a, b, c>>, <<1, 2, 3, 1>>>>)
    /\ Picks(<<<<a, b>>, <<1, 2, 1, 2>>>>) /\ Picks(<<<<a, b, c>>, <<1, 2, 3, 1, 2>>>>)
    /\ Picks(<<<<a, b, c, d>>, <<1, 2, 3, 4, 1, 2>>>>)
<1>. TAKE a, b, c, d
<1>1. Picks(<<<<a>>, <<>>>>) /\ Picks(<<<<a, b>>, <<>>>>)
  BY ShortLists DEF Picks
<1>2. Picks(<<<<a>>, <<1, 1>>>>)
  BY ShortLists DEF Picks
<1>3. Picks(<<<<a, b>>, <<2, 1>>>>)
  BY ShortLists DEF Picks
<1>4. Picks(<<<<a, b>>, <<1, 2, 1>>>>)
  BY ShortLists DEF Picks
<1>5. Picks(<<<<a, b, c>>, <<1, 2, 3, 1>>>>)
  BY ShortLists DEF Picks
<1>6. Picks(<<<<a, b>>, <<1, 2, 1, 2>>>>)
  BY ShortLists DEF Picks
<1>7. Picks(<<<<a, b, c>>, <<1, 2, 3, 1, 2>>>>)
  BY ShortLists DEF Picks
<1>8. Picks(<<<<a, b, c, d>>, <<1, 2, 3, 4, 1, 2>>>>)
  BY ShortLists DEF Picks
<1>. QED  BY <1>1, <1>2, <1>3, <1>4, <1>5, <1>6, <1>7, <1>8

LEMMA FormsPick ==
  ASSUME NEW i, i.op \in StackOps,
         NEW f \in IF i.op \in {"dup2_x1", "dup2_x2"} THEN WideForms(i) ELSE Forms(i)
  PROVE  Picks(f)
<1>1. CASE i.op \in {"dup2_x1", "dup2_x2"}
  BY <1>1, ShortPicks DEF WideForms
<1>2. CASE i.op \in {"pop", "pop2", "dup", "dup_x1", "dup_x2", "dup2", "swap"}
  BY <1>2, ShortPicks DEF Forms
<1>. QED  BY <1>1, <1>2 DEF StackOps

LEMMA ShuffleIsState ==
  ASSUME NEW m, NEW i, NEW s, i.op \in StackOps, IsState(m, s), s # NoState
  PROVE  IsState(m, Shuffle(m, i, s))
<1>. DEFINE forms == IF i.op \in {"dup2_x1", "dup2_x2"} THEN WideForms(i) ELSE Forms(i)
            match == FormsFitting(forms, s.stack)
            f == CHOOSE x \in match : TRUE
<1>1. CASE match = {}
  BY <1>1 DEF Shuffle, IsState
<1>2. CASE match # {}
  <2>1. f \in match
    BY <1>2
  <2>2. f \in forms /\ Len(f[1]) <= Len(s.stack)
    BY <2>1 DEF FormsFitting
  <2>3. IsList(f[1]) /\ IsList(f[2]) /\ \A k \in 1 .. Len(f[2]) : f[2][k] \in 1 .. Len(f[1])
    BY <2>2, FormsPick DEF Picks
  <2>4. IsList(s.stack) /\ Full(s.stack) /\ IsList(s.locals) /\ Len(s.locals) = m.max_locals
    BY DEF IsState, Full
  <2>. Len(f[1]) \in Nat
    BY <2>3 DEF IsList
  <2>5. IsList(Below(s.stack, Len(f[1]))) /\ Full(Below(s.stack, Len(f[1])))
    BY <2>2, <2>4, RestFull
  <2>6. IsList(Permute(s.stack, f[2])) /\ Full(Permute(s.stack, f[2]))
    <3>. HIDE DEF f
    <3>1. /\ Len(s.stack) \in Nat /\ Len(f[2]) \in Nat
          /\ Permute(s.stack, f[2]) = [k \in 1 .. Len(f[2]) |-> s.stack[f[2][k]]]
      BY <2>3, <2>4 DEF IsList, Permute
    <3>2. \A k \in 1 .. Len(f[2]) : s.stack[f[2][k]] # Unset
      BY <2>2, <2>3, <2>4, <3>1 DEF Full
    <3>. QED  BY <3>1, <3>2 DEF IsList, Full
  <2>7. Shuffle(m, i, s) = Push(m, At(s.locals, Below(s.stack, Len(f[1]))), Permute(s.stack, f[2]))
    BY <1>2 DEF Shuffle
  <2>. QED  BY <2>4, <2>5, <2>6, <2>7, PushIsState
<1>. QED  BY <1>1, <1>2

LEMMA LoadIsState ==
  ASSUME NEW m, NEW i, NEW s, IsState(m, s), s # NoState
  PROVE  IsState(m, ApplyLoad(m, i, s))
<1>1. /\ IsList(s.stack) /\ Full(s.stack) /\ IsList(s.locals) /\ Len(s.locals) = m.max_locals
      /\ s = At(s.locals, s.stack)
  BY DEF IsState, Full
<1>2. ASSUME LoadLocal(i, s) # Unset PROVE IsState(m, Push(m, s, <<LoadLocal(i, s)>>))
  BY <1>1, <1>2, PushIsState, ShortLists DEF Full
<1>3. RefLike(LoadLocal(i, s)) \/ LoadLocal(i, s) = TypeOf(i.k) => LoadLocal(i, s) # Unset
  BY DEF RefLike, Unset, TypeOf, IntT, LongT, FloatT, DoubleT
<1>. QED  BY <1>2, <1>3 DEF ApplyLoad, IsState

LEMMA StoreSlotLists ==
  ASSUME NEW locals, NEW n, NEW v, NEW unset, IsList(locals)
  PROVE  /\ IsList(StoreSlot(locals, n, v, unset).locals)
         /\ Len(StoreSlot(locals, n, v, unset).locals) = Len(locals)
BY DEF StoreSlot, IsList

LEMMA StoreIsState ==
  ASSUME NEW m, NEW i, NEW s, IsState(m, s), s # NoState
  PROVE  IsState(m, ApplyStore(i, s))
<1>. DEFINE stored == StoreSlot(s.locals, i.n, s.stack[1], Unset)
<1>1. /\ IsList(s.stack) /\ Full(s.stack) /\ IsList(s.locals) /\ Len(s.locals) = m.max_locals
  BY DEF IsState, Full
<1>2. IsList(stored.locals) /\ Len(stored.locals) = m.max_locals
  BY <1>1, StoreSlotLists
<1>3. CASE Len(s.stack) # 0
  <2>. Len(s.stack) \in Nat
    BY <1>1 DEF IsList
  <2>1. IsList(Below(s.stack, 1)) /\ Full(Below(s.stack, 1))
    BY <1>1, <1>3, RestFull
  <2>2. IsState(m, At(stored.locals, Below(s.stack, 1)))
    BY <1>2, <2>1, AtIsState
  <2>. QED  BY <2>2, <1>3 DEF ApplyStore, IsState
<1>. QED  BY <1>3 DEF ApplyStore, IsState


Simple == Opcodes \ (StackOps \cup {"load", "store"})

LEMMA ArgumentsReversed ==
  ASSUME NEW args, IsList(args)
  PROVE  IsList([j \in 1 .. Len(args) |-> args[Len(args) + 1 - j]])
BY DEF IsList

LEMMA EffectsAreLists ==
  ASSUME NEW i, NEW pc, IsInstruction(i), i.op \in Simple
  PROVE  IsList(EffectOf(i, pc).pop) /\ IsList(EffectOf(i, pc).push) /\ Full(EffectOf(i, pc).push)
<1>0. /\ Full(<<>>)
      /\ \A k, p, c : /\ Full(<<TypeOf(k)>>) /\ Full(<<RetAddr(p)>>) /\ Full(<<Uninit(p)>>)
                      /\ Full(<<Ref(c)>>) /\ Full(<<AnyRef>>) /\ Full(<<IntT>>)
  BY ShortLists DEF Full, TypeOf, RetAddr, Uninit, Ref, AnyRef, Unset, IntT, LongT, FloatT, DoubleT
<1>00. \A t : IsType(t) \/ t = NullT => Full(<<t>>)
  BY DEF Full, IsType, Unset, IntT, LongT, FloatT, DoubleT, NullT
<1>. USE DEF Simple, Effect, StackOps
<1>1. CASE i.op = "const"
  BY <1>1, ShortLists, <1>0, <1>00 DEF EffectOf, ConstantEffect, IsInstruction
<1>2. CASE i.op = "arrayload"
  BY <1>2, ShortLists, <1>0, <1>00 DEF EffectOf, ArrayLoadEffect
<1>3. CASE i.op = "arraystore"
  BY <1>3, ShortLists, <1>0, <1>00 DEF EffectOf, ArrayStoreEffect
<1>4. CASE i.op \in {"bin", "div", "neg", "shift"}
  BY <1>4, ShortLists, <1>0, <1>00 DEF EffectOf, ArithmeticEffect
<1>5. CASE i.op = "conv"
  BY <1>5, ShortLists, <1>0, <1>00 DEF EffectOf, ConversionEffect
<1>6. CASE i.op = "if"
  <2>1. IsList([j \in 1 .. i.n |-> IF i.k = "A" THEN AnObject ELSE IntT])
    BY <1>6 DEF IsInstruction, IsList
  <2>. QED  BY <1>6, <2>1, ShortLists, <1>0, <1>00 DEF EffectOf, BranchEffect
<1>7. CASE i.op \in {"cmp", "switch", "goto", "iinc", "ret"}
  BY <1>7, ShortLists, <1>0, <1>00 DEF EffectOf, BranchEffect
<1>8. CASE i.op = "jsr"
  BY <1>8, ShortLists, <1>0, <1>00 DEF EffectOf
<1>9. CASE i.op \in {"getstatic", "putstatic", "getfield", "putfield"}
  <2>1. IsType(i.t)
    BY <1>9 DEF IsInstruction, Fields
  <2>. QED  BY <1>9, <2>1, ShortLists, <1>0, <1>00 DEF EffectOf, FieldEffect
<1>10. CASE i.op = "invoke"
  <2>. DEFINE args == [j \in 1 .. Len(i.args) |-> i.args[Len(i.args) + 1 - j]]
              this == CASE i.mode \in {"static", "dynamic"} -> <<>>
                        [] i.mode = "init" -> <<<<"Receiver">>>>
                        [] OTHER -> <<AnObject>>
  <2>6. AreTypes(i.args) /\ AreTypes(i.r)
    BY <1>10 DEF IsInstruction
  <2>1. IsList(i.args) /\ IsList(i.r)
    BY <2>6 DEF AreTypes
  <2>2. IsList(args)
    BY <2>1, ArgumentsReversed
  <2>3. IsList(this)
    BY ShortLists
  <2>4. IsList(args \o this)
    BY <2>2, <2>3, Joined
  <2>5. Full(i.r)
    BY <2>6 DEF AreTypes, IsType, Full, Unset, IntT, LongT, FloatT, DoubleT
  <2>. QED  BY <1>10, <2>1, ShortLists, <1>0, <1>00, <2>4, <2>5 DEF EffectOf, InvokeEffect
<1>11. CASE i.op = "return"
  BY <1>11, ShortLists, <1>0, <1>00 DEF EffectOf, ReturnEffect
<1>12. CASE i.op = "newarray"
  <2>1. IsList([j \in 1 .. i.n |-> IntT])
    BY <1>12 DEF IsInstruction, IsList
  <2>. QED  BY <1>12, <2>1, ShortLists, <1>0, <1>00 DEF EffectOf, ObjectEffect
<1>13. CASE i.op \in {"new", "arraylength", "instanceof", "checkcast", "monitor", "athrow"}
  BY <1>13, ShortLists, <1>0, <1>00 DEF EffectOf, ObjectEffect
<1>. QED  BY <1>1, <1>2, <1>3, <1>4, <1>5, <1>6, <1>7, <1>8, <1>9, <1>10, <1>11, <1>12, <1>13 DEF Opcodes, Fields

LEMMA EffectIsState ==
  ASSUME NEW m, NEW i, NEW pc, NEW s, IsInstruction(i), i.op \in Simple, IsState(m, s), s # NoState
  PROVE  IsState(m, ApplyEffect(m, i, pc, s))
<1>. DEFINE e == EffectOf(i, pc)
            n == Len(e.pop)
            popped == At(s.locals, Below(s.stack, n))
            after == IF i.op = "invoke" /\ i.mode = "init"
                     THEN Initialised(popped, s.stack[n], i.c) ELSE popped
            agrees == /\ n <= Len(s.stack)
                      /\ \A j \in 1 .. n : Fits(e.pop[j], s.stack[j])
                      /\ LocalAgrees(i, s)
                      /\ i.op = "return" => ReturnAgrees(m, i, s.stack)
<1>1. /\ IsList(s.stack) /\ IsList(s.locals) /\ Len(s.locals) = m.max_locals
  BY DEF IsState
<1>2. IsList(e.pop) /\ IsList(e.push) /\ Full(e.push)
  BY EffectsAreLists
<1>3. CASE ~agrees
  BY <1>3 DEF ApplyEffect, IsState
<1>0. Full(s.stack) /\ Full(<<>>)
  BY ShortLists DEF IsState, Full
<1>4. CASE agrees /\ i.op \in {"athrow", "return"}
  <2>1. IsState(m, At(s.locals, <<>>))
    BY <1>0, <1>1, AtIsState, ShortLists
  <2>. QED  BY <1>4, <2>1 DEF ApplyEffect
<1>5. CASE agrees /\ i.op \notin {"athrow", "return"}
  <2>. n \in Nat
    BY <1>2 DEF IsList
  <2>1. IsList(Below(s.stack, n)) /\ Full(Below(s.stack, n))
    BY <1>0, <1>1, <1>5, RestFull
  <2>2. /\ after = At(after.locals, after.stack)
        /\ IsList(after.locals) /\ Len(after.locals) = m.max_locals
        /\ IsList(after.stack) /\ Full(after.stack)
    <3>1. popped.locals = s.locals /\ popped.stack = Below(s.stack, n)
      BY DEF At
    <3>2. CASE i.op = "invoke" /\ i.mode = "init"
      <4>. DEFINE init(t) == IF t = s.stack[n] THEN Ref(i.c) ELSE t
                  locals == [j \in DOMAIN popped.locals |-> init(popped.locals[j])]
                  stack == [j \in DOMAIN popped.stack |-> init(popped.stack[j])]
      <4>1. IsList(locals) /\ Len(locals) = m.max_locals
        BY <1>1, <3>1 DEF IsList
      <4>2. IsList(stack) /\ Full(stack)
        <5>1. /\ Len(popped.stack) \in Nat /\ DOMAIN popped.stack = 1 .. Len(popped.stack)
              /\ \A j \in 1 .. Len(popped.stack) : popped.stack[j] # Unset
          BY <2>1, <3>1 DEF IsList, Full
        <5>2. IsList(stack) /\ Len(stack) = Len(popped.stack)
          BY <5>1 DEF IsList
        <5>3. \A j \in 1 .. Len(popped.stack) : stack[j] # Unset
          BY <5>1 DEF Ref, Unset
        <5>. HIDE DEF stack
        <5>. QED  BY <5>2, <5>3 DEF Full
      <4>3. after = At(locals, stack)
        BY <3>2 DEF Initialised
      <4>. HIDE DEF locals, stack, after
      <4>. QED  BY <4>1, <4>2, <4>3 DEF At
    <3>3. CASE ~(i.op = "invoke" /\ i.mode = "init")
      BY <1>1, <2>1, <3>1, <3>3 DEF At
    <3>. QED  BY <3>2, <3>3
  <2>3. ApplyEffect(m, i, pc, s) = Push(m, after, e.push)
    BY <1>5 DEF ApplyEffect
  <2>. HIDE DEF after, e
  <2>4. IsState(m, Push(m, At(after.locals, after.stack), e.push))
    BY <1>2, <2>2, PushIsState
  <2>. QED  BY <2>2, <2>3, <2>4
<1>. QED  BY <1>3, <1>4, <1>5

LEMMA ApplyIsState ==
  ASSUME NEW m, IsMethod(m), NEW pc \in DOMAIN m.code, NEW s, IsState(m, s), s # NoState
  PROVE  IsState(m, Apply(m, pc, s))
<1>. DEFINE i == m.code[pc]
<1>1. IsInstruction(i)
  BY DEF IsMethod
<1>2. CASE i.op = "load"
  BY <1>2, LoadIsState DEF Apply, StackOps
<1>3. CASE i.op = "store"
  BY <1>3, StoreIsState DEF Apply, StackOps
<1>4. CASE i.op \in StackOps
  BY <1>4, ShuffleIsState DEF Apply, StackOps
<1>5. CASE i.op \in Simple
  <2>1. Apply(m, pc, s) = ApplyEffect(m, i, pc, s)
    BY <1>5 DEF Apply, Simple
  <2>. QED  BY <1>1, <1>5, <2>1, EffectIsState
<1>. QED  BY <1>1, <1>2, <1>3, <1>4, <1>5 DEF IsInstruction, Simple


-----------------------------------------------------------------------------
(* The exits of an instruction.                                             *)
LEMMA TargetsAreList ==
  ASSUME NEW i, IsInstruction(i), NEW s
  PROVE  IsList(Targets(i, s))
<1>1. CASE i.op \in {"if", "goto", "jsr"}
  BY <1>1, ShortLists DEF Targets
<1>2. CASE i.op = "switch"
  BY <1>2 DEF Targets, IsInstruction
<1>3. CASE i.op = "ret"
  BY <1>3, ShortLists DEF Targets
<1>4. CASE i.op \notin {"if", "goto", "jsr", "switch", "ret"}
  BY <1>4, ShortLists DEF Targets
<1>. QED  BY <1>1, <1>2, <1>3, <1>4

LEMMA OutgoingStates ==
  ASSUME NEW m, IsMethod(m), NEW pc \in DOMAIN m.code, NEW s, IsState(m, s), s # NoState,
         Apply(m, pc, s) # NoState
  PROVE  /\ IsList(Outgoing(m, pc, s))
         /\ \A j \in 1 .. Len(Outgoing(m, pc, s)) : IsState(m, Outgoing(m, pc, s)[j][2])
<1>. DEFINE i == m.code[pc]
            after == Apply(m, pc, s)
            targets == Targets(i, after)
            caught == [h \in 1 .. Len(m.handlers) |-> <<m.handlers[h].to, Caught(m, h, pc, s)>>]
            next == IF i.op \in Leaves THEN <<>> ELSE <<<<pc + 1, after>>>>
            jumps == [j \in 1 .. Len(targets) |-> <<targets[j], after>>]
<1>1. IsState(m, after)
  BY ApplyIsState
<1>2. IsList(caught) /\ \A j \in 1 .. Len(caught) : IsState(m, caught[j][2])
  <2>1. ASSUME NEW h PROVE IsState(m, Caught(m, h, pc, s))
    <3>1. IsList(s.locals) /\ Len(s.locals) = m.max_locals
      BY DEF IsState
    <3>2. \A c : IsState(m, At(s.locals, <<Ref(c)>>))
      <4>1. \A c : Full(<<Ref(c)>>)
        BY DEF Full, Ref, Unset
      <4>. QED  BY <3>1, <4>1, AtIsState, ShortLists
    <3>. QED  BY <3>2 DEF Caught, IsState
  <2>2. IsList(caught) /\ Len(caught) = Len(m.handlers)
    BY DEF IsMethod, IsList
  <2>. QED  BY <2>1, <2>2
<1>3. IsList(next) /\ \A j \in 1 .. Len(next) : IsState(m, next[j][2])
  BY <1>1, ShortLists
<1>4. IsList(jumps) /\ \A j \in 1 .. Len(jumps) : IsState(m, jumps[j][2])
  <2>1. IsList(targets)
    BY TargetsAreList DEF IsMethod
  <2>2. IsList(jumps) /\ Len(jumps) = Len(targets)
    BY <2>1 DEF IsList
  <2>. QED  BY <1>1, <2>2
<1>5. Outgoing(m, pc, s) = caught \o next \o jumps
  BY DEF Outgoing
<1>. HIDE DEF caught, next, jumps
<1>6. ASSUME NEW a, NEW b, IsList(a), IsList(b),
             \A j \in 1 .. Len(a) : IsState(m, a[j][2]), \A j \in 1 .. Len(b) : IsState(m, b[j][2])
      PROVE  IsList(a \o b) /\ \A j \in 1 .. Len(a \o b) : IsState(m, (a \o b)[j][2])
  <2>1. /\ IsList(a \o b) /\ Len(a \o b) = Len(a) + Len(b)
        /\ \A j \in 1 .. Len(a) : (a \o b)[j] = a[j]
        /\ \A j \in 1 .. Len(b) : (a \o b)[Len(a) + j] = b[j]
    BY <1>6, Joined
  <2>2. Len(a) \in Nat /\ Len(b) \in Nat
    BY <1>6 DEF IsList
  <2>3. ASSUME NEW j \in 1 .. Len(a \o b), j > Len(a) PROVE IsState(m, (a \o b)[j][2])
    <3>1. j - Len(a) \in 1 .. Len(b) /\ j = Len(a) + (j - Len(a))
      BY <2>1, <2>2, <2>3
    <3>. QED  BY <2>1, <3>1, <1>6
  <2>. QED  BY <1>6, <2>1, <2>2, <2>3
<1>7. IsList(caught \o next) /\ \A j \in 1 .. Len(caught \o next) : IsState(m, (caught \o next)[j][2])
  BY <1>2, <1>3, <1>6
<1>. QED  BY <1>4, <1>5, <1>6, <1>7

-----------------------------------------------------------------------------
(* Merging them.                                                            *)
Listed(q) == {q[j] : j \in 1 .. Len(q)}

\* What merging the first j exits has done, as long as nothing went wrong.
Merged(work, out, j) ==
  work.verdict \in {"working", "error", "panic"} /\
  (work.verdict = "working" =>
    /\ work = [states |-> work.states, queue |-> work.queue, verdict |-> work.verdict]
    /\ work.states = [pc \in PCs |-> work.states[pc]]
    /\ \A pc \in PCs : /\ IsState(method, work.states[pc])
                       /\ StateBelow(states[pc], work.states[pc])
                       /\ work.states[pc] # states[pc] => pc \in Listed(work.queue)
    /\ work.queue \in Seq(PCs)
    /\ Listed(Tail(queue)) \subseteq Listed(work.queue)
    /\ \A pc \in Listed(work.queue) : work.states[pc] # NoState
    /\ \A k \in 1 .. j : Arrived(out[k], work.states))

LEMMA MergedNext ==
  ASSUME NEW work, NEW out, NEW j \in Nat, Merged(work, out, j), IsState(method, out[j + 1][2])
  PROVE  Merged(MergeOne(work, out[j + 1]), out, j + 1)
<1>. DEFINE exit == out[j + 1]
            pc == exit[1]
            new == MergeState(work.states[pc], exit[2])
            next == MergeOne(work, exit)
<1>1. CASE work.verdict # "working"
  BY <1>1 DEF Merged, MergeOne
<1>2. CASE work.verdict = "working" /\ (pc \notin PCs \/ new = Clash)
  <2>1. next.verdict \in {"error", "panic"}
    BY <1>2 DEF MergeOne, Merged
  <2>. QED  BY <2>1 DEF Merged
<1>3. CASE work.verdict = "working" /\ pc \in PCs /\ new # Clash
  <2>. SUFFICES Merged(next, out, j + 1)
    OBVIOUS
  <2>. USE <1>3
  <2>. HIDE DEF next
  <2>1. /\ IsState(method, new)
        /\ StateBelow(work.states[pc], new) /\ StateBelow(exit[2], new)
        /\ work.states[pc] # NoState \/ exit[2] # NoState => new # NoState
    <3>1. IsState(method, work.states[pc]) /\ IsState(method, exit[2])
      BY DEF Merged
    <3>. QED  BY <3>1, MergeStateAbove
  <2>3. CASE new = work.states[pc]
    <3>1. next = work
      BY <2>3 DEF MergeOne, next
    <3>2. Arrived(exit, work.states)
      BY <2>1, <2>3 DEF Arrived, Merged
    <3>3. ASSUME NEW n \in 1 .. j + 1 PROVE Arrived(out[n], work.states)
      <4>1. n = j + 1 \/ n \in 1 .. j
        OBVIOUS
      <4>. QED  BY <3>2, <4>1 DEF Merged
    <3>. QED  BY <3>1, <3>3 DEF Merged
  <2>4. CASE new # work.states[pc]
    <3>1. /\ next = [states |-> [work.states EXCEPT ![pc] = new],
                     queue |-> Append(work.queue, pc), verdict |-> "working"]
      BY <2>4 DEF MergeOne, next, Merged, Requeued
    <3>2. /\ next.states = [p \in PCs |-> IF p = pc THEN new ELSE work.states[p]]
          /\ next.queue = Append(work.queue, pc) /\ next.verdict = "working"
      BY <3>1 DEF Merged
    <3>3. new # NoState
      BY <2>1, <2>4 DEF MergeState
    <3>4. next.queue \in Seq(PCs) /\ Listed(next.queue) = Listed(work.queue) \cup {pc}
      <4>1. work.queue \in Seq(PCs)
        BY DEF Merged
      <4>. QED  BY <3>2, <4>1, AppendProperties DEF Listed
    <3>5. \A p \in PCs : StateBelow(work.states[p], next.states[p])
      BY <2>1, <3>2, StateBelowReflexive
    <3>6. ASSUME NEW p \in PCs
          PROVE  /\ IsState(method, next.states[p]) /\ StateBelow(states[p], next.states[p])
                 /\ next.states[p] # states[p] => p \in Listed(next.queue)
      BY <2>1, <3>2, <3>4, <3>5, StateBelowTransitive DEF Merged
    <3>7. \A p \in Listed(next.queue) : next.states[p] # NoState
      <4>1. Listed(work.queue) \subseteq PCs
        BY DEF Merged, Listed
      <4>. QED  BY <3>2, <3>3, <3>4, <4>1 DEF Merged
    <3>8. ASSUME NEW n \in 1 .. j + 1 PROVE Arrived(out[n], next.states)
      <4>1. CASE n = j + 1
        BY <2>1, <3>2, <4>1 DEF Arrived
      <4>2. CASE n \in 1 .. j
        <5>1. Arrived(out[n], work.states)
          BY <4>2 DEF Merged
        <5>2. DOMAIN work.states = PCs /\ DOMAIN next.states = PCs
          BY <3>2 DEF Merged
        <5>. QED  BY <3>5, <5>1, <5>2, StateBelowTransitive DEF Arrived
      <4>. QED  BY <4>1, <4>2
    <3>9. /\ next = [states |-> next.states, queue |-> next.queue, verdict |-> next.verdict]
          /\ next.states = [p \in PCs |-> next.states[p]]
          /\ Listed(Tail(queue)) \subseteq Listed(next.queue)
      BY <3>1, <3>2, <3>4 DEF Merged
    <3>. QED  BY <3>2, <3>4, <3>6, <3>7, <3>8, <3>9 DEF Merged
  <2>. QED  BY <2>3, <2>4
<1>. QED  BY <1>1, <1>2, <1>3


LEMMA Counting ==
  ASSUME NEW S, 0 \in S, \A n \in Nat : n \in S => n + 1 \in S
  PROVE  Nat \subseteq S
<1>. SUFFICES ASSUME Nat \ S # {} PROVE FALSE
  OBVIOUS
<1>1. PICK n \in Nat \ S : \A k \in Nat \ S : <<k, n>> \notin OpToRel(<, Nat)
  BY NatLessThanWellFounded, WFMin
<1>2. n # 0
  OBVIOUS
<1>3. n - 1 \in Nat /\ n - 1 < n
  BY <1>2
<1>4. n - 1 \in S
  BY <1>1, <1>3 DEF OpToRel
<1>5. (n - 1) + 1 = n
  OBVIOUS
<1>. QED  BY <1>3, <1>4, <1>5

Merging(out, n, f) ==
  f = [j \in 0 .. n |-> IF j = 0 THEN [states |-> states, queue |-> Tail(queue), verdict |-> "working"]
                        ELSE MergeOne(f[j - 1], out[j])]

LEMMA MergingExists ==
  ASSUME NEW out, NEW n \in Nat
  PROVE  \E f : Merging(out, n, f)
<1>. DEFINE S == {k \in Nat : \E f : Merging(out, k, f)}
<1>1. 0 \in S
  <2>. DEFINE g == [j \in 0 .. 0 |-> [states |-> states, queue |-> Tail(queue), verdict |-> "working"]]
  <2>1. Merging(out, 0, g)
    BY DEF Merging
  <2>. QED  BY <2>1
<1>2. ASSUME NEW k \in S PROVE k + 1 \in S
  <2>1. PICK f : Merging(out, k, f)
    OBVIOUS
  <2>. DEFINE g == [j \in 0 .. k + 1 |-> IF j = k + 1 THEN MergeOne(f[k], out[k + 1]) ELSE f[j]]
  <2>2. \A j \in 0 .. k : g[j] = f[j]
    OBVIOUS
  <2>3. g[k + 1] = MergeOne(f[k], out[k + 1])
    OBVIOUS
  <2>4. ASSUME NEW j \in 0 .. k + 1
        PROVE  g[j] = IF j = 0 THEN [states |-> states, queue |-> Tail(queue), verdict |-> "working"]
                      ELSE MergeOne(g[j - 1], out[j])
    <3>1. CASE j = k + 1
      <4>1. j # 0 /\ j - 1 = k /\ k \in 0 .. k
        BY <3>1
      <4>. QED  BY <2>2, <2>3, <3>1, <4>1
    <3>2. CASE j \in 0 .. k
      <4>1. j # 0 => j - 1 \in 0 .. k
        BY <3>2
      <4>2. f[j] = IF j = 0 THEN [states |-> states, queue |-> Tail(queue), verdict |-> "working"]
                   ELSE MergeOne(f[j - 1], out[j])
        BY <2>1, <3>2 DEF Merging
      <4>3. g[j] = f[j] /\ (j # 0 => g[j - 1] = f[j - 1])
        BY <2>2, <3>2, <4>1
      <4>. HIDE DEF g
      <4>. QED  BY <4>2, <4>3
    <3>. QED  BY <3>1, <3>2
  <2>5. g = [j \in 0 .. k + 1 |-> g[j]]
    OBVIOUS
  <2>. HIDE DEF g
  <2>6. Merging(out, k + 1, g)
    BY <2>4, <2>5 DEF Merging
  <2>. QED  BY <2>6
<1>. QED  BY <1>1, <1>2, Counting

(* The inductive invariant.  A state once merged only rises, and whatever    *)
(* an instruction would send out has arrived unless it is still queued.      *)
AllSettled == \A pc \in PCs : states[pc] = NoState \/ pc \in Listed(queue) \/ Settled(method, states, pc)

VerifierInv ==
  /\ IsMethod(method)
  /\ states = [pc \in PCs |-> states[pc]]
  /\ \A pc \in PCs : IsState(method, states[pc])
  /\ queue \in Seq(PCs)
  /\ \A pc \in Listed(queue) : states[pc] # NoState
  /\ StateBelow(At(InitialLocals(method), <<>>), states[1])
  /\ verdict \in {"working", "ok", "error", "panic"}
  /\ verdict = "working" => AllSettled
  /\ AcceptedIsFixedPoint

LEMMA MergedAll ==
  ASSUME VerifierInv, queue # <<>>, NEW out, IsList(out),
         \A j \in 1 .. Len(out) : IsState(method, out[j][2])
  PROVE  Merged(MergeOut(out), out, Len(out))
<1>. DEFINE first == [states |-> states, queue |-> Tail(queue), verdict |-> "working"]
<1>. Len(out) \in Nat
  BY DEF IsList
<1>1. PICK f : Merging(out, Len(out), f) /\ MergeOut(out) = f[Len(out)]
  <2>. DEFINE g == CHOOSE f : Merging(out, Len(out), f)
  <2>1. Merging(out, Len(out), g)
    BY MergingExists
  <2>2. MergeOut(out) = g[Len(out)]
    BY DEF MergeOut, Merging
  <2>. QED  BY <2>1, <2>2
<1>. DEFINE S == {n \in Nat : n <= Len(out) => Merged(f[n], out, n)}
<1>2. 0 \in S
  <2>1. f[0] = first
    BY <1>1 DEF Merging
  <2>2. Tail(queue) \in Seq(PCs) /\ Listed(Tail(queue)) \subseteq Listed(queue)
    <3>1. queue \in Seq(PCs) /\ Len(queue) \in Nat
      BY DEF VerifierInv
    <3>. QED  BY <3>1, HeadTailProperties DEF Listed
  <2>3. Merged(first, out, 0)
    <3>1. /\ first.states = states /\ first.queue = Tail(queue) /\ first.verdict = "working"
          /\ first = [states |-> first.states, queue |-> first.queue, verdict |-> first.verdict]
      OBVIOUS
    <3>2. /\ states = [pc \in PCs |-> states[pc]]
          /\ \A pc \in PCs : IsState(method, states[pc])
          /\ \A pc \in Listed(queue) : states[pc] # NoState
      BY DEF VerifierInv
    <3>3. \A k \in 1 .. 0 : Arrived(out[k], states)
      OBVIOUS
    <3>. HIDE DEF first
    <3>. QED  BY <2>2, <3>1, <3>2, <3>3, StateBelowReflexive DEF Merged
  <2>. QED  BY <2>1, <2>3
<1>3. ASSUME NEW n \in S PROVE n + 1 \in S
  <2>. SUFFICES ASSUME n + 1 <= Len(out) PROVE Merged(f[n + 1], out, n + 1)
    OBVIOUS
  <2>1. Merged(f[n], out, n) /\ IsState(method, out[n + 1][2])
    OBVIOUS
  <2>2. f[n + 1] = MergeOne(f[n], out[n + 1])
    <3>1. n + 1 \in 0 .. Len(out) /\ n + 1 # 0 /\ (n + 1) - 1 = n
      OBVIOUS
    <3>. QED  BY <1>1, <3>1 DEF Merging
  <2>. QED  BY <2>1, <2>2, MergedNext
<1>4. Len(out) \in S
  BY <1>2, <1>3, Counting
<1>. QED  BY <1>1, <1>4


-----------------------------------------------------------------------------
(* The steps.                                                               *)
LEMMA SpreadIsList ==
  ASSUME NEW vs, NEW size \in Nat, NEW unset
  PROVE  IsList(Spread(vs, size, unset)) /\ Len(Spread(vs, size, unset)) = size
BY DEF Spread, IsList

LEMMA VerifierInitInv == VerifierInit => VerifierInv
<1>. SUFFICES ASSUME VerifierInit PROVE VerifierInv
  OBVIOUS
<1>. DEFINE first == At(InitialLocals(method), <<>>)
<1>1. IsMethod(method) /\ verdict \in {"working", "error"} /\ queue = <<1>>
  BY DEF VerifierInit, InitVerifier
<1>2. 1 \in PCs
  BY <1>1 DEF IsMethod, IsList, PCs, Code
<1>3. /\ states = [pc \in PCs |-> states[pc]]
      /\ \A pc \in PCs : states[pc] = IF pc = 1 THEN first ELSE NoState
  BY DEF VerifierInit, InitVerifier
<1>4. IsState(method, first)
  <2>1. Full(<<>>)
    BY ShortLists DEF Full
  <2>. QED  BY <1>1, <2>1, SpreadIsList, AtIsState, ShortLists DEF InitialLocals, IsMethod
<1>5. queue \in Seq(PCs) /\ Listed(queue) = {1}
  BY <1>1, <1>2 DEF Listed
<1>6. IsState(method, NoState) /\ first # NoState
  BY StatesDiffer DEF IsState
<1>. HIDE DEF first
<1>7. StateBelow(first, states[1])
  BY <1>2, <1>3, StateBelowReflexive
<1>. QED  BY <1>1, <1>2, <1>3, <1>4, <1>5, <1>6, <1>7 DEF VerifierInv, AllSettled, AcceptedIsFixedPoint, first

LEMMA SettledKept ==
  ASSUME NEW m, NEW S, NEW T, NEW pc, DOMAIN S = DOMAIN T,
         \A p \in DOMAIN S : StateBelow(S[p], T[p]), S[pc] = T[pc], Settled(m, S, pc)
  PROVE  Settled(m, T, pc)
<1>. DEFINE out == Outgoing(m, pc, S[pc])
<1>1. ASSUME NEW j \in DOMAIN out PROVE Arrived(out[j], T)
  <2>1. Arrived(out[j], S)
    BY DEF Settled
  <2>. HIDE DEF out
  <2>. QED  BY <2>1, StateBelowTransitive DEF Arrived
<1>. QED  BY <1>1 DEF Settled

LEMMA PropagateStep == VerifierInv /\ Propagate /\ UNCHANGED method => VerifierInv'
<1>. SUFFICES ASSUME VerifierInv, Propagate, UNCHANGED method PROVE VerifierInv'
  OBVIOUS
<1>. DEFINE pc == Head(queue)
            out == Outgoing(method, pc, states[pc])
            merged == MergeOut(out)
<1>1. /\ queue # <<>> /\ queue \in Seq(PCs) /\ verdict = "working"
      /\ IsMethod(method) /\ AllSettled
  BY DEF VerifierInv, Propagate
<1>2. /\ pc \in PCs /\ pc \in Listed(queue)
      /\ Listed(queue) = {pc} \cup Listed(Tail(queue))
  <2>1. /\ Len(queue) \in Nat /\ Len(queue) # 0 /\ pc = queue[1] /\ queue[1] \in PCs
        /\ Len(Tail(queue)) = Len(queue) - 1
        /\ \A j \in 1 .. Len(queue) - 1 : Tail(queue)[j] = queue[j + 1]
    BY <1>1, HeadTailProperties
  <2>2. ASSUME NEW j \in 1 .. Len(queue), j # 1 PROVE queue[j] \in Listed(Tail(queue))
    <3>1. j - 1 \in 1 .. Len(queue) - 1 /\ (j - 1) + 1 = j
      BY <2>1, <2>2
    <3>. QED  BY <2>1, <3>1 DEF Listed
  <2>3. ASSUME NEW j \in 1 .. Len(Tail(queue)) PROVE Tail(queue)[j] \in Listed(queue)
    <3>1. j \in 1 .. Len(queue) - 1 /\ j + 1 \in 1 .. Len(queue)
      BY <2>1
    <3>. QED  BY <2>1, <3>1 DEF Listed
  <2>4. queue[1] \in Listed(queue)
    <3>1. 1 \in 1 .. Len(queue)
      BY <2>1
    <3>. QED  BY <3>1 DEF Listed
  <2>5. \A x \in Listed(queue) : x = queue[1] \/ x \in Listed(Tail(queue))
    BY <2>2 DEF Listed
  <2>6. \A x \in Listed(Tail(queue)) : x \in Listed(queue)
    BY <2>3 DEF Listed
  <2>. QED  BY <2>1, <2>4, <2>5, <2>6
<1>3. /\ IsState(method, states[pc]) /\ states[pc] # NoState /\ pc \in DOMAIN method.code
  <2>1. DOMAIN method.code = PCs
    BY <1>1 DEF IsMethod, IsList, PCs, Code
  <2>. QED  BY <1>2, <2>1 DEF VerifierInv
<1>4. CASE UNCHANGED <<states, queue>> /\ verdict' \in {"error", "panic"}
  BY <1>4 DEF VerifierInv, AcceptedIsFixedPoint, Code, PCs
<1>5. CASE /\ Apply(method, pc, states[pc]) # NoState /\ merged.verdict = "working"
           /\ verdict' = "working" /\ states' = merged.states /\ queue' = merged.queue
  <2>1. IsList(out) /\ \A j \in 1 .. Len(out) : IsState(method, out[j][2])
    BY <1>1, <1>3, <1>5, OutgoingStates
  <2>2. DOMAIN out = 1 .. Len(out)
    BY <2>1 DEF IsList
  <2>. HIDE DEF out
  <2>3. Merged(merged, out, Len(out))
    BY <1>1, <2>1, MergedAll
  <2>. HIDE DEF merged
  <2>4. /\ states' = [p \in PCs |-> states'[p]]
        /\ \A p \in PCs : /\ IsState(method, states'[p])
                          /\ StateBelow(states[p], states'[p])
                          /\ states'[p] # states[p] => p \in Listed(queue')
        /\ queue' \in Seq(PCs)
        /\ Listed(Tail(queue)) \subseteq Listed(queue')
        /\ \A p \in Listed(queue') : states'[p] # NoState
        /\ \A k \in 1 .. Len(out) : Arrived(out[k], states')
    BY <1>5, <2>3 DEF Merged, Listed
  <2>5. DOMAIN states = PCs /\ DOMAIN states' = PCs
    BY <2>4 DEF VerifierInv
  <2>6. ASSUME NEW p \in PCs, states'[p] # NoState, p \notin Listed(queue')
        PROVE  Settled(method, states', p)
    <3>1. states'[p] = states[p] /\ p \notin Listed(Tail(queue))
      BY <2>4, <2>6
    <3>2. CASE p = pc
      BY <1>5, <2>2, <2>4, <3>1, <3>2 DEF Settled, out
    <3>3. CASE p # pc
      <4>1. Settled(method, states, p)
        BY <1>1, <1>2, <2>6, <3>1, <3>3 DEF AllSettled
      <4>. QED  BY <2>4, <2>5, <3>1, <4>1, SettledKept
    <3>. QED  BY <3>2, <3>3
  <2>7. 1 \in PCs
    BY <1>1 DEF IsMethod, IsList, PCs, Code
  <2>8. StateBelow(At(InitialLocals(method), <<>>), states'[1])
    BY <2>4, <2>7, StateBelowTransitive DEF VerifierInv
  <2>9. PCs' = PCs
    BY DEF PCs, Code
  <2>10. AllSettled'
    BY <2>6, <2>9 DEF AllSettled, Listed
  <2>11. Listed(queue)' = Listed(queue')
    BY DEF Listed
  <2>. QED  BY <1>1, <1>5, <2>4, <2>8, <2>9, <2>10, <2>11 DEF VerifierInv, AcceptedIsFixedPoint
<1>. QED
  <2>1. merged.verdict \in {"working", "error", "panic"} \/ Apply(method, pc, states[pc]) = NoState
    <3>1. CASE Apply(method, pc, states[pc]) # NoState
      <4>1. IsList(out) /\ \A j \in 1 .. Len(out) : IsState(method, out[j][2])
        BY <1>1, <1>3, <3>1, OutgoingStates
      <4>. HIDE DEF out
      <4>. QED  BY <1>1, <4>1, MergedAll DEF Merged
    <3>. QED  BY <3>1
  <2>2. \/ UNCHANGED <<states, queue>> /\ verdict' \in {"error", "panic"}
        \/ /\ Apply(method, pc, states[pc]) # NoState /\ merged.verdict = "working"
           /\ verdict' = "working" /\ states' = merged.states /\ queue' = merged.queue
    <3>. HIDE DEF merged
    <3>. QED  BY <2>1 DEF Propagate, merged
  <2>. QED  BY <1>4, <1>5, <2>2

LEMMA ConcludeStep == VerifierInv /\ Conclude /\ UNCHANGED method => VerifierInv'
<1>. SUFFICES ASSUME VerifierInv, Conclude, UNCHANGED method PROVE VerifierInv'
  OBVIOUS
<1>1. /\ verdict = "working" /\ queue = <<>> /\ UNCHANGED <<states, queue>> /\ verdict' \in {"ok", "error"}
  BY DEF Conclude
<1>2. Listed(queue) = {}
  BY <1>1 DEF Listed
<1>3. PostFixed(method, states)
  BY <1>1, <1>2 DEF VerifierInv, AllSettled, PostFixed, PCs, Code
<1>4. PostFixed(method, states)'
  BY <1>1, <1>3
<1>. QED  BY <1>1, <1>4 DEF VerifierInv, AcceptedIsFixedPoint, Code, PCs

LEMMA VerifierInvariant == VerifierSpec => []VerifierInv
<1>1. VerifierInv /\ [VerifierNext]_<<method, vvars>> => VerifierInv'
  <2>1. VerifierInv /\ UNCHANGED <<method, vvars>> => VerifierInv'
    BY DEF VerifierInv, vvars, AllSettled, AcceptedIsFixedPoint, PCs, Code
  <2>. QED  BY <2>1, PropagateStep, ConcludeStep DEF VerifierNext
<1>. QED  BY <1>1, VerifierInitInv, PTL DEF VerifierSpec

(* The states of a method that is accepted are a post-fixed point of the     *)
(* data flow: they take in the entry frame, no instruction reached is        *)
(* refused, and what each sends on, to the next instruction, a target or a   *)
(* handler, is below the state there (verify.rs 62-115).                     *)
THEOREM AcceptedIsFixedPointCorrect == VerifierSpec => []AcceptedIsFixedPoint
<1>1. VerifierInv => AcceptedIsFixedPoint
  BY DEF VerifierInv
<1>. QED  BY <1>1, VerifierInvariant, PTL

-----------------------------------------------------------------------------
(* A value and the types that cover it.                                     *)
LEMMA CoversAbove ==
  ASSUME NEW a, NEW b, NEW v, TypeBelow(a, b), Covers(a, v)
  PROVE  Covers(b, v)
<1>. USE DEF TypeBelow, Covers, IsRef, AnyRef, Ref, Unset, NullT, UninitThis, IsReference
<1>1. CASE a = b \/ b = Unset
  BY <1>1
<1>2. CASE b # Unset /\ a = NullT /\ IsRef(b)
  BY <1>2
<1>3. CASE b # Unset /\ IsRef(a) /\ b = AnyRef
  BY <1>3
<1>. QED  BY <1>1, <1>2, <1>3

(* Only unset covers the second slot of a wide value, and a type that is set *)
(* is as wide as the values it covers.                                      *)
LEMMA CoversWide ==
  ASSUME NEW t, NEW v, Covers(t, v), t # Unset
  PROVE  v # NoValue /\ (Wide(t) <=> Wide(v))
<1>. USE DEF Covers, IsRef, Unset, UninitThis, IsReference, NoValue, Wide, LongT, DoubleT
<1>1. CASE t[1] \in {"Ref", "UninitThis"}
  BY <1>1
<1>2. CASE t[1] = "Uninit"
  BY <1>2
<1>3. CASE t[1] \notin {"Ref", "UninitThis", "Uninit"}
  <2>1. v = t /\ v # NoValue
    BY <1>3
  <2>. QED  BY <2>1
<1>. QED  BY <1>1, <1>2, <1>3

LEMMA AllCoversAbove ==
  ASSUME NEW s, NEW t, NEW vs, AllBelow(s, t), AllCovered(s, vs)
  PROVE  AllCovered(t, vs)
BY CoversAbove DEF AllBelow, AllCovered

LEMMA JoinedCovered ==
  ASSUME NEW s, NEW t, NEW u, NEW v, IsList(s), IsList(t), IsList(u), IsList(v),
         AllCovered(s, u), AllCovered(t, v)
  PROVE  AllCovered(s \o t, u \o v)
<1>1. /\ Len(s \o t) = Len(s) + Len(t)
      /\ \A j \in 1 .. Len(s) : (s \o t)[j] = s[j]
      /\ \A j \in 1 .. Len(t) : (s \o t)[Len(s) + j] = t[j]
  BY Joined
<1>2. /\ Len(u \o v) = Len(u) + Len(v)
      /\ \A j \in 1 .. Len(u) : (u \o v)[j] = u[j]
      /\ \A j \in 1 .. Len(v) : (u \o v)[Len(u) + j] = v[j]
  BY Joined
<1>3. Len(s) = Len(u) /\ Len(t) = Len(v) /\ Len(s) \in Nat /\ Len(t) \in Nat
  BY DEF AllCovered, IsList
<1>4. ASSUME NEW j \in 1 .. Len(s \o t) PROVE Covers((s \o t)[j], (u \o v)[j])
  <2>1. CASE j <= Len(s)
    BY <1>1, <1>2, <1>3, <2>1 DEF AllCovered
  <2>2. CASE j > Len(s)
    <3>1. j - Len(s) \in 1 .. Len(t) /\ j = Len(s) + (j - Len(s))
      BY <1>1, <1>3, <2>2
    <3>. QED  BY <1>1, <1>2, <1>3, <3>1 DEF AllCovered
  <2>. QED  BY <1>1, <1>3, <2>1, <2>2
<1>. QED  BY <1>1, <1>2, <1>3, <1>4 DEF AllCovered

LEMMA RestCovered ==
  ASSUME NEW s, NEW vs, NEW n \in Nat, IsList(s), IsList(vs), n <= Len(s), AllCovered(s, vs)
  PROVE  AllCovered(Below(s, n), Below(vs, n))
<1>1. Len(s) = Len(vs) /\ Len(s) \in Nat
  BY DEF AllCovered, IsList
<1>2. /\ Len(Below(s, n)) = Len(s) - n
      /\ \A j \in 1 .. Len(s) - n : Below(s, n)[j] = s[n + j]
  BY Rest
<1>3. /\ Len(Below(vs, n)) = Len(vs) - n
      /\ \A j \in 1 .. Len(vs) - n : Below(vs, n)[j] = vs[n + j]
  BY <1>1, Rest
<1>. QED  BY <1>1, <1>2, <1>3 DEF AllCovered

LEMMA RestOfNone ==
  ASSUME NEW s, IsList(s)
  PROVE  Below(s, 0) = s /\ <<>> \o s = s
<1>1. Len(s) \in Nat
  BY DEF IsList
<1>2. /\ IsList(Below(s, 0)) /\ Len(Below(s, 0)) = Len(s) - 0
      /\ \A j \in 1 .. Len(s) - 0 : Below(s, 0)[j] = s[0 + j]
  BY <1>1, Rest
<1>3. /\ IsList(<<>> \o s) /\ Len(<<>> \o s) = 0 + Len(s)
      /\ \A j \in 1 .. Len(s) : (<<>> \o s)[0 + j] = s[j]
  BY ShortLists, Joined
<1>4. \A t : IsList(t) /\ Len(t) = Len(s) /\ (\A j \in 1 .. Len(s) : t[j] = s[j]) => t = s
  BY DEF IsList
<1>5. Len(s) - 0 = Len(s) /\ 0 + Len(s) = Len(s) /\ \A j \in 1 .. Len(s) : 0 + j = j
  BY <1>1
<1>. QED  BY <1>2, <1>3, <1>4, <1>5

LEMMA TopBack ==
  ASSUME NEW s, IsList(s), Len(s) # 0
  PROVE  <<s[1]>> \o Below(s, 1) = s
<1>1. Len(s) \in Nat /\ 1 <= Len(s)
  BY DEF IsList
<1>2. /\ IsList(Below(s, 1)) /\ Len(Below(s, 1)) = Len(s) - 1
      /\ \A j \in 1 .. Len(s) - 1 : Below(s, 1)[j] = s[1 + j]
  BY <1>1, Rest
<1>. DEFINE t == <<s[1]>> \o Below(s, 1)
<1>3. /\ IsList(t) /\ Len(t) = 1 + Len(Below(s, 1))
      /\ t[1] = s[1]
      /\ \A j \in 1 .. Len(Below(s, 1)) : t[1 + j] = Below(s, 1)[j]
  <2>1. IsList(<<s[1]>>) /\ Len(<<s[1]>>) = 1 /\ <<s[1]>>[1] = s[1] /\ 1 \in 1 .. 1
    BY ShortLists
  <2>. QED  BY <1>2, <2>1, Joined
<1>. HIDE DEF t
<1>4. ASSUME NEW j \in 1 .. Len(s) PROVE t[j] = s[j]
  <2>1. CASE j # 1
    <3>1. j - 1 \in 1 .. Len(s) - 1 /\ j = 1 + (j - 1)
      BY <1>1, <2>1
    <3>. QED  BY <1>2, <1>3, <3>1
  <2>. QED  BY <1>3, <2>1
<1>5. Len(t) = Len(s)
  BY <1>1, <1>2, <1>3
<1>6. t = s
  BY <1>3, <1>4, <1>5 DEF IsList
<1>. QED  BY <1>6 DEF t

-----------------------------------------------------------------------------
(* Locals.  A frame keeps the second slot of a wide value empty, so a type   *)
(* there stands for nothing.                                                *)
Paired(vs) == \A n \in 1 .. Len(vs) - 1 : Wide(vs[n]) => vs[n + 1] = NoValue

LEMMA StoreCovered ==
  ASSUME NEW ts, NEW vs, IsList(ts), IsList(vs), AllCovered(ts, vs), Paired(vs),
         NEW n \in Nat, NEW t, NEW v, Covers(t, v), t # Unset, StoreSlot(ts, n, t, Unset).ok
  PROVE  /\ StoreSlot(vs, n, v, NoValue).ok
         /\ AllCovered(StoreSlot(ts, n, t, Unset).locals, StoreSlot(vs, n, v, NoValue).locals)
         /\ Paired(StoreSlot(vs, n, v, NoValue).locals)
<1>. DEFINE len == Len(vs)
            tc == [j \in 1 .. len |-> IF (j = n /\ Wide(ts[j])) \/ (j = n + 2 /\ Wide(ts[n + 1]))
                                      THEN Unset ELSE ts[j]]
            vc == [j \in 1 .. len |-> IF (j = n /\ Wide(vs[j])) \/ (j = n + 2 /\ Wide(vs[n + 1]))
                                      THEN NoValue ELSE vs[j]]
            tp == [j \in 1 .. len |-> IF j = n + 1 THEN t
                                      ELSE IF j = n + 2 /\ Wide(t) THEN Unset ELSE tc[j]]
            vp == [j \in 1 .. len |-> IF j = n + 1 THEN v
                                      ELSE IF j = n + 2 /\ Wide(v) THEN NoValue ELSE vc[j]]
<1>1. len \in Nat /\ Len(ts) = len
  BY DEF IsList, AllCovered
<1>2. Wide(t) <=> Wide(v)
  BY CoversWide
<1>3. /\ StoreSlot(ts, n, t, Unset).locals = tp /\ StoreSlot(vs, n, v, NoValue).locals = vp
      /\ StoreSlot(ts, n, t, Unset).ok <=> n + (IF Wide(t) THEN 2 ELSE 1) <= len
      /\ StoreSlot(vs, n, v, NoValue).ok <=> n + (IF Wide(v) THEN 2 ELSE 1) <= len
  BY <1>1 DEF StoreSlot
<1>4. \A j \in 1 .. len : Covers(ts[j], vs[j]) /\ (ts[j] # Unset => vs[j] # NoValue /\ (Wide(ts[j]) <=> Wide(vs[j])))
  BY <1>1, CoversWide DEF AllCovered
<1>5. \A x : Covers(Unset, x)
  BY DEF Covers, IsRef, Unset, UninitThis
<1>6. ~Wide(Unset) /\ ~Wide(NoValue)
  BY DEF Wide, Unset, NoValue, LongT, DoubleT
<1>7. ASSUME NEW j \in 1 .. len PROVE Covers(tp[j], vp[j])
  <2>1. CASE j = n + 1
    BY <2>1
  <2>2. CASE j = n + 2 /\ Wide(t)
    BY <1>5, <2>2
  <2>3. CASE j = n + 2 /\ ~Wide(t)
    <3>1. n + 1 \in 1 .. len - 1 /\ n + 1 + 1 = j /\ n + 1 \in 1 .. len /\ n # j /\ n + 1 # j
      BY <1>1, <2>3
    <3>2. tp[j] = IF Wide(ts[n + 1]) THEN Unset ELSE ts[j]
      BY <2>3, <3>1
    <3>3. vp[j] = IF Wide(vs[n + 1]) THEN NoValue ELSE vs[j]
      BY <1>2, <2>3, <3>1
    <3>4. CASE Wide(vs[n + 1])
      <4>1. vs[j] = NoValue
        BY <3>1, <3>4 DEF Paired
      <4>2. ts[j] = Unset
        BY <1>4, <4>1
      <4>. QED  BY <1>5, <3>2, <4>2
    <3>5. CASE ~Wide(vs[n + 1])
      BY <1>4, <1>5, <3>1, <3>2, <3>3, <3>5
    <3>. QED  BY <3>4, <3>5
  <2>4. CASE j = n
    <3>1. tp[j] = IF Wide(ts[j]) THEN Unset ELSE ts[j]
      BY <2>4
    <3>2. vp[j] = IF Wide(vs[j]) THEN NoValue ELSE vs[j]
      BY <2>4
    <3>. QED  BY <1>4, <1>5, <1>6, <3>1, <3>2
  <2>5. CASE j \notin {n, n + 1, n + 2}
    BY <1>4, <2>5
  <2>. QED  BY <2>1, <2>2, <2>3, <2>4, <2>5
<1>8. ASSUME NEW j \in 1 .. len - 1, Wide(vp[j]) PROVE vp[j + 1] = NoValue
  <2>. j \in 1 .. len /\ j + 1 \in 1 .. len
    BY <1>1
  <2>1. CASE j = n + 1
    BY <1>8, <2>1
  <2>2. CASE j = n
    BY <1>6, <1>8, <2>2
  <2>3. CASE j = n + 2
    <3>1. vp[j] = vs[j]
      BY <1>6, <1>8, <2>3
    <3>2. vp[j + 1] = vs[j + 1]
      BY <2>3
    <3>. QED  BY <1>8, <3>1, <3>2 DEF Paired
  <2>4. CASE j \notin {n, n + 1, n + 2}
    <3>1. vp[j] = vs[j]
      BY <2>4
    <3>2. vs[j + 1] = NoValue
      BY <1>8, <3>1 DEF Paired
    <3>3. j + 1 # n + 1 /\ j + 1 # n + 2
      BY <2>4
    <3>. QED  BY <3>2, <3>3
  <2>. QED  BY <2>1, <2>2, <2>3, <2>4
<1>9. Len(tp) = len /\ Len(vp) = len
  BY <1>1
<1>. HIDE DEF tp, vp
<1>. QED  BY <1>1, <1>2, <1>3, <1>7, <1>8, <1>9 DEF AllCovered, Paired

LEMMA SlotsApart ==
  ASSUME NEW vs, NEW i \in Nat \ {0}, NEW j \in Nat, i < j
  PROVE  /\ SlotOf(vs, i) \in Nat /\ SlotOf(vs, j) \in Nat
         /\ SlotOf(vs, i) + (IF Wide(vs[i]) THEN 2 ELSE 1) <= SlotOf(vs, j)
<1>. DEFINE W(n) == {k \in 1 .. n - 1 : Wide(vs[k])}
<1>1. ASSUME NEW n \in Nat PROVE IsFiniteSet(W(n)) /\ Cardinality(W(n)) \in Nat
  <2>1. IsFiniteSet(1 .. n - 1)
    BY FS_Interval
  <2>. QED  BY <2>1, FS_Subset, FS_CardinalityType
<1>2. CASE ~Wide(vs[i])
  <2>1. W(i) \subseteq W(j)
    OBVIOUS
  <2>2. Cardinality(W(i)) <= Cardinality(W(j))
    BY <1>1, <2>1, FS_Subset
  <2>. HIDE DEF W
  <2>3. SlotOf(vs, i) = i + Cardinality(W(i)) /\ SlotOf(vs, j) = j + Cardinality(W(j))
    BY DEF SlotOf, W
  <2>. QED  BY <1>1, <1>2, <2>2, <2>3
<1>3. CASE Wide(vs[i])
  <2>1. W(i) \cup {i} \subseteq W(j) /\ i \notin W(i)
    BY <1>3
  <2>2. IsFiniteSet(W(i) \cup {i}) /\ Cardinality(W(i) \cup {i}) = Cardinality(W(i)) + 1
    BY <1>1, <2>1, FS_AddElement
  <2>3. Cardinality(W(i) \cup {i}) <= Cardinality(W(j))
    BY <1>1, <2>1, FS_Subset
  <2>. HIDE DEF W
  <2>4. Cardinality(W(i)) + 1 <= Cardinality(W(j)) /\ Cardinality(W(i)) \in Nat /\ Cardinality(W(j)) \in Nat
    BY <1>1, <2>2, <2>3
  <2>5. SlotOf(vs, i) = i + Cardinality(W(i)) /\ SlotOf(vs, j) = j + Cardinality(W(j))
    BY DEF SlotOf, W
  <2>. QED  BY <1>3, <2>4, <2>5
<1>. QED  BY <1>2, <1>3

LEMMA SlotsDiffer ==
  ASSUME NEW vs, NEW i \in Nat \ {0}, NEW j \in Nat \ {0}, SlotOf(vs, i) = SlotOf(vs, j)
  PROVE  i = j
<1>1. ~(i < j)
  BY SlotsApart
<1>2. ~(j < i)
  BY SlotsApart
<1>. QED  BY <1>1, <1>2

\* The value or type in a slot.
LEMMA SpreadAt ==
  ASSUME NEW vs, IsList(vs), NEW size \in Nat, NEW unset, NEW n \in 1 .. size
  PROVE  /\ \A j \in 1 .. Len(vs) : SlotOf(vs, j) = n => Spread(vs, size, unset)[n] = vs[j]
         /\ (\A j \in 1 .. Len(vs) : SlotOf(vs, j) # n) => Spread(vs, size, unset)[n] = unset
<1>1. Len(vs) \in Nat
  BY DEF IsList
<1>2. ASSUME NEW j \in 1 .. Len(vs), SlotOf(vs, j) = n
      PROVE  (CHOOSE k \in 1 .. Len(vs) : SlotOf(vs, k) = n) = j
  BY <1>1, <1>2, SlotsDiffer
<1>. QED  BY <1>1, <1>2 DEF Spread

LEMMA SpreadCovered ==
  ASSUME NEW ts, NEW vs, IsList(ts), IsList(vs), AllCovered(ts, vs), Full(ts), NEW size \in Nat
  PROVE  /\ AllCovered(Spread(ts, size, Unset), Spread(vs, size, NoValue))
         /\ Paired(Spread(vs, size, NoValue))
<1>1. Len(ts) = Len(vs) /\ Len(vs) \in Nat
  BY DEF AllCovered, IsList
<1>2. \A j \in 1 .. Len(vs) : Wide(ts[j]) <=> Wide(vs[j])
  BY <1>1, CoversWide DEF AllCovered, Full
<1>3. ASSUME NEW j \in 1 .. Len(vs) PROVE SlotOf(ts, j) = SlotOf(vs, j)
  <2>1. {k \in 1 .. j - 1 : Wide(ts[k])} = {k \in 1 .. j - 1 : Wide(vs[k])}
    BY <1>1, <1>2
  <2>. QED  BY <2>1 DEF SlotOf
<1>4. Len(Spread(ts, size, Unset)) = size /\ Len(Spread(vs, size, NoValue)) = size
  BY SpreadIsList
<1>5. ASSUME NEW n \in 1 .. size PROVE Covers(Spread(ts, size, Unset)[n], Spread(vs, size, NoValue)[n])
  <2>1. CASE \E j \in 1 .. Len(vs) : SlotOf(vs, j) = n
    <3>1. PICK j \in 1 .. Len(vs) : SlotOf(vs, j) = n /\ SlotOf(ts, j) = n
      BY <1>3, <2>1
    <3>2. Spread(ts, size, Unset)[n] = ts[j] /\ Spread(vs, size, NoValue)[n] = vs[j]
      BY <1>1, <3>1, SpreadAt
    <3>. QED  BY <1>1, <3>2 DEF AllCovered
  <2>2. CASE \A j \in 1 .. Len(vs) : SlotOf(vs, j) # n
    <3>1. Spread(ts, size, Unset)[n] = Unset
      BY <1>1, <1>3, <2>2, SpreadAt
    <3>. QED  BY <3>1 DEF Covers, IsRef, Unset, UninitThis
  <2>. QED  BY <2>1, <2>2
<1>6. ASSUME NEW n \in 1 .. size - 1, Wide(Spread(vs, size, NoValue)[n])
      PROVE  Spread(vs, size, NoValue)[n + 1] = NoValue
  <2>1. PICK j \in 1 .. Len(vs) : SlotOf(vs, j) = n /\ Spread(vs, size, NoValue)[n] = vs[j]
    <3>1. ~Wide(NoValue)
      BY DEF Wide, NoValue, LongT, DoubleT
    <3>. QED  BY <1>6, <3>1, SpreadAt
  <2>2. ASSUME NEW k \in 1 .. Len(vs), SlotOf(vs, k) = n + 1 PROVE FALSE
    <3>1. k # j
      BY <2>1, <2>2
    <3>2. ~(j < k)
      BY <1>6, <2>1, <2>2, SlotsApart
    <3>3. ~(k < j)
      <4>. SUFFICES ASSUME k < j PROVE FALSE
        OBVIOUS
      <4>1. SlotOf(vs, k) \in Nat /\ SlotOf(vs, k) + (IF Wide(vs[k]) THEN 2 ELSE 1) <= SlotOf(vs, j)
        BY <1>1, SlotsApart
      <4>. QED  BY <2>1, <2>2, <4>1
    <3>. QED  BY <3>1, <3>2, <3>3
  <2>3. n + 1 \in 1 .. size
    OBVIOUS
  <2>. QED  BY <2>2, <2>3, SpreadAt
<1>. QED  BY <1>4, <1>5, <1>6 DEF AllCovered, Paired

-----------------------------------------------------------------------------
(* Frames of methods that were accepted.                                    *)
Names == {"main"} \cup DOMAIN Callees

\* f stands at pc, or was there when it called or threw: its locals are what
\* the verifier has for pc.
LocalsFit(f, pc) ==
  /\ f.m \in Names
  /\ f = [m |-> f.m, pc |-> f.pc, locals |-> f.locals, stack |-> f.stack]
  /\ pc \in 1 .. Len(MethodOf(f).code)
  /\ StatesOf(f)[pc] # NoState
  /\ IsList(f.locals) /\ Paired(f.locals)
  /\ AllCovered(StatesOf(f)[pc].locals, f.locals)

FrameFits(f) ==
  /\ LocalsFit(f, f.pc)
  /\ IsList(f.stack) /\ AllCovered(StatesOf(f)[f.pc].stack, f.stack)

\* A frame that waits for a callee which returns these types: with any such
\* values on its stack it goes on.
Waiting(f, types) ==
  /\ LocalsFit(f, f.pc - 1) /\ IsList(f.stack)
  /\ Len(types) + Len(f.stack) <= MethodOf(f).max_stack
  /\ \A vs : IsList(vs) /\ AllCovered(types, vs) => FrameFits([f EXCEPT !.stack = vs \o @])

\* What an instruction may come to in a frame that fits.
OutcomeFits(f, o) ==
  /\ o.is \in {"step", "call", "return", "throw", "error"}
  /\ o.is = "step" => FrameFits(o.frame) /\ o.frame.m = f.m
  /\ o.is = "call" => /\ FrameFits(o.callee) /\ o.frame.m = f.m
                      /\ Waiting(o.frame, MethodOf(o.callee).returns)
  /\ o.is = "return" => IsList(o.value) /\ AllCovered(MethodOf(f).returns, o.value)
  /\ o.is = "error" => Expected(o.what, f)

Certified(m, S) == IsMethod(m) /\ Supported(m) /\ PostFixed(m, S)
Ready(f) == FrameFits(f) /\ Certified(MethodOf(f), StatesOf(f))

InstrOf(f) == MethodOf(f).code[f.pc]
StateOf(f) == StatesOf(f)[f.pc]
AfterOf(f) == Apply(MethodOf(f), f.pc, StateOf(f))
Past(f) == [f EXCEPT !.pc = @ + 1]
GoesTo(f, p) == p \in 1 .. Len(MethodOf(f).code) /\ StateBelow(AfterOf(f), StatesOf(f)[p])

(* What the verifier let an instruction send out has arrived.               *)
LEMMA Exits ==
  ASSUME NEW m, NEW S, Certified(m, S), NEW pc \in 1 .. Len(m.code), S[pc] # NoState
  PROVE  LET i == m.code[pc]
             after == Apply(m, pc, S[pc])
         IN /\ IsInstruction(i) /\ IsState(m, S[pc]) /\ IsState(m, after) /\ after # NoState
            /\ \A h \in Handlers(m, pc) : Arrived(<<m.handlers[h].to, Caught(m, h, pc, S[pc])>>, S)
            /\ i.op \notin Leaves => Arrived(<<pc + 1, after>>, S)
            /\ IsList(Targets(i, after))
            /\ \A j \in 1 .. Len(Targets(i, after)) : Arrived(<<Targets(i, after)[j], after>>, S)
<1>. DEFINE i == m.code[pc]
            after == Apply(m, pc, S[pc])
            targets == Targets(i, after)
            caught == [h \in 1 .. Len(m.handlers) |-> <<m.handlers[h].to, Caught(m, h, pc, S[pc])>>]
            next == IF i.op \in Leaves THEN <<>> ELSE <<<<pc + 1, after>>>>
            jumps == [j \in 1 .. Len(targets) |-> <<targets[j], after>>]
<1>1. /\ IsState(m, S[pc]) /\ after # NoState
      /\ \A j \in DOMAIN Outgoing(m, pc, S[pc]) : Arrived(Outgoing(m, pc, S[pc])[j], S)
  BY DEF Certified, PostFixed, Settled
<1>2. pc \in DOMAIN m.code /\ IsMethod(m)
  BY DEF Certified, IsMethod, IsList
<1>3. IsInstruction(i) /\ IsState(m, after)
  BY <1>1, <1>2, ApplyIsState DEF IsMethod
<1>4. IsList(targets)
  BY <1>3, TargetsAreList
<1>5. IsList(caught) /\ Len(caught) = Len(m.handlers)
  BY <1>2 DEF IsMethod, IsList
<1>6. IsList(jumps) /\ Len(jumps) = Len(targets)
  BY <1>4 DEF IsList
<1>7. IsList(next) /\ (i.op \notin Leaves => Len(next) = 1 /\ next[1] = <<pc + 1, after>>)
  BY ShortLists
<1>8. Outgoing(m, pc, S[pc]) = caught \o next \o jumps
  BY DEF Outgoing
<1>9. /\ \A h \in 1 .. Len(m.handlers) : caught[h] = <<m.handlers[h].to, Caught(m, h, pc, S[pc])>>
      /\ \A j \in 1 .. Len(targets) : jumps[j] = <<targets[j], after>>
  OBVIOUS
<1>. HIDE DEF caught, next, jumps
<1>10. ASSUME NEW a, NEW b, IsList(a), IsList(b), \A j \in 1 .. Len(a \o b) : Arrived((a \o b)[j], S)
       PROVE  /\ IsList(a \o b)
              /\ \A j \in 1 .. Len(a) : Arrived(a[j], S)
              /\ \A j \in 1 .. Len(b) : Arrived(b[j], S)
  <2>1. /\ IsList(a \o b) /\ Len(a \o b) = Len(a) + Len(b)
        /\ \A j \in 1 .. Len(a) : (a \o b)[j] = a[j]
        /\ \A j \in 1 .. Len(b) : (a \o b)[Len(a) + j] = b[j]
    BY <1>10, Joined
  <2>2. Len(a) \in Nat /\ Len(b) \in Nat
    BY <1>10 DEF IsList
  <2>3. \A j \in 1 .. Len(a) : j \in 1 .. Len(a \o b)
    BY <2>1, <2>2
  <2>4. \A j \in 1 .. Len(b) : Len(a) + j \in 1 .. Len(a \o b)
    BY <2>1, <2>2
  <2>. QED  BY <1>10, <2>1, <2>3, <2>4
<1>11. IsList(caught \o next) /\ IsList(caught \o next \o jumps)
  BY <1>5, <1>6, <1>7, Joined
<1>12. \A j \in 1 .. Len(caught \o next \o jumps) : Arrived((caught \o next \o jumps)[j], S)
  <2>1. DOMAIN (caught \o next \o jumps) = 1 .. Len(caught \o next \o jumps)
    BY <1>11 DEF IsList
  <2>. QED  BY <1>1, <1>8, <2>1
<1>13. /\ \A j \in 1 .. Len(caught \o next) : Arrived((caught \o next)[j], S)
       /\ \A j \in 1 .. Len(jumps) : Arrived(jumps[j], S)
  BY <1>6, <1>10, <1>11, <1>12
<1>14. /\ \A j \in 1 .. Len(caught) : Arrived(caught[j], S)
       /\ \A j \in 1 .. Len(next) : Arrived(next[j], S)
  BY <1>5, <1>7, <1>10, <1>13
<1>15. \A h \in Handlers(m, pc) : Arrived(<<m.handlers[h].to, Caught(m, h, pc, S[pc])>>, S)
  BY <1>5, <1>9, <1>14 DEF Handlers
<1>16. i.op \notin Leaves => Arrived(<<pc + 1, after>>, S)
  BY <1>7, <1>14
<1>17. \A j \in 1 .. Len(targets) : Arrived(<<targets[j], after>>, S)
  BY <1>6, <1>9, <1>13
<1>. QED  BY <1>1, <1>3, <1>4, <1>15, <1>16, <1>17

LEMMA ReadyFacts ==
  ASSUME NEW f, Ready(f)
  PROVE  /\ IsInstruction(InstrOf(f)) /\ IsState(MethodOf(f), StateOf(f)) /\ StateOf(f) # NoState
         /\ IsState(MethodOf(f), AfterOf(f)) /\ AfterOf(f) # NoState
         /\ f.pc \in 1 .. Len(MethodOf(f).code)
         /\ InstrOf(f).op \notin Leaves => GoesTo(f, f.pc + 1)
         /\ IsList(Targets(InstrOf(f), AfterOf(f)))
         /\ \A j \in 1 .. Len(Targets(InstrOf(f), AfterOf(f))) : GoesTo(f, Targets(InstrOf(f), AfterOf(f))[j])
         /\ IsList(f.locals) /\ Paired(f.locals) /\ AllCovered(StateOf(f).locals, f.locals)
         /\ IsList(f.stack) /\ AllCovered(StateOf(f).stack, f.stack)
         /\ IsList(StateOf(f).stack) /\ Full(StateOf(f).stack) /\ Len(StateOf(f).stack) = Len(f.stack)
         /\ IsList(StateOf(f).locals) /\ Len(StateOf(f).locals) = Len(f.locals)
<1>. DEFINE m == MethodOf(f)
            S == StatesOf(f)
<1>1. /\ Certified(m, S) /\ f.pc \in 1 .. Len(m.code) /\ S[f.pc] # NoState
      /\ IsList(f.locals) /\ Paired(f.locals) /\ AllCovered(StateOf(f).locals, f.locals)
      /\ IsList(f.stack) /\ AllCovered(StateOf(f).stack, f.stack)
  BY DEF Ready, FrameFits, LocalsFit, StateOf
<1>2. DOMAIN S = 1 .. Len(m.code)
  BY <1>1 DEF Certified, PostFixed
<1>. HIDE DEF m, S
<1>3. /\ IsInstruction(m.code[f.pc]) /\ IsState(m, S[f.pc]) /\ IsState(m, Apply(m, f.pc, S[f.pc]))
      /\ Apply(m, f.pc, S[f.pc]) # NoState
      /\ m.code[f.pc].op \notin Leaves => Arrived(<<f.pc + 1, Apply(m, f.pc, S[f.pc])>>, S)
      /\ IsList(Targets(m.code[f.pc], Apply(m, f.pc, S[f.pc])))
      /\ \A j \in 1 .. Len(Targets(m.code[f.pc], Apply(m, f.pc, S[f.pc]))) :
           Arrived(<<Targets(m.code[f.pc], Apply(m, f.pc, S[f.pc]))[j], Apply(m, f.pc, S[f.pc])>>, S)
  BY <1>1, Exits
<1>4. \A p : Arrived(<<p, AfterOf(f)>>, S) /\ AfterOf(f) # NoState => GoesTo(f, p)
  BY <1>2 DEF Arrived, GoesTo, m, S
<1>5. /\ IsList(StateOf(f).stack) /\ Full(StateOf(f).stack) /\ IsList(StateOf(f).locals)
  BY <1>1, <1>3 DEF IsState, StateOf, Full, S
<1>. QED  BY <1>1, <1>3, <1>4, <1>5 DEF m, S, InstrOf, StateOf, AfterOf, AllCovered

(* A frame that holds what the instruction was found to leave goes on where  *)
(* the instruction sends it.                                                *)
LEMMA Lands ==
  ASSUME NEW f, Ready(f), NEW p, GoesTo(f, p), NEW locals, NEW stack,
         IsList(locals), Paired(locals), AllCovered(AfterOf(f).locals, locals),
         IsList(stack), AllCovered(AfterOf(f).stack, stack)
  PROVE  LET g == [m |-> f.m, pc |-> p, locals |-> locals, stack |-> stack]
         IN FrameFits(g)
<1>. DEFINE g == [m |-> f.m, pc |-> p, locals |-> locals, stack |-> stack]
<1>1. AfterOf(f) # NoState /\ f.m \in Names
  BY ReadyFacts DEF Ready, FrameFits, LocalsFit
<1>2. MethodOf(g) = MethodOf(f) /\ StatesOf(g) = StatesOf(f)
  BY DEF MethodOf, StatesOf
<1>3. /\ p \in 1 .. Len(MethodOf(f).code) /\ StatesOf(f)[p] # NoState
      /\ AllBelow(AfterOf(f).locals, StatesOf(f)[p].locals) /\ AllBelow(AfterOf(f).stack, StatesOf(f)[p].stack)
  BY <1>1 DEF GoesTo, StateBelow
<1>4. AllCovered(StatesOf(f)[p].locals, locals) /\ AllCovered(StatesOf(f)[p].stack, stack)
  BY <1>3, AllCoversAbove
<1>5. /\ g.m = f.m /\ g.pc = p /\ g.locals = locals /\ g.stack = stack
      /\ g = [m |-> g.m, pc |-> g.pc, locals |-> g.locals, stack |-> g.stack]
  OBVIOUS
<1>. HIDE DEF g
<1>6. FrameFits(g)
  BY <1>1, <1>2, <1>3, <1>4, <1>5 DEF FrameFits, LocalsFit
<1>. QED  BY <1>6 DEF g

LEMMA PastOf ==
  ASSUME NEW f, Ready(f)
  PROVE  /\ Past(f) = [m |-> f.m, pc |-> f.pc + 1, locals |-> f.locals, stack |-> f.stack]
         /\ Past(f).m = f.m /\ Past(f).pc = f.pc + 1 /\ Past(f).locals = f.locals /\ Past(f).stack = f.stack
         /\ MethodOf(Past(f)) = MethodOf(f) /\ StatesOf(Past(f)) = StatesOf(f)
<1>1. f = [m |-> f.m, pc |-> f.pc, locals |-> f.locals, stack |-> f.stack]
  BY DEF Ready, FrameFits, LocalsFit
<1>2. Past(f) = [m |-> f.m, pc |-> f.pc + 1, locals |-> f.locals, stack |-> f.stack]
  BY <1>1 DEF Past
<1>. QED  BY <1>2 DEF MethodOf, StatesOf

LEMMA Steps ==
  ASSUME NEW f, Ready(f), NEW p, GoesTo(f, p), NEW locals, NEW stack,
         IsList(locals), Paired(locals), AllCovered(AfterOf(f).locals, locals),
         IsList(stack), AllCovered(AfterOf(f).stack, stack)
  PROVE  OutcomeFits(f, Step([m |-> f.m, pc |-> p, locals |-> locals, stack |-> stack]))
<1>. DEFINE g == [m |-> f.m, pc |-> p, locals |-> locals, stack |-> stack]
<1>1. FrameFits(g) /\ g.m = f.m
  BY Lands
<1>. HIDE DEF g
<1>2. OutcomeFits(f, Step(g))
  BY <1>1 DEF OutcomeFits, Step
<1>. QED  BY <1>2 DEF g

(* What an instruction with a simple effect finds and leaves.               *)
EffectAt(f) == EffectOf(InstrOf(f), f.pc)

LEMMA EffectFound ==
  ASSUME NEW f, Ready(f), InstrOf(f).op \in Simple
  PROVE  /\ IsList(EffectAt(f).pop) /\ IsList(EffectAt(f).push)
         /\ Len(EffectAt(f).pop) \in Nat /\ Len(EffectAt(f).pop) <= Len(f.stack)
         /\ \A j \in 1 .. Len(EffectAt(f).pop) : Fits(EffectAt(f).pop[j], StateOf(f).stack[j])
         /\ \A j \in 1 .. Len(EffectAt(f).pop) :
              StateOf(f).stack[j] # Unset /\ Covers(StateOf(f).stack[j], f.stack[j])
         /\ LocalAgrees(InstrOf(f), StateOf(f))
         /\ InstrOf(f).op = "return" => ReturnAgrees(MethodOf(f), InstrOf(f), StateOf(f).stack)
<1>. DEFINE i == InstrOf(f)
            s == StateOf(f)
<1>1. ApplyEffect(MethodOf(f), i, f.pc, s) # NoState
  BY ReadyFacts DEF AfterOf, Apply, InstrOf, Simple
<1>2. /\ Len(EffectAt(f).pop) <= Len(s.stack)
      /\ \A j \in 1 .. Len(EffectAt(f).pop) : Fits(EffectAt(f).pop[j], s.stack[j])
      /\ LocalAgrees(i, s)
      /\ i.op = "return" => ReturnAgrees(MethodOf(f), i, s.stack)
  BY <1>1 DEF ApplyEffect, EffectAt
<1>3. IsList(EffectAt(f).pop) /\ IsList(EffectAt(f).push)
  BY ReadyFacts, EffectsAreLists DEF EffectAt
<1>4. Len(EffectAt(f).pop) \in Nat
  BY <1>3 DEF IsList
<1>5. /\ Len(s.stack) = Len(f.stack) /\ Len(f.stack) \in Nat
      /\ Full(s.stack) /\ AllCovered(s.stack, f.stack)
  BY ReadyFacts DEF IsList
<1>6. ASSUME NEW j \in 1 .. Len(EffectAt(f).pop) PROVE s.stack[j] # Unset /\ Covers(s.stack[j], f.stack[j])
  <2>1. j \in 1 .. Len(s.stack)
    BY <1>2, <1>4, <1>5
  <2>. QED  BY <1>5, <2>1 DEF Full, AllCovered
<1>. QED  BY <1>2, <1>3, <1>4, <1>5, <1>6

LEMMA Pushed ==
  ASSUME NEW m, m.max_stack \in Nat, NEW s, IsList(s.stack), NEW ts, IsList(ts),
         Push(m, s, ts) # NoState
  PROVE  /\ Len(s.stack) + Len(ts) <= m.max_stack
         /\ Push(m, s, ts).locals = s.locals /\ Push(m, s, ts).stack = ts \o s.stack
<1>1. Len(s.stack) \in Nat /\ Len(ts) \in Nat
  BY DEF IsList
<1>2. Len(s.stack) + Len(ts) <= m.max_stack
  BY <1>1 DEF Push
<1>3. Push(m, s, ts) = At(s.locals, ts \o s.stack)
  BY DEF Push
<1>4. At(s.locals, ts \o s.stack).locals = s.locals /\ At(s.locals, ts \o s.stack).stack = ts \o s.stack
  BY DEF At
<1>. QED  BY <1>2, <1>3, <1>4

LEMMA PushedLocals ==
  ASSUME NEW m, NEW s, NEW ts, Push(m, s, ts) # NoState
  PROVE  Push(m, s, ts).locals = s.locals
<1>1. Push(m, s, ts) = At(s.locals, ts \o s.stack)
  BY DEF Push
<1>2. At(s.locals, ts \o s.stack).locals = s.locals
  BY DEF At
<1>. QED  BY <1>1, <1>2

\* A frame whose counter and operands are set.
LEMMA FrameSet ==
  ASSUME NEW f, f = [m |-> f.m, pc |-> f.pc, locals |-> f.locals, stack |-> f.stack], NEW p, NEW vs
  PROVE  [f EXCEPT !.pc = p, !.stack = vs] = [m |-> f.m, pc |-> p, locals |-> f.locals, stack |-> vs]
<1>. DEFINE g == [f EXCEPT !.pc = p]
            h == [g EXCEPT !.stack = vs]
<1>1. g = [m |-> f.m, pc |-> p, locals |-> f.locals, stack |-> f.stack]
  OBVIOUS
<1>. HIDE DEF g
<1>2. h = [m |-> f.m, pc |-> p, locals |-> f.locals, stack |-> vs]
  BY <1>1
<1>. QED  BY <1>2 DEF g

LEMMA InitialisedCovered ==
  ASSUME NEW ts, NEW vs, IsList(ts), AllCovered(ts, vs), NEW from, NEW c,
         \A v : Covers(from, v) => IsReference(v)
  PROVE  AllCovered([j \in DOMAIN ts |-> IF ts[j] = from THEN Ref(c) ELSE ts[j]], vs)
<1>1. Len(ts) \in Nat /\ DOMAIN ts = 1 .. Len(ts) /\ Len(vs) = Len(ts)
  BY DEF IsList, AllCovered
<1>2. \A v : IsReference(v) => Covers(Ref(c), v)
  BY DEF Covers, Ref, IsRef, Unset, UninitThis
<1>. QED  BY <1>1, <1>2 DEF AllCovered

LEMMA FitsReference ==
  ASSUME NEW p \in {AnObject, <<"Receiver">>}, NEW t, NEW v, Fits(p, t), Covers(t, v)
  PROVE  IsReference(v)
<1>1. RefLike(t)
  BY DEF Fits, AnObject
<1>. QED  BY <1>1 DEF RefLike, Covers, IsRef, IsReference, Unset, UninitThis

LEMMA EffectLeft ==
  ASSUME NEW f, Ready(f), InstrOf(f).op \in Simple \ {"athrow", "return"},
         NEW vs, IsList(vs), AllCovered(EffectAt(f).push, vs)
  PROVE  LET n == Len(EffectAt(f).pop)
         IN /\ Len(f.stack) - n + Len(vs) <= MethodOf(f).max_stack
            /\ IsList(vs \o Below(f.stack, n)) /\ IsList(Below(f.stack, n))
            /\ Len(Below(f.stack, n)) = Len(f.stack) - n
            /\ AllCovered(AfterOf(f).stack, vs \o Below(f.stack, n))
            /\ AllCovered(AfterOf(f).locals, f.locals)
<1>. DEFINE i == InstrOf(f)
            s == StateOf(f)
            m == MethodOf(f)
            e == EffectAt(f)
            n == Len(e.pop)
            popped == At(s.locals, Below(s.stack, n))
            after == IF i.op = "invoke" /\ i.mode = "init"
                     THEN Initialised(popped, s.stack[n], i.c) ELSE popped
<1>1. /\ n \in Nat /\ n <= Len(f.stack) /\ IsList(e.push) /\ IsList(e.pop)
      /\ \A j \in 1 .. n : Fits(e.pop[j], s.stack[j])
  BY EffectFound DEF Simple
<1>2. /\ IsList(s.stack) /\ IsList(f.stack) /\ AllCovered(s.stack, f.stack) /\ Len(s.stack) = Len(f.stack)
      /\ IsList(s.locals) /\ AllCovered(s.locals, f.locals) /\ Len(f.stack) \in Nat
  BY ReadyFacts DEF IsList
<1>3. ApplyEffect(m, i, f.pc, s) = AfterOf(f) /\ AfterOf(f) # NoState
  BY ReadyFacts DEF AfterOf, Apply, InstrOf, Simple
<1>4. AfterOf(f) = Push(m, after, e.push)
  BY <1>3 DEF ApplyEffect, EffectAt
<1>5. /\ IsList(Below(s.stack, n)) /\ Len(Below(s.stack, n)) = Len(s.stack) - n
      /\ IsList(Below(f.stack, n)) /\ Len(Below(f.stack, n)) = Len(f.stack) - n
      /\ AllCovered(Below(s.stack, n), Below(f.stack, n))
  BY <1>1, <1>2, Rest, RestCovered
<1>6. /\ IsList(after.stack) /\ Len(after.stack) = Len(s.stack) - n
      /\ AllCovered(after.stack, Below(f.stack, n)) /\ AllCovered(after.locals, f.locals)
  <2>1. popped.locals = s.locals /\ popped.stack = Below(s.stack, n)
    BY DEF At
  <2>2. CASE ~(i.op = "invoke" /\ i.mode = "init")
    BY <1>2, <1>5, <2>1, <2>2
  <2>3. CASE i.op = "invoke" /\ i.mode = "init"
    <3>. DEFINE locals == [j \in DOMAIN s.locals |-> IF s.locals[j] = s.stack[n] THEN Ref(i.c) ELSE s.locals[j]]
                stack == [j \in DOMAIN Below(s.stack, n) |->
                            IF Below(s.stack, n)[j] = s.stack[n] THEN Ref(i.c) ELSE Below(s.stack, n)[j]]
    <3>1. after = At(locals, stack)
      BY <2>1, <2>3 DEF Initialised
    <3>2. e.pop[n] = <<"Receiver">> /\ n \in 1 .. n
      <4>. DEFINE args == [j \in 1 .. Len(i.args) |-> i.args[Len(i.args) + 1 - j]]
      <4>1. e.pop = args \o <<<<"Receiver">>>>
        BY <2>3 DEF EffectAt, EffectOf, InvokeEffect, Effect
      <4>2. IsInstruction(i)
        BY ReadyFacts
      <4>3. IsList(i.args)
        BY <2>3, <4>2 DEF IsInstruction, AreTypes
      <4>4. IsList(args)
        BY <4>3, ArgumentsReversed
      <4>. HIDE DEF args, e
      <4>5. IsList(<<<<"Receiver">>>>) /\ Len(<<<<"Receiver">>>>) = 1 /\ <<<<"Receiver">>>>[1] = <<"Receiver">>
        BY ShortLists
      <4>6. /\ Len(e.pop) = Len(args) + 1
            /\ e.pop[Len(args) + 1] = <<"Receiver">>
        BY <4>1, <4>4, <4>5, Joined
      <4>7. Len(args) \in Nat
        BY <4>4 DEF IsList
      <4>. QED  BY <4>6, <4>7
    <3>3. \A v : Covers(s.stack[n], v) => IsReference(v)
      BY <1>1, <3>2, FitsReference
    <3>4. AllCovered(locals, f.locals) /\ AllCovered(stack, Below(f.stack, n))
      BY <1>2, <1>5, <3>3, InitialisedCovered
    <3>5. IsList(stack) /\ Len(stack) = Len(s.stack) - n
      <4>1. Len(Below(s.stack, n)) \in Nat /\ DOMAIN Below(s.stack, n) = 1 .. Len(Below(s.stack, n))
        BY <1>5 DEF IsList
      <4>. QED  BY <1>5, <4>1, ListOf
    <3>6. after.locals = locals /\ after.stack = stack
      BY <3>1 DEF At
    <3>. HIDE DEF after, locals, stack
    <3>. QED  BY <3>4, <3>5, <3>6
  <2>. QED  BY <2>2, <2>3
<1>. HIDE DEF after, e
<1>7. m.max_stack \in Nat
  BY DEF Ready, Certified, IsMethod
<1>8. /\ Len(after.stack) + Len(e.push) <= m.max_stack
      /\ AfterOf(f).locals = after.locals /\ AfterOf(f).stack = e.push \o after.stack
  <2>1. Push(m, after, e.push) # NoState
    BY <1>3, <1>4
  <2>2. /\ Len(after.stack) + Len(e.push) <= m.max_stack
        /\ Push(m, after, e.push).locals = after.locals
        /\ Push(m, after, e.push).stack = e.push \o after.stack
    BY <1>1, <1>6, <1>7, <2>1, Pushed
  <2>. QED  BY <1>4, <2>2
<1>9. Len(vs) = Len(e.push) /\ Len(vs) \in Nat
  BY DEF AllCovered, IsList, e
<1>10. Len(f.stack) - n + Len(vs) <= m.max_stack
  <2>1. Len(f.stack) - n + Len(vs) = Len(after.stack) + Len(e.push)
    BY <1>2, <1>6, <1>9
  <2>. HIDE DEF m, n
  <2>. QED  BY <1>8, <2>1
<1>11. IsList(vs \o Below(f.stack, n))
  BY <1>5, Joined
<1>12. AllCovered(AfterOf(f).stack, vs \o Below(f.stack, n))
  BY <1>1, <1>5, <1>6, <1>8, JoinedCovered DEF e
<1>. QED  BY <1>5, <1>6, <1>8, <1>10, <1>11, <1>12 DEF e

LEMMA Jumps ==
  ASSUME NEW f, Ready(f), InstrOf(f).op \in Simple \ {"athrow", "return"},
         NEW vs, IsList(vs), AllCovered(EffectAt(f).push, vs), NEW p, GoesTo(f, p),
         NEW n, Len(EffectAt(f).pop) = n
  PROVE  OutcomeFits(f, JumpTo(Past(f), n, vs, p))
<1>1. /\ ~(Len(f.stack) - n + Len(vs) > MethodOf(f).max_stack)
      /\ IsList(vs \o Below(f.stack, n))
      /\ AllCovered(AfterOf(f).stack, vs \o Below(f.stack, n))
      /\ AllCovered(AfterOf(f).locals, f.locals)
  <2>1. /\ Len(f.stack) - n + Len(vs) <= MethodOf(f).max_stack
        /\ IsList(vs \o Below(f.stack, n))
        /\ AllCovered(AfterOf(f).stack, vs \o Below(f.stack, n))
        /\ AllCovered(AfterOf(f).locals, f.locals)
    BY EffectLeft
  <2>2. Len(f.stack) \in Nat /\ n \in Nat /\ Len(vs) \in Nat /\ MethodOf(f).max_stack \in Nat
    <3>1. Len(f.stack) \in Nat
      BY ReadyFacts DEF IsList
    <3>2. n \in Nat
      BY EffectFound
    <3>3. MethodOf(f).max_stack \in Nat
      BY DEF Ready, Certified, IsMethod
    <3>. QED  BY <3>1, <3>2, <3>3 DEF IsList
  <2>. QED  BY <2>1, <2>2
<1>2. IsList(f.locals) /\ Paired(f.locals)
  BY ReadyFacts
<1>3. JumpTo(Past(f), n, vs, p)
        = Step([m |-> f.m, pc |-> p, locals |-> f.locals, stack |-> vs \o Below(f.stack, n)])
  <2>. DEFINE g == Past(f)
  <2>1. /\ g = [m |-> f.m, pc |-> f.pc + 1, locals |-> f.locals, stack |-> f.stack]
        /\ g.stack = f.stack /\ MethodOf(g) = MethodOf(f)
    BY PastOf
  <2>. HIDE DEF g
  <2>2. \A ws : [g EXCEPT !.pc = p, !.stack = ws] = [m |-> f.m, pc |-> p, locals |-> f.locals, stack |-> ws]
    <3>. TAKE ws
    <3>1. g = [m |-> g.m, pc |-> g.pc, locals |-> g.locals, stack |-> g.stack]
      BY <2>1
    <3>2. g.m = f.m /\ g.locals = f.locals
      BY <2>1
    <3>3. [g EXCEPT !.pc = p, !.stack = ws] = [m |-> g.m, pc |-> p, locals |-> g.locals, stack |-> ws]
      BY <3>1, FrameSet
    <3>. QED  BY <3>2, <3>3
  <2>3. JumpTo(g, n, vs, p) = Step([g EXCEPT !.pc = p, !.stack = vs \o Below(g.stack, n)])
    BY <1>1, <2>1 DEF JumpTo
  <2>4. [g EXCEPT !.pc = p, !.stack = vs \o Below(g.stack, n)]
          = [m |-> f.m, pc |-> p, locals |-> f.locals, stack |-> vs \o Below(f.stack, n)]
    BY <2>1, <2>2
  <2>5. JumpTo(g, n, vs, p) = Step([m |-> f.m, pc |-> p, locals |-> f.locals, stack |-> vs \o Below(f.stack, n)])
    BY <2>3, <2>4
  <2>. QED  BY <2>5 DEF g
<1>. QED  BY <1>1, <1>2, <1>3, Steps

LEMMA Goes ==
  ASSUME NEW f, Ready(f), InstrOf(f).op \in Simple \ Leaves,
         NEW vs, IsList(vs), AllCovered(EffectAt(f).push, vs),
         NEW n, Len(EffectAt(f).pop) = n
  PROVE  OutcomeFits(f, Go(Past(f), n, vs))
BY Jumps, ReadyFacts, PastOf DEF Go, Leaves

(* Operands of the kinds the verifier found are the ones the opcode takes.  *)
Wanted(p, w) ==
  \/ w = "Any"
  \/ w = "Reference" /\ p \in {AnObject, <<"Receiver">>}
  \/ p \in {IntT, LongT, FloatT, DoubleT} /\ w = p[1]

LEMMA FitsIs ==
  ASSUME NEW p, NEW w, NEW t, NEW v, Wanted(p, w), Fits(p, t), Covers(t, v)
  PROVE  Is(w, v)
<1>1. CASE w = "Any"
  BY <1>1 DEF Is
<1>2. CASE w = "Reference" /\ p \in {AnObject, <<"Receiver">>}
  BY <1>2, FitsReference DEF Is
<1>3. CASE p \in {IntT, LongT, FloatT, DoubleT} /\ w = p[1]
  <2>1. t = p
    BY <1>3 DEF Fits, Compatible, IsRef, IntT, LongT, FloatT, DoubleT
  <2>2. v = p
    BY <1>3, <2>1 DEF Covers, IsRef, Unset, UninitThis, IntT, LongT, FloatT, DoubleT
  <2>. QED  BY <1>3, <2>2 DEF Is, IntT, LongT, FloatT, DoubleT
<1>. QED  BY <1>1, <1>2, <1>3 DEF Wanted

LEMMA Pops ==
  ASSUME NEW f, Ready(f), InstrOf(f).op \in Simple, NEW wants, NEW results,
         Len(wants) = Len(EffectAt(f).pop),
         \A j \in 1 .. Len(wants) : Wanted(EffectAt(f).pop[j], wants[j])
  PROVE  Popping(Past(f), wants, results) = results
<1>1. \A j \in 1 .. Len(wants) : Is(wants[j], f.stack[j])
  BY EffectFound, FitsIs
<1>2. ~(Len(f.stack) < Len(wants))
  <2>1. Len(wants) \in Nat /\ Len(wants) <= Len(f.stack) /\ Len(f.stack) \in Nat
    BY EffectFound, ReadyFacts DEF IsList
  <2>. QED  BY <2>1
<1>. QED  BY <1>1, <1>2, PastOf DEF Popping

-----------------------------------------------------------------------------
(* The opcodes.                                                             *)
LEMMA OtherOutcomes ==
  ASSUME NEW f
  PROVE  /\ \A c : OutcomeFits(f, Throws(c))
         /\ OutcomeFits(f, NPE) /\ OutcomeFits(f, OutOfBounds)
         /\ OutcomeFits(f, NotAnArray) /\ OutcomeFits(f, VmError("FieldNotFound"))
<1>1. \A c : OutcomeFits(f, Throws(c))
  BY DEF OutcomeFits, Throws
<1>2. ASSUME NEW e, Expected(e, f) PROVE OutcomeFits(f, VmError(e))
  BY <1>2 DEF OutcomeFits, VmError
<1>3. Expected("InvalidHeapValue", f) /\ Expected("FieldNotFound", f)
  BY DEF Expected
<1>. QED  BY <1>1, <1>2, <1>3 DEF NPE, OutOfBounds, NotAnArray

LEMMA OneCovered ==
  /\ AllCovered(<<>>, <<>>) /\ IsList(<<>>)
  /\ \A t, v : Covers(t, v) => IsList(<<v>>) /\ AllCovered(<<t>>, <<v>>)
<1>1. AllCovered(<<>>, <<>>)
  BY DEF AllCovered
<1>2. ASSUME NEW t, NEW v, Covers(t, v) PROVE AllCovered(<<t>>, <<v>>)
  BY <1>2 DEF AllCovered
<1>. QED  BY <1>1, <1>2, ShortLists

Kinds == {IntT, LongT, FloatT, DoubleT}
LEMMA KindCovered ==
  /\ \A k : TypeOf(k) \in Kinds
  /\ \A t \in Kinds : Covers(t, t) /\ t # Unset /\ Wanted(t, t[1])
<1>. USE DEF Kinds, TypeOf, Covers, Unset, NoValue, Wanted, IntT, LongT, FloatT, DoubleT
<1>1. \A k : TypeOf(k) \in Kinds
  OBVIOUS
<1>2. ASSUME NEW t \in Kinds PROVE Covers(t, t) /\ t # Unset /\ Wanted(t, t[1])
  OBVIOUS
<1>. QED  BY <1>1, <1>2

LEMMA ReferenceCovered ==
  \A c, v : IsReference(v) => Covers(Ref(c), v) /\ Covers(AnyRef, v)
BY DEF Covers, Ref, AnyRef, Unset

LEMMA ValuesCovered ==
  ASSUME NEW t, IsType(t) \/ t = NullT, NEW v \in ValuesOf(t)
  PROVE  Covers(t, v)
<1>. USE DEF ValuesOf, Covers, Unset, NoValue, NullT, IntT, LongT, FloatT, DoubleT
<1>1. CASE t \in {IntT, LongT, FloatT, DoubleT, NullT}
  BY <1>1
<1>2. CASE t[1] = "Ref"
  <2>1. v \in {NullT, Obj(t[2])}
    BY <1>2
  <2>2. IsReference(v)
    BY <2>1 DEF IsReference, Obj
  <2>. QED  BY <1>2, <2>2
<1>. QED  BY <1>1, <1>2 DEF IsType

LEMMA ConstantFits ==
  ASSUME NEW f, Ready(f), InstrOf(f).op = "const", NEW o \in Constant(InstrOf(f), Past(f))
  PROVE  OutcomeFits(f, o)
<1>. DEFINE i == InstrOf(f)
<1>1. EffectAt(f).pop = <<>> /\ EffectAt(f).push = <<i.t>>
  BY DEF EffectAt, EffectOf, ConstantEffect, Effect
<1>2. IsType(i.t) \/ i.t = NullT
  BY ReadyFacts DEF IsInstruction
<1>3. PICK v : o = Go(Past(f), 0, <<v>>) /\ Covers(i.t, v)
  <2>1. CASE i.t[1] = "Ref"
    <3>1. o = Go(Past(f), 0, <<Obj("A")>>)
      BY <2>1 DEF Constant
    <3>2. Covers(i.t, Obj("A"))
      BY <2>1 DEF Covers, IsReference, Obj, Unset
    <3>. QED  BY <3>1, <3>2
  <2>2. CASE i.t[1] # "Ref"
    <3>1. PICK v \in ValuesOf(i.t) : o = Go(Past(f), 0, <<v>>)
      BY <2>2 DEF Constant
    <3>. QED  BY <1>2, <3>1, ValuesCovered
  <2>. QED  BY <2>1, <2>2
<1>4. IsList(<<v>>) /\ AllCovered(EffectAt(f).push, <<v>>)
  BY <1>1, <1>3, OneCovered
<1>5. i.op \in Simple \ Leaves /\ Len(EffectAt(f).pop) = 0
  BY <1>1 DEF Simple, Opcodes, StackOps, Leaves
<1>. QED  BY <1>3, <1>4, <1>5, Goes

\* An instruction that takes operands and leaves one value of a kind.
LEMMA Computes ==
  ASSUME NEW f, Ready(f), InstrOf(f).op \in Simple \ Leaves, NEW t \in Kinds,
         EffectAt(f).push = <<t>>, NEW n, Len(EffectAt(f).pop) = n
  PROVE  OutcomeFits(f, Go(Past(f), n, <<t>>))
<1>1. IsList(<<t>>) /\ AllCovered(EffectAt(f).push, <<t>>)
  BY OneCovered, KindCovered
<1>. QED  BY <1>1, Goes

LEMMA TwoWanted ==
  ASSUME NEW a, NEW b, NEW v, NEW w, Wanted(a, v), Wanted(b, w)
  PROVE  Len(<<v, w>>) = Len(<<a, b>>) /\ \A j \in 1 .. Len(<<v, w>>) : Wanted(<<a, b>>[j], <<v, w>>[j])
OBVIOUS

LEMMA OneWanted ==
  ASSUME NEW a, NEW v, Wanted(a, v)
  PROVE  Len(<<v>>) = Len(<<a>>) /\ \A j \in 1 .. Len(<<v>>) : Wanted(<<a>>[j], <<v>>[j])
OBVIOUS

LEMMA ThreeWanted ==
  ASSUME NEW a, NEW b, NEW c, NEW u, NEW v, NEW w, Wanted(a, u), Wanted(b, v), Wanted(c, w)
  PROVE  /\ Len(<<u, v, w>>) = Len(<<a, b, c>>)
         /\ \A j \in 1 .. Len(<<u, v, w>>) : Wanted(<<a, b, c>>[j], <<u, v, w>>[j])
OBVIOUS

LEMMA ArithmeticFits ==
  ASSUME NEW f, Ready(f), InstrOf(f).op \in {"bin", "div", "neg"},
         NEW o \in Arithmetic(InstrOf(f), Past(f))
  PROVE  OutcomeFits(f, o)
<1>. DEFINE i == InstrOf(f)
            t == TypeOf(i.k)
            e == EffectAt(f)
<1>1. t \in Kinds /\ Wanted(t, t[1])
  BY KindCovered
<1>2. i.op \in Simple \ Leaves
  BY DEF Simple, Opcodes, StackOps, Leaves
<1>3. /\ e.push = <<t>>
      /\ i.op # "neg" => e.pop = <<t, t>>
      /\ i.op = "neg" => e.pop = <<t>>
  BY DEF EffectAt, EffectOf, ArithmeticEffect, Effect
<1>4. CASE i.op = "neg"
  <2>1. Len(e.pop) = 1
    BY <1>3, <1>4
  <2>2. Arithmetic(i, Past(f)) = {Go(Past(f), 1, <<t>>)}
    <3>1. \A r : Popping(Past(f), <<t[1]>>, r) = r
      BY <1>1, <1>2, <1>3, <1>4, OneWanted, Pops
    <3>. QED  BY <1>4, <3>1 DEF Arithmetic
  <2>. QED  BY <1>1, <1>2, <1>3, <2>1, <2>2, Computes
<1>5. CASE i.op # "neg"
  <2>1. Len(e.pop) = 2
    BY <1>3, <1>5
  <2>2. o \in {Go(Past(f), 2, <<t>>), Throws("ArithmeticException")}
    <3>1. \A r : Popping(Past(f), <<t[1], t[1]>>, r) = r
      BY <1>1, <1>2, <1>3, <1>5, TwoWanted, Pops
    <3>. QED  BY <1>5, <3>1 DEF Arithmetic
  <2>. QED  BY <1>1, <1>2, <1>3, <2>1, <2>2, Computes, OtherOutcomes
<1>. QED  BY <1>4, <1>5

LEMMA ShiftFits ==
  ASSUME NEW f, Ready(f), InstrOf(f).op = "shift", NEW o \in Shift(InstrOf(f), Past(f))
  PROVE  OutcomeFits(f, o)
<1>. DEFINE i == InstrOf(f)
            t == TypeOf(i.k)
            e == EffectAt(f)
<1>1. t \in Kinds /\ Wanted(t, t[1]) /\ Wanted(IntT, "Int")
  BY KindCovered DEF Wanted, IntT
<1>2. i.op \in Simple \ Leaves
  BY DEF Simple, Opcodes, StackOps, Leaves
<1>3. e.push = <<t>> /\ e.pop = <<IntT, t>> /\ Len(e.pop) = 2
  BY DEF EffectAt, EffectOf, ArithmeticEffect, Effect
<1>4. Shift(i, Past(f)) = {Go(Past(f), 2, <<t>>)}
  <2>1. \A r : Popping(Past(f), <<"Int", t[1]>>, r) = r
    BY <1>1, <1>2, <1>3, TwoWanted, Pops
  <2>. QED  BY <2>1 DEF Shift, KindOf
<1>. QED  BY <1>1, <1>2, <1>3, <1>4, Computes

LEMMA ComparisonFits ==
  ASSUME NEW f, Ready(f), InstrOf(f).op = "cmp", NEW o \in Comparison(InstrOf(f), Past(f))
  PROVE  OutcomeFits(f, o)
<1>. DEFINE i == InstrOf(f)
            t == TypeOf(i.k)
            e == EffectAt(f)
<1>1. t \in Kinds /\ Wanted(t, t[1]) /\ IntT \in Kinds
  BY KindCovered DEF Kinds
<1>2. i.op \in Simple \ Leaves
  BY DEF Simple, Opcodes, StackOps, Leaves
<1>3. e.push = <<IntT>> /\ e.pop = <<t, t>> /\ Len(e.pop) = 2
  BY DEF EffectAt, EffectOf, BranchEffect, Effect
<1>4. Comparison(i, Past(f)) = {Go(Past(f), 2, <<IntT>>)}
  <2>1. \A r : Popping(Past(f), <<t[1], t[1]>>, r) = r
    BY <1>1, <1>2, <1>3, TwoWanted, Pops
  <2>. QED  BY <2>1 DEF Comparison, KindOf
<1>. QED  BY <1>1, <1>2, <1>3, <1>4, Computes

\* The verifier lets a conversion take any kind it has, so the source may be wrong.
LEMMA ConversionFits ==
  ASSUME NEW f, Ready(f), InstrOf(f).op = "conv", NEW o \in Conversion(InstrOf(f), Past(f))
  PROVE  OutcomeFits(f, o)
<1>. DEFINE i == InstrOf(f)
            t == TypeOf(i.to)
            e == EffectAt(f)
<1>1. t \in Kinds
  BY KindCovered
<1>2. i.op \in Simple \ Leaves
  BY DEF Simple, Opcodes, StackOps, Leaves
<1>3. e.push = <<t>> /\ Len(e.pop) = 1
  BY DEF EffectAt, EffectOf, ConversionEffect, Effect
<1>4. Len(f.stack) \in Nat /\ Len(f.stack) >= 1
  BY <1>2, <1>3, EffectFound, ReadyFacts DEF IsList
<1>5. o = VmError("TypeMismatch") \/ o = Go(Past(f), 1, <<t>>)
  <2>1. Len(<<KindOf(i.from)>>) = 1 /\ Past(f).stack = f.stack
    BY PastOf
  <2>. QED  BY <1>4, <2>1 DEF Conversion, Popping
<1>6. OutcomeFits(f, VmError("TypeMismatch"))
  BY DEF OutcomeFits, VmError, Expected, InstrOf
<1>7. OutcomeFits(f, Go(Past(f), 1, <<t>>))
  BY <1>1, <1>2, <1>3, Computes
<1>. QED  BY <1>5, <1>6, <1>7

\* Kinds on top of the stack that the instruction takes and does not put back.
LEMMA BranchFits ==
  ASSUME NEW f, Ready(f), InstrOf(f).op = "if", NEW o \in Branch(InstrOf(f), Past(f))
  PROVE  OutcomeFits(f, o)
<1>. DEFINE i == InstrOf(f)
            e == EffectAt(f)
            wants == [j \in 1 .. i.n |-> IF i.k = "A" THEN "Reference" ELSE "Int"]
            pops == [j \in 1 .. i.n |-> IF i.k = "A" THEN AnObject ELSE IntT]
<1>1. i.op \in Simple \ Leaves /\ i.op \in Simple \ {"athrow", "return"}
  BY DEF Simple, Opcodes, StackOps, Leaves
<1>2. e.push = <<>> /\ e.pop = pops
  BY DEF EffectAt, EffectOf, BranchEffect, Effect
<1>3. i.n \in Nat
  BY ReadyFacts DEF IsInstruction
<1>4. Len(pops) = i.n /\ Len(wants) = i.n /\ \A j \in 1 .. i.n : Wanted(pops[j], wants[j])
  BY <1>3 DEF Wanted, IntT, AnObject
<1>5. GoesTo(f, i.to)
  <2>1. Targets(i, AfterOf(f)) = <<i.to>> /\ Len(<<i.to>>) = 1 /\ <<i.to>>[1] = i.to
    BY DEF Targets
  <2>2. \A j \in 1 .. Len(Targets(i, AfterOf(f))) : GoesTo(f, Targets(i, AfterOf(f))[j])
    BY ReadyFacts
  <2>3. 1 \in 1 .. Len(Targets(i, AfterOf(f)))
    BY <2>1
  <2>. QED  BY <2>1, <2>2, <2>3
<1>6. Len(e.pop) = i.n /\ \A j \in 1 .. i.n : Wanted(e.pop[j], wants[j])
  BY <1>2, <1>4
<1>7. \A r : Popping(Past(f), wants, r) = r
  <2>. HIDE DEF wants, e, pops
  <2>. QED  BY <1>1, <1>4, <1>6, Pops DEF e
<1>8. Branch(i, Past(f)) = {JumpTo(Past(f), i.n, <<>>, i.to), Go(Past(f), i.n, <<>>)}
  BY <1>7 DEF Branch
<1>9. AllCovered(e.push, <<>>) /\ IsList(<<>>)
  BY <1>2, OneCovered
<1>. HIDE DEF e
<1>10. OutcomeFits(f, JumpTo(Past(f), i.n, <<>>, i.to))
  BY <1>1, <1>5, <1>6, <1>9, Jumps DEF e
<1>11. OutcomeFits(f, Go(Past(f), i.n, <<>>))
  BY <1>1, <1>6, <1>9, Goes DEF e
<1>. QED  BY <1>8, <1>10, <1>11

LEMMA SwitchFits ==
  ASSUME NEW f, Ready(f), InstrOf(f).op = "switch", NEW o \in Switch(InstrOf(f), Past(f))
  PROVE  OutcomeFits(f, o)
<1>. DEFINE i == InstrOf(f)
            e == EffectAt(f)
<1>1. i.op \in Simple \ {"athrow", "return"}
  BY DEF Simple, Opcodes, StackOps
<1>2. e.push = <<>> /\ e.pop = <<IntT>> /\ Len(e.pop) = 1
  BY DEF EffectAt, EffectOf, BranchEffect, Effect
<1>3. \A j \in DOMAIN i.tos : GoesTo(f, i.tos[j])
  <2>1. Targets(i, AfterOf(f)) = i.tos
    BY DEF Targets
  <2>2. IsList(i.tos) /\ \A j \in 1 .. Len(i.tos) : GoesTo(f, i.tos[j])
    BY <2>1, ReadyFacts
  <2>3. DOMAIN i.tos = 1 .. Len(i.tos)
    BY <2>2 DEF IsList
  <2>. QED  BY <2>2, <2>3
<1>4. \A r : Popping(Past(f), <<"Int">>, r) = r
  <2>1. Wanted(IntT, "Int")
    BY DEF Wanted, IntT
  <2>. QED  BY <1>1, <1>2, <2>1, OneWanted, Pops
<1>5. PICK j \in DOMAIN i.tos : o = JumpTo(Past(f), 1, <<>>, i.tos[j])
  BY <1>4 DEF Switch
<1>6. AllCovered(e.push, <<>>) /\ IsList(<<>>)
  BY <1>2, OneCovered
<1>. QED  BY <1>1, <1>2, <1>3, <1>5, <1>6, Jumps

LEMMA JumpFits ==
  ASSUME NEW f, Ready(f), InstrOf(f).op \in {"goto", "jsr", "ret"}, NEW o \in Jump(InstrOf(f), Past(f))
  PROVE  OutcomeFits(f, o)
<1>. DEFINE i == InstrOf(f)
            e == EffectAt(f)
            s == StateOf(f)
<1>1. i.op \in Simple \ {"athrow", "return"}
  BY DEF Simple, Opcodes, StackOps
<1>2. /\ e.pop = <<>> /\ Len(e.pop) = 0
      /\ i.op # "jsr" => e.push = <<>>
      /\ i.op = "jsr" => e.push = <<RetAddr(f.pc + 1)>>
  BY DEF EffectAt, EffectOf, BranchEffect, Effect
<1>3. \A j \in 1 .. Len(Targets(i, AfterOf(f))) : GoesTo(f, Targets(i, AfterOf(f))[j])
  BY ReadyFacts
<1>4. AllCovered(<<>>, <<>>) /\ IsList(<<>>)
  BY OneCovered
<1>5. CASE i.op = "goto"
  <2>1. Targets(i, AfterOf(f)) = <<i.to>> /\ Len(<<i.to>>) = 1 /\ <<i.to>>[1] = i.to
    BY <1>5 DEF Targets
  <2>2. GoesTo(f, i.to)
    BY <1>3, <2>1
  <2>3. o = JumpTo(Past(f), 0, <<>>, i.to)
    BY <1>5 DEF Jump
  <2>. QED  BY <1>1, <1>2, <1>4, <1>5, <2>2, <2>3, Jumps
<1>6. CASE i.op = "jsr"
  <2>1. Targets(i, AfterOf(f)) = <<i.to>> /\ Len(<<i.to>>) = 1 /\ <<i.to>>[1] = i.to
    BY <1>6 DEF Targets
  <2>2. GoesTo(f, i.to)
    BY <1>3, <2>1
  <2>3. o = JumpTo(Past(f), 0, <<ReturnAddress(f.pc + 1)>>, i.to)
    BY <1>6, PastOf DEF Jump
  <2>4. Covers(RetAddr(f.pc + 1), ReturnAddress(f.pc + 1))
    BY DEF Covers, RetAddr, ReturnAddress, Unset, NoValue
  <2>5. IsList(<<ReturnAddress(f.pc + 1)>>) /\ AllCovered(e.push, <<ReturnAddress(f.pc + 1)>>)
    BY <1>2, <1>6, <2>4, OneCovered
  <2>. QED  BY <1>1, <1>2, <2>2, <2>3, <2>5, Jumps
<1>7. CASE i.op = "ret"
  <2>1. LocalAgrees(i, s)
    BY <1>1, EffectFound
  <2>2. LoadLocal(i, s)[1] = "Ret"
    BY <1>7, <2>1 DEF LocalAgrees
  <2>3. i.n \in Nat /\ Len(s.locals) = Len(f.locals) /\ Len(f.locals) \in Nat
    BY <1>7, ReadyFacts DEF IsInstruction, IsList
  <2>4. i.n < Len(f.locals) /\ LoadLocal(i, s) = s.locals[i.n + 1]
    BY <2>2, <2>3 DEF LoadLocal, Unset
  <2>5. f.locals[i.n + 1] = s.locals[i.n + 1] /\ f.locals[i.n + 1][1] = "Ret" /\ f.locals[i.n + 1] # NoValue
    <3>1. Covers(s.locals[i.n + 1], f.locals[i.n + 1])
      <4>1. AllCovered(s.locals, f.locals) /\ i.n + 1 \in 1 .. Len(s.locals)
        BY <2>3, <2>4, ReadyFacts
      <4>. QED  BY <4>1 DEF AllCovered
    <3>. QED  BY <2>2, <2>4, <3>1 DEF Covers, Unset
  <2>6. AfterOf(f).locals = s.locals
    <3>1. ApplyEffect(MethodOf(f), i, f.pc, s) = AfterOf(f) /\ AfterOf(f) # NoState
      BY <1>1, ReadyFacts DEF AfterOf, Apply, InstrOf, Simple
    <3>2. AfterOf(f) = Push(MethodOf(f), At(s.locals, Below(s.stack, Len(e.pop))), e.push)
      BY <1>7, <3>1 DEF ApplyEffect, EffectAt
    <3>3. \A x : At(s.locals, x).locals = s.locals
      BY DEF At
    <3>4. Push(MethodOf(f), At(s.locals, Below(s.stack, Len(e.pop))), e.push) # NoState
      BY <3>1, <3>2
    <3>5. Push(MethodOf(f), At(s.locals, Below(s.stack, Len(e.pop))), e.push).locals = s.locals
      BY <3>3, <3>4, PushedLocals
    <3>. QED  BY <3>2, <3>5
  <2>7. LoadLocal(i, AfterOf(f)) = f.locals[i.n + 1]
    BY <2>4, <2>5, <2>6 DEF LoadLocal
  <2>8. GoesTo(f, f.locals[i.n + 1][2])
    <3>1. Targets(i, AfterOf(f)) = <<f.locals[i.n + 1][2]>>
      BY <1>7, <2>7 DEF Targets
    <3>2. 1 \in 1 .. Len(Targets(i, AfterOf(f))) /\ Targets(i, AfterOf(f))[1] = f.locals[i.n + 1][2]
      BY <3>1
    <3>. QED  BY <1>3, <3>2
  <2>9. o = JumpTo(Past(f), 0, <<>>, f.locals[i.n + 1][2])
    <3>1. f.locals[i.n + 1][2] \in 1 .. Len(MethodOf(f).code)
      BY <2>8 DEF GoesTo
    <3>2. ~(f.locals[i.n + 1][2] > Len(MethodOf(f).code))
      <4>1. Len(MethodOf(f).code) \in Nat
        BY DEF Ready, Certified, IsMethod, IsList
      <4>. QED  BY <3>1, <4>1
    <3>3. Past(f).locals = f.locals /\ MethodOf(Past(f)) = MethodOf(f)
      BY PastOf
    <3>. QED  BY <1>7, <2>4, <2>5, <3>2, <3>3 DEF Jump
  <2>. QED  BY <1>1, <1>2, <1>4, <1>7, <2>8, <2>9, Jumps
<1>. QED  BY <1>5, <1>6, <1>7

\* An instruction that leaves the frame as it is goes on.
LEMMA Stays ==
  ASSUME NEW f, Ready(f), InstrOf(f).op \in Simple \ Leaves,
         AllCovered(AfterOf(f).locals, f.locals), AllCovered(AfterOf(f).stack, f.stack)
  PROVE  OutcomeFits(f, Step(Past(f)))
<1>1. GoesTo(f, f.pc + 1) /\ IsList(f.locals) /\ Paired(f.locals) /\ IsList(f.stack)
  BY ReadyFacts
<1>2. OutcomeFits(f, Step([m |-> f.m, pc |-> f.pc + 1, locals |-> f.locals, stack |-> f.stack]))
  BY <1>1, Steps
<1>. QED  BY <1>2, PastOf

LEMMA IncrementFits ==
  ASSUME NEW f, Ready(f), InstrOf(f).op = "iinc", NEW o \in Increment(InstrOf(f), Past(f))
  PROVE  OutcomeFits(f, o)
<1>. DEFINE i == InstrOf(f)
            e == EffectAt(f)
            s == StateOf(f)
<1>1. i.op \in Simple \ Leaves /\ i.op \in Simple \ {"athrow", "return"} /\ i.op \in Simple
  BY DEF Simple, Opcodes, StackOps, Leaves
<1>2. e.pop = <<>> /\ Len(e.pop) = 0 /\ e.push = <<>>
  BY DEF EffectAt, EffectOf, BranchEffect, Effect
<1>3. IsList(<<>>) /\ AllCovered(e.push, <<>>) /\ IsList(f.stack)
  BY <1>2, OneCovered, ReadyFacts
<1>4. AllCovered(AfterOf(f).locals, f.locals) /\ AllCovered(AfterOf(f).stack, f.stack)
  <2>1. /\ AllCovered(AfterOf(f).stack, <<>> \o Below(f.stack, 0))
        /\ AllCovered(AfterOf(f).locals, f.locals)
    BY <1>1, <1>2, <1>3, EffectLeft
  <2>2. <<>> \o Below(f.stack, 0) = f.stack
    BY <1>3, RestOfNone
  <2>. QED  BY <2>1, <2>2
<1>5. i.n < Len(f.locals) /\ f.locals[i.n + 1] = IntT
  <2>1. LocalAgrees(i, s)
    BY <1>1, EffectFound
  <2>2. LoadLocal(i, s) = IntT
    BY <2>1 DEF LocalAgrees
  <2>3. i.n \in Nat /\ Len(s.locals) = Len(f.locals) /\ Len(f.locals) \in Nat
    BY ReadyFacts DEF IsInstruction, IsList
  <2>4. i.n < Len(f.locals) /\ s.locals[i.n + 1] = IntT
    BY <2>2, <2>3 DEF LoadLocal, Unset, IntT
  <2>5. Covers(s.locals[i.n + 1], f.locals[i.n + 1])
    <3>1. AllCovered(s.locals, f.locals) /\ i.n + 1 \in 1 .. Len(s.locals)
      BY <2>3, <2>4, ReadyFacts
    <3>. QED  BY <3>1 DEF AllCovered
  <2>. QED  BY <2>4, <2>5 DEF Covers, Unset, IntT
<1>6. o = Step(Past(f))
  <2>1. IntT # NoValue
    BY DEF IntT, NoValue
  <2>2. i.n \in Nat /\ Len(f.locals) \in Nat
    BY ReadyFacts DEF IsInstruction, IsList
  <2>3. ~(i.n >= Len(f.locals))
    BY <1>5, <2>2
  <2>4. Past(f).locals = f.locals
    BY PastOf
  <2>. QED  BY <1>5, <2>1, <2>3, <2>4 DEF Increment
<1>. QED  BY <1>1, <1>4, <1>6, Stays

LEMMA OnArrayOutcomes ==
  ASSUME NEW v, NEW ok, NEW results, NEW o \in OnArray(v, ok, results)
  PROVE  o \in results \/ o \in {NPE, OutOfBounds, NotAnArray}
BY DEF OnArray

LEMMA ArrayLoadFits ==
  ASSUME NEW f, Ready(f), InstrOf(f).op = "arrayload", NEW o \in ArrayLoad(InstrOf(f), Past(f))
  PROVE  OutcomeFits(f, o)
<1>. DEFINE i == InstrOf(f)
            e == EffectAt(f)
<1>1. i.op \in Simple \ Leaves /\ i.op \in Simple
  BY DEF Simple, Opcodes, StackOps, Leaves
<1>2. /\ e.pop = <<IntT, AnObject>> /\ Len(e.pop) = 2
      /\ e.push = <<IF i.k = "A" THEN AnyRef ELSE TypeOf(i.k)>>
  BY DEF EffectAt, EffectOf, ArrayLoadEffect, Effect
<1>3. \A r : Popping(Past(f), <<"Int", "Reference">>, r) = r
  <2>1. Wanted(IntT, "Int") /\ Wanted(AnObject, "Reference")
    BY DEF Wanted, IntT
  <2>. QED  BY <1>1, <1>2, <2>1, TwoWanted, Pops
<1>4. i.k \notin {"J", "F", "D"}
  <2>1. f.pc \in DOMAIN MethodOf(f).code
    BY ReadyFacts DEF Ready, Certified, IsMethod, IsList
  <2>. QED  BY <2>1 DEF Ready, Certified, Supported, InstrOf
<1>5. CASE i.k = "A"
  <2>1. o \in {Go(Past(f), 2, <<v>>) : v \in {NullT, Obj("A")}} \/ o \in {NPE, OutOfBounds, NotAnArray}
    BY <1>3, <1>4, <1>5, OnArrayOutcomes DEF ArrayLoad
  <2>2. ASSUME NEW v \in {NullT, Obj("A")} PROVE OutcomeFits(f, Go(Past(f), 2, <<v>>))
    <3>1. IsReference(v)
      BY DEF IsReference, NullT, Obj
    <3>2. IsList(<<v>>) /\ AllCovered(e.push, <<v>>)
      BY <1>2, <1>5, <3>1, ReferenceCovered, OneCovered
    <3>. QED  BY <1>1, <1>2, <3>2, Goes
  <2>. QED  BY <2>1, <2>2, OtherOutcomes
<1>6. CASE i.k # "A"
  <2>1. o \in {Go(Past(f), 2, <<IntT>>)} \/ o \in {NPE, OutOfBounds, NotAnArray}
    BY <1>3, <1>4, <1>6, OnArrayOutcomes DEF ArrayLoad
  <2>2. e.push = <<IntT>> /\ IntT \in Kinds
    BY <1>2, <1>4, <1>6 DEF TypeOf, Kinds
  <2>. QED  BY <1>1, <1>2, <2>1, <2>2, Computes, OtherOutcomes
<1>. QED  BY <1>5, <1>6

LEMMA ArrayStoreFits ==
  ASSUME NEW f, Ready(f), InstrOf(f).op = "arraystore", NEW o \in ArrayStore(InstrOf(f), Past(f))
  PROVE  OutcomeFits(f, o)
<1>. DEFINE i == InstrOf(f)
            e == EffectAt(f)
            t == IF i.k = "A" THEN AnObject ELSE TypeOf(i.k)
            want == CASE i.k \in {"J", "F", "D"} -> "Any" [] i.k = "A" -> "Reference" [] OTHER -> "Int"
<1>1. i.op \in Simple \ Leaves /\ i.op \in Simple
  BY DEF Simple, Opcodes, StackOps, Leaves
<1>2. e.pop = <<t, IntT, AnObject>> /\ Len(e.pop) = 3 /\ e.push = <<>>
  BY DEF EffectAt, EffectOf, ArrayStoreEffect, Effect
<1>3. \A r : Popping(Past(f), <<want, "Int", "Reference">>, r) = r
  <2>1. Wanted(IntT, "Int") /\ Wanted(AnObject, "Reference")
    BY DEF Wanted, IntT
  <2>2. Wanted(t, want)
    BY DEF Wanted, TypeOf, IntT
  <2>. HIDE DEF t, want
  <2>. QED  BY <1>1, <1>2, <2>1, <2>2, ThreeWanted, Pops
<1>4. o = Go(Past(f), 3, <<>>) \/ o \in {NPE, OutOfBounds, NotAnArray}
  <2>. DEFINE results == OnArray(Past(f).stack[3],
                         IF want # "Any" THEN {ArrayOf(i.k)}
                         ELSE {ArrayOf(k) : k \in {x \in {"J", "F", "D"} : TypeOf(x) = Past(f).stack[1]}},
                         {Go(Past(f), 3, <<>>)})
  <2>1. ArrayStore(i, Past(f)) = Popping(Past(f), <<want, "Int", "Reference">>, results)
    BY DEF ArrayStore
  <2>2. \A x \in results : x \in {Go(Past(f), 3, <<>>)} \/ x \in {NPE, OutOfBounds, NotAnArray}
    BY OnArrayOutcomes
  <2>. HIDE DEF results, want
  <2>. QED  BY <1>3, <2>1, <2>2
<1>5. IsList(<<>>) /\ AllCovered(e.push, <<>>)
  BY <1>2, OneCovered
<1>6. OutcomeFits(f, Go(Past(f), 3, <<>>))
  BY <1>1, <1>2, <1>5, Goes
<1>. QED  BY <1>4, <1>6, OtherOutcomes

LEMMA FieldFits ==
  ASSUME NEW f, Ready(f), InstrOf(f).op \in Fields, NEW o \in FieldAccess(InstrOf(f), Past(f))
  PROVE  OutcomeFits(f, o)
<1>. DEFINE i == InstrOf(f)
            e == EffectAt(f)
<1>1. i.op \in Simple \ Leaves /\ i.op \in Simple
  BY DEF Simple, Opcodes, StackOps, Leaves, Fields
<1>2. ASSUME NEW v \in ValuesOf(i.t) PROVE IsList(<<v>>) /\ AllCovered(<<i.t>>, <<v>>)
  <2>1. IsType(i.t)
    BY ReadyFacts DEF IsInstruction
  <2>. QED  BY <2>1, ValuesCovered, OneCovered
<1>3. IsList(<<>>) /\ AllCovered(<<>>, <<>>)
  BY OneCovered
<1>4. Wanted(i.t, "Any") /\ Wanted(AnObject, "Reference")
  BY DEF Wanted
<1>5. ASSUME NEW v, NEW c, NEW results, NEW x \in OnObject(v, c, results)
      PROVE  x \in results \/ x = NPE \/ x = VmError("FieldNotFound")
  BY <1>5 DEF OnObject
<1>6. CASE i.op = "getstatic"
  <2>1. e.pop = <<>> /\ Len(e.pop) = 0 /\ e.push = <<i.t>>
    BY <1>6 DEF EffectAt, EffectOf, FieldEffect, Effect
  <2>2. PICK v \in ValuesOf(i.t) : o = Go(Past(f), 0, <<v>>)
    BY <1>6 DEF FieldAccess
  <2>3. IsList(<<v>>) /\ AllCovered(e.push, <<v>>)
    BY <1>2, <2>1
  <2>. QED  BY <1>1, <2>1, <2>2, <2>3, Goes
<1>7. CASE i.op = "putstatic"
  <2>1. e.pop = <<i.t>> /\ Len(e.pop) = 1 /\ e.push = <<>>
    BY <1>7 DEF EffectAt, EffectOf, FieldEffect, Effect
  <2>2. \A r : Popping(Past(f), <<"Any">>, r) = r
    BY <1>1, <1>4, <2>1, OneWanted, Pops
  <2>3. o = Go(Past(f), 1, <<>>)
    BY <1>7, <2>2 DEF FieldAccess
  <2>. QED  BY <1>1, <1>3, <2>1, <2>3, Goes
<1>8. CASE i.op = "getfield"
  <2>1. e.pop = <<AnObject>> /\ Len(e.pop) = 1 /\ e.push = <<i.t>>
    BY <1>8 DEF EffectAt, EffectOf, FieldEffect, Effect
  <2>2. \A r : Popping(Past(f), <<"Reference">>, r) = r
    BY <1>1, <1>4, <2>1, OneWanted, Pops
  <2>3. o \in {Go(Past(f), 1, <<v>>) : v \in ValuesOf(i.t)} \/ o = NPE \/ o = VmError("FieldNotFound")
    BY <1>5, <1>8, <2>2 DEF FieldAccess
  <2>4. ASSUME NEW v \in ValuesOf(i.t) PROVE OutcomeFits(f, Go(Past(f), 1, <<v>>))
    <3>1. IsList(<<v>>) /\ AllCovered(e.push, <<v>>)
      BY <1>2, <2>1
    <3>. QED  BY <1>1, <2>1, <3>1, Goes
  <2>. QED  BY <2>3, <2>4, OtherOutcomes
<1>9. CASE i.op = "putfield"
  <2>1. e.pop = <<i.t, AnObject>> /\ Len(e.pop) = 2 /\ e.push = <<>>
    BY <1>9 DEF EffectAt, EffectOf, FieldEffect, Effect
  <2>2. \A r : Popping(Past(f), <<"Any", "Reference">>, r) = r
    BY <1>1, <1>4, <2>1, TwoWanted, Pops
  <2>3. o = Go(Past(f), 2, <<>>) \/ o = NPE \/ o = VmError("FieldNotFound")
    BY <1>5, <1>9, <2>2 DEF FieldAccess
  <2>4. OutcomeFits(f, Go(Past(f), 2, <<>>))
    BY <1>1, <1>3, <2>1, Goes
  <2>. QED  BY <2>3, <2>4, OtherOutcomes
<1>. QED  BY <1>6, <1>7, <1>8, <1>9 DEF Fields

\* The operands taken were n, and vs is what the verifier pushed for them.
LEMMA Puts ==
  ASSUME NEW f, Ready(f), InstrOf(f).op \notin Leaves, NEW n \in Nat, n <= Len(f.stack),
         NEW ts, NEW vs, IsList(ts), IsList(vs), AllCovered(ts, vs),
         AfterOf(f) = Push(MethodOf(f), At(StateOf(f).locals, Below(StateOf(f).stack, n)), ts)
  PROVE  OutcomeFits(f, Go(Past(f), n, vs))
<1>. DEFINE s == StateOf(f)
            m == MethodOf(f)
            rest == At(s.locals, Below(s.stack, n))
<1>1. /\ IsList(s.stack) /\ IsList(f.stack) /\ AllCovered(s.stack, f.stack) /\ Len(s.stack) = Len(f.stack)
      /\ AllCovered(s.locals, f.locals) /\ IsList(f.locals) /\ Paired(f.locals) /\ Len(f.stack) \in Nat
      /\ GoesTo(f, f.pc + 1) /\ AfterOf(f) # NoState
  BY ReadyFacts DEF IsList
<1>2. /\ IsList(Below(s.stack, n)) /\ Len(Below(s.stack, n)) = Len(f.stack) - n
      /\ IsList(Below(f.stack, n)) /\ Len(Below(f.stack, n)) = Len(f.stack) - n
      /\ AllCovered(Below(s.stack, n), Below(f.stack, n))
  BY <1>1, Rest, RestCovered
<1>3. rest.locals = s.locals /\ rest.stack = Below(s.stack, n)
  BY DEF At
<1>4. m.max_stack \in Nat
  BY DEF Ready, Certified, IsMethod
<1>5. Push(m, rest, ts) # NoState /\ AfterOf(f) = Push(m, rest, ts)
  BY <1>1
<1>. HIDE DEF rest, m
<1>6. /\ Len(rest.stack) + Len(ts) <= m.max_stack
      /\ AfterOf(f).locals = s.locals /\ AfterOf(f).stack = ts \o Below(s.stack, n)
  <2>1. IsList(rest.stack)
    BY <1>2, <1>3
  <2>2. /\ Len(rest.stack) + Len(ts) <= m.max_stack
        /\ Push(m, rest, ts).locals = rest.locals /\ Push(m, rest, ts).stack = ts \o rest.stack
    BY <1>4, <1>5, <2>1, Pushed
  <2>3. AfterOf(f).locals = rest.locals /\ AfterOf(f).stack = ts \o rest.stack
    BY <1>5, <2>2
  <2>. QED  BY <1>3, <2>2, <2>3
<1>7. /\ AllCovered(AfterOf(f).stack, vs \o Below(f.stack, n))
      /\ AllCovered(AfterOf(f).locals, f.locals)
  BY <1>1, <1>2, <1>6, JoinedCovered
<1>8. IsList(vs \o Below(f.stack, n))
  BY <1>2, Joined
<1>9. Len(f.stack) - n + Len(vs) <= m.max_stack
  <2>1. Len(vs) = Len(ts) /\ Len(vs) \in Nat
    BY DEF AllCovered, IsList
  <2>. QED  BY <1>2, <1>3, <1>6, <2>1
<1>10. OutcomeFits(f, Step([m |-> f.m, pc |-> f.pc + 1, locals |-> f.locals, stack |-> vs \o Below(f.stack, n)]))
  BY <1>1, <1>7, <1>8, Steps
<1>. DEFINE g == Past(f)
<1>11. /\ g = [m |-> f.m, pc |-> f.pc + 1, locals |-> f.locals, stack |-> f.stack]
       /\ g.stack = f.stack /\ g.m = f.m /\ g.locals = f.locals /\ g.pc = f.pc + 1 /\ MethodOf(g) = m
  BY PastOf DEF m
<1>12. g = [m |-> g.m, pc |-> g.pc, locals |-> g.locals, stack |-> g.stack]
  BY <1>11
<1>. HIDE DEF g
<1>. DEFINE ws == vs \o Below(g.stack, n)
            h == [g EXCEPT !.pc = g.pc]
            k == [h EXCEPT !.stack = ws]
<1>13. Go(g, n, vs) = Step(k)
  <2>1. ~(Len(f.stack) - n + Len(vs) > m.max_stack)
    <3>1. Len(vs) \in Nat
      BY DEF IsList
    <3>. QED  BY <1>1, <1>4, <1>9, <3>1
  <2>. QED  BY <1>11, <2>1 DEF Go, JumpTo
<1>14. k = [m |-> f.m, pc |-> f.pc + 1, locals |-> f.locals, stack |-> ws]
  <2>. HIDE DEF ws
  <2>1. h = g
    BY <1>12
  <2>. HIDE DEF h
  <2>. QED  BY <1>11, <2>1
<1>. HIDE DEF h, k
<1>15. Go(g, n, vs) = Step([m |-> f.m, pc |-> f.pc + 1, locals |-> f.locals, stack |-> vs \o Below(f.stack, n)])
  BY <1>11, <1>13, <1>14
<1>. QED  BY <1>10, <1>15 DEF g

LEMMA LoadFits ==
  ASSUME NEW f, Ready(f), InstrOf(f).op = "load", NEW o \in Load(InstrOf(f), Past(f))
  PROVE  OutcomeFits(f, o)
<1>. DEFINE i == InstrOf(f)
            s == StateOf(f)
            m == MethodOf(f)
            t == LoadLocal(i, s)
            v == f.locals[i.n + 1]
<1>1. AfterOf(f) = ApplyLoad(m, i, s) /\ AfterOf(f) # NoState
  BY ReadyFacts DEF AfterOf, Apply, InstrOf, StackOps
<1>2. AfterOf(f) = Push(m, s, <<t>>) /\ IF i.k = "A" THEN RefLike(t) ELSE t = TypeOf(i.k)
  BY <1>1 DEF ApplyLoad
<1>3. t # Unset
  BY <1>2 DEF RefLike, TypeOf, Unset, IntT, LongT, FloatT, DoubleT
<1>4. /\ i.n \in Nat /\ Len(s.locals) = Len(f.locals) /\ Len(f.locals) \in Nat
      /\ AllCovered(s.locals, f.locals) /\ IsList(s.stack) /\ Len(f.stack) \in Nat
  BY ReadyFacts DEF IsInstruction, IsList
<1>5. i.n < Len(f.locals) /\ t = s.locals[i.n + 1]
  BY <1>3, <1>4 DEF LoadLocal
<1>6. Covers(t, v)
  <2>1. i.n + 1 \in 1 .. Len(s.locals)
    BY <1>4, <1>5
  <2>. QED  BY <1>4, <1>5, <2>1 DEF AllCovered
<1>7. v # NoValue
  BY <1>3, <1>6, CoversWide
<1>8. o = Go(Past(f), 0, <<v>>)
  <2>1. ~(i.n >= Len(f.locals)) /\ Past(f).locals = f.locals
    BY <1>4, <1>5, PastOf
  <2>. QED  BY <1>7, <2>1 DEF Load
<1>9. Push(m, s, <<t>>) = Push(m, At(s.locals, Below(s.stack, 0)), <<t>>)
  <2>1. Below(s.stack, 0) = s.stack
    BY <1>4, RestOfNone
  <2>2. At(s.locals, s.stack).locals = s.locals /\ At(s.locals, s.stack).stack = s.stack
    BY DEF At
  <2>. QED  BY <2>1, <2>2 DEF Push
<1>10. IsList(<<t>>) /\ IsList(<<v>>) /\ AllCovered(<<t>>, <<v>>)
  BY <1>6, OneCovered, ShortLists
<1>. HIDE DEF s, m, t, v
<1>11. 0 <= Len(f.stack) /\ i.op \notin Leaves
  BY <1>4 DEF Leaves
<1>. QED  BY <1>2, <1>8, <1>9, <1>10, <1>11, Puts DEF s, m

LEMMA StoreFits ==
  ASSUME NEW f, Ready(f), InstrOf(f).op = "store", NEW o \in Store(InstrOf(f), Past(f))
  PROVE  OutcomeFits(f, o)
<1>. DEFINE i == InstrOf(f)
            s == StateOf(f)
            m == MethodOf(f)
            ts == StoreSlot(s.locals, i.n, s.stack[1], Unset)
            vs == StoreSlot(f.locals, i.n, f.stack[1], NoValue)
<1>1. AfterOf(f) = ApplyStore(i, s) /\ AfterOf(f) # NoState
  BY ReadyFacts DEF AfterOf, Apply, InstrOf, StackOps
<1>2. /\ AfterOf(f) = At(ts.locals, Below(s.stack, 1))
      /\ ts.ok /\ Len(s.stack) # 0
  BY <1>1 DEF ApplyStore
<1>3. /\ i.n \in Nat /\ Len(s.locals) = Len(f.locals) /\ Len(f.locals) \in Nat
      /\ AllCovered(s.locals, f.locals) /\ IsList(s.locals) /\ IsList(f.locals) /\ Paired(f.locals)
      /\ IsList(s.stack) /\ IsList(f.stack) /\ Len(f.stack) \in Nat
      /\ Len(s.stack) = Len(f.stack) /\ AllCovered(s.stack, f.stack) /\ Full(s.stack)
      /\ GoesTo(f, f.pc + 1)
  BY ReadyFacts DEF IsInstruction, IsList, Leaves
<1>4. 1 \in 1 .. Len(s.stack) /\ 1 <= Len(f.stack)
  BY <1>2, <1>3
<1>5. Covers(s.stack[1], f.stack[1]) /\ s.stack[1] # Unset
  BY <1>3, <1>4 DEF AllCovered, Full
<1>6. vs.ok /\ AllCovered(ts.locals, vs.locals) /\ Paired(vs.locals)
  BY <1>2, <1>3, <1>5, StoreCovered
<1>7. IsList(vs.locals)
  BY <1>3, StoreSlotLists
<1>8. IsList(Below(f.stack, 1)) /\ AllCovered(Below(s.stack, 1), Below(f.stack, 1))
  BY <1>3, <1>4, Rest, RestCovered
<1>9. AfterOf(f).locals = ts.locals /\ AfterOf(f).stack = Below(s.stack, 1)
  BY <1>2 DEF At
<1>. DEFINE g == Past(f)
<1>10. /\ g = [m |-> f.m, pc |-> f.pc + 1, locals |-> f.locals, stack |-> f.stack]
       /\ g.stack = f.stack /\ g.locals = f.locals
  BY PastOf
<1>11. Tail(f.stack) = Below(f.stack, 1) /\ f.stack # <<>>
  <2>1. f.stack \in Seq({f.stack[j] : j \in 1 .. Len(f.stack)})
    BY <1>3, ListIsSeq
  <2>. QED  BY <1>4, <2>1 DEF Below
<1>. DEFINE ls == vs.locals
            ws == Tail(g.stack)
            h == [g EXCEPT !.locals = ls]
            k == [h EXCEPT !.stack = ws]
<1>12. o = Step(k)
  BY <1>6, <1>10, <1>11 DEF Store
<1>13. k = [m |-> f.m, pc |-> f.pc + 1, locals |-> ls, stack |-> ws]
  <2>. HIDE DEF ls, ws
  <2>1. h = [m |-> f.m, pc |-> f.pc + 1, locals |-> ls, stack |-> f.stack]
    BY <1>10
  <2>. HIDE DEF h
  <2>. QED  BY <2>1
<1>14. o = Step([m |-> f.m, pc |-> f.pc + 1, locals |-> vs.locals, stack |-> Below(f.stack, 1)])
  BY <1>10, <1>11, <1>12, <1>13
<1>. HIDE DEF s, m, ts, vs, g
<1>. QED  BY <1>3, <1>6, <1>7, <1>8, <1>9, <1>14, Steps

-----------------------------------------------------------------------------
(* The stack instructions: the form the interpreter takes is the verifier's. *)
\* A form x of the interpreter is the verifier's form g; or values of the
\* categories of g do not match it.
Alike(x, g) ==
  /\ Len(x[1]) = Len(g[1]) /\ x[2] = g[2]
  /\ \A j \in 1 .. Len(g[1]) : x[1][j] \in {0, g[1][j]}
Unlike(x, g) == \E j \in 1 .. Len(g[1]) : j <= Len(x[1]) /\ x[1][j] \notin {0, g[1][j]}
FormIs(forms, k, g) ==
  /\ k \in 1 .. Len(forms) /\ Alike(forms[k], g)
  /\ \A o \in 1 .. Len(forms) : o # k => Unlike(forms[o], g)

LEMMA SameForm ==
  \A a, b, c, d, p :
    /\ Alike(<<<<a>>, p>>, <<<<a>>, p>>) /\ Alike(<<<<0>>, p>>, <<<<a>>, p>>)
    /\ Alike(<<<<a, b>>, p>>, <<<<a, b>>, p>>) /\ Alike(<<<<a, 0>>, p>>, <<<<a, b>>, p>>)
    /\ Alike(<<<<a, b, c>>, p>>, <<<<a, b, c>>, p>>) /\ Alike(<<<<a, b, 0>>, p>>, <<<<a, b, c>>, p>>)
    /\ Alike(<<<<a, 0, 0>>, p>>, <<<<a, b, c>>, p>>) /\ Alike(<<<<a, b, 0, 0>>, p>>, <<<<a, b, c, d>>, p>>)
<1>. TAKE a, b, c, d, p
<1>1. Alike(<<<<a>>, p>>, <<<<a>>, p>>)
  BY DEF Alike
<1>2. Alike(<<<<0>>, p>>, <<<<a>>, p>>)
  BY DEF Alike
<1>3. Alike(<<<<a, b>>, p>>, <<<<a, b>>, p>>)
  BY DEF Alike
<1>4. Alike(<<<<a, 0>>, p>>, <<<<a, b>>, p>>)
  BY DEF Alike
<1>5. Alike(<<<<a, b, c>>, p>>, <<<<a, b, c>>, p>>)
  BY DEF Alike
<1>6. Alike(<<<<a, b, 0>>, p>>, <<<<a, b, c>>, p>>)
  BY DEF Alike
<1>7. Alike(<<<<a, 0, 0>>, p>>, <<<<a, b, c>>, p>>)
  BY DEF Alike
<1>8. Alike(<<<<a, b, 0, 0>>, p>>, <<<<a, b, c, d>>, p>>)
  BY DEF Alike
<1>. QED  BY <1>1, <1>2, <1>3, <1>4, <1>5, <1>6, <1>7, <1>8

LEMMA OtherForm ==
  ASSUME NEW a, NEW b, NEW p, NEW q,
         \/ 1 \in 1 .. Len(b) /\ 1 <= Len(a) /\ a[1] \notin {0, b[1]}
         \/ 2 \in 1 .. Len(b) /\ 2 <= Len(a) /\ a[2] \notin {0, b[2]}
  PROVE  Unlike(<<a, p>>, <<b, q>>)
BY DEF Unlike

LEMMA FormsAgree ==
  ASSUME NEW i, i.op \in StackOps,
         NEW g \in IF i.op \in {"dup2_x1", "dup2_x2"} THEN WideForms(i) ELSE Forms(i)
  PROVE  \E k : FormIs(StackForms(i.op), k, g)
<1>1. CASE i.op = "pop"
  <2>1. CASE g = <<<<1>>, <<>>>>
    <3>1. Alike(<<<<0>>, <<>>>>, <<<<1>>, <<>>>>)
      BY SameForm
    <3>2. FormIs(StackForms("pop"), 1, <<<<1>>, <<>>>>)
      BY <3>1 DEF StackForms, FormIs
    <3>. QED  BY <1>1, <2>1, <3>2
  <2>2. CASE g = <<<<2>>, <<>>>>
    <3>1. Alike(<<<<0>>, <<>>>>, <<<<2>>, <<>>>>)
      BY SameForm
    <3>2. FormIs(StackForms("pop"), 1, <<<<2>>, <<>>>>)
      BY <3>1 DEF StackForms, FormIs
    <3>. QED  BY <1>1, <2>2, <3>2
  <2>. QED  BY <1>1, <2>1, <2>2 DEF Forms, WideForms
<1>2. CASE i.op = "dup"
  <2>1. CASE g = <<<<1>>, <<1, 1>>>>
    <3>1. Alike(<<<<0>>, <<1, 1>>>>, <<<<1>>, <<1, 1>>>>)
      BY SameForm
    <3>2. FormIs(StackForms("dup"), 1, <<<<1>>, <<1, 1>>>>)
      BY <3>1 DEF StackForms, FormIs
    <3>. QED  BY <1>2, <2>1, <3>2
  <2>. QED  BY <1>2, <2>1 DEF Forms, WideForms
<1>3. CASE i.op = "dup_x1"
  <2>1. CASE g = <<<<1, 1>>, <<1, 2, 1>>>>
    <3>1. Alike(<<<<1, 1>>, <<1, 2, 1>>>>, <<<<1, 1>>, <<1, 2, 1>>>>)
      BY SameForm
    <3>2. FormIs(StackForms("dup_x1"), 1, <<<<1, 1>>, <<1, 2, 1>>>>)
      BY <3>1 DEF StackForms, FormIs
    <3>. QED  BY <1>3, <2>1, <3>2
  <2>. QED  BY <1>3, <2>1 DEF Forms, WideForms
<1>4. CASE i.op = "swap"
  <2>1. CASE g = <<<<1, 1>>, <<2, 1>>>>
    <3>1. Alike(<<<<1, 1>>, <<2, 1>>>>, <<<<1, 1>>, <<2, 1>>>>)
      BY SameForm
    <3>2. FormIs(StackForms("swap"), 1, <<<<1, 1>>, <<2, 1>>>>)
      BY <3>1 DEF StackForms, FormIs
    <3>. QED  BY <1>4, <2>1, <3>2
  <2>. QED  BY <1>4, <2>1 DEF Forms, WideForms
<1>5. CASE i.op = "pop2"
  <2>1. CASE g = <<<<2>>, <<>>>>
    <3>1. Alike(<<<<2>>, <<>>>>, <<<<2>>, <<>>>>)
      BY SameForm
    <3>2. Unlike(<<<<1, 0>>, <<>>>>, <<<<2>>, <<>>>>)
      BY OtherForm
    <3>3. FormIs(StackForms("pop2"), 1, <<<<2>>, <<>>>>)
      BY <3>1, <3>2 DEF StackForms, FormIs
    <3>. QED  BY <1>5, <2>1, <3>3
  <2>2. CASE g = <<<<1, 1>>, <<>>>>
    <3>1. Unlike(<<<<2>>, <<>>>>, <<<<1, 1>>, <<>>>>)
      BY OtherForm
    <3>2. Alike(<<<<1, 0>>, <<>>>>, <<<<1, 1>>, <<>>>>)
      BY SameForm
    <3>3. FormIs(StackForms("pop2"), 2, <<<<1, 1>>, <<>>>>)
      BY <3>1, <3>2 DEF StackForms, FormIs
    <3>. QED  BY <1>5, <2>2, <3>3
  <2>. QED  BY <1>5, <2>1, <2>2 DEF Forms, WideForms
<1>6. CASE i.op = "dup2"
  <2>1. CASE g = <<<<2>>, <<1, 1>>>>
    <3>1. Alike(<<<<2>>, <<1, 1>>>>, <<<<2>>, <<1, 1>>>>)
      BY SameForm
    <3>2. Unlike(<<<<1, 0>>, <<1, 2, 1, 2>>>>, <<<<2>>, <<1, 1>>>>)
      BY OtherForm
    <3>3. FormIs(StackForms("dup2"), 1, <<<<2>>, <<1, 1>>>>)
      BY <3>1, <3>2 DEF StackForms, FormIs
    <3>. QED  BY <1>6, <2>1, <3>3
  <2>2. CASE g = <<<<1, 1>>, <<1, 2, 1, 2>>>>
    <3>1. Unlike(<<<<2>>, <<1, 1>>>>, <<<<1, 1>>, <<1, 2, 1, 2>>>>)
      BY OtherForm
    <3>2. Alike(<<<<1, 0>>, <<1, 2, 1, 2>>>>, <<<<1, 1>>, <<1, 2, 1, 2>>>>)
      BY SameForm
    <3>3. FormIs(StackForms("dup2"), 2, <<<<1, 1>>, <<1, 2, 1, 2>>>>)
      BY <3>1, <3>2 DEF StackForms, FormIs
    <3>. QED  BY <1>6, <2>2, <3>3
  <2>. QED  BY <1>6, <2>1, <2>2 DEF Forms, WideForms
<1>7. CASE i.op = "dup_x2"
  <2>1. CASE g = <<<<1, 2>>, <<1, 2, 1>>>>
    <3>1. Alike(<<<<1, 2>>, <<1, 2, 1>>>>, <<<<1, 2>>, <<1, 2, 1>>>>)
      BY SameForm
    <3>2. Unlike(<<<<1, 1, 1>>, <<1, 2, 3, 1>>>>, <<<<1, 2>>, <<1, 2, 1>>>>)
      BY OtherForm
    <3>3. FormIs(StackForms("dup_x2"), 1, <<<<1, 2>>, <<1, 2, 1>>>>)
      BY <3>1, <3>2 DEF StackForms, FormIs
    <3>. QED  BY <1>7, <2>1, <3>3
  <2>2. CASE g = <<<<1, 1, 1>>, <<1, 2, 3, 1>>>>
    <3>1. Unlike(<<<<1, 2>>, <<1, 2, 1>>>>, <<<<1, 1, 1>>, <<1, 2, 3, 1>>>>)
      BY OtherForm
    <3>2. Alike(<<<<1, 1, 1>>, <<1, 2, 3, 1>>>>, <<<<1, 1, 1>>, <<1, 2, 3, 1>>>>)
      BY SameForm
    <3>3. FormIs(StackForms("dup_x2"), 2, <<<<1, 1, 1>>, <<1, 2, 3, 1>>>>)
      BY <3>1, <3>2 DEF StackForms, FormIs
    <3>. QED  BY <1>7, <2>2, <3>3
  <2>. QED  BY <1>7, <2>1, <2>2 DEF Forms, WideForms
<1>8. CASE i.op = "dup2_x1"
  <2>1. CASE g = <<<<2, 1>>, <<1, 2, 1>>>>
    <3>1. Alike(<<<<2, 0>>, <<1, 2, 1>>>>, <<<<2, 1>>, <<1, 2, 1>>>>)
      BY SameForm
    <3>2. Unlike(<<<<1, 0, 0>>, <<1, 2, 3, 1, 2>>>>, <<<<2, 1>>, <<1, 2, 1>>>>)
      BY OtherForm
    <3>3. FormIs(StackForms("dup2_x1"), 1, <<<<2, 1>>, <<1, 2, 1>>>>)
      BY <3>1, <3>2 DEF StackForms, FormIs
    <3>. QED  BY <1>8, <2>1, <3>3
  <2>2. CASE g = <<<<1, 1, 1>>, <<1, 2, 3, 1, 2>>>>
    <3>1. Unlike(<<<<2, 0>>, <<1, 2, 1>>>>, <<<<1, 1, 1>>, <<1, 2, 3, 1, 2>>>>)
      BY OtherForm
    <3>2. Alike(<<<<1, 0, 0>>, <<1, 2, 3, 1, 2>>>>, <<<<1, 1, 1>>, <<1, 2, 3, 1, 2>>>>)
      BY SameForm
    <3>3. FormIs(StackForms("dup2_x1"), 2, <<<<1, 1, 1>>, <<1, 2, 3, 1, 2>>>>)
      BY <3>1, <3>2 DEF StackForms, FormIs
    <3>. QED  BY <1>8, <2>2, <3>3
  <2>. QED  BY <1>8, <2>1, <2>2 DEF Forms, WideForms
<1>9. CASE i.op = "dup2_x2"
  <2>1. CASE g = <<<<2, 2>>, <<1, 2, 1>>>>
    <3>1. Alike(<<<<2, 2>>, <<1, 2, 1>>>>, <<<<2, 2>>, <<1, 2, 1>>>>)
      BY SameForm
    <3>2. Unlike(<<<<2, 1, 0>>, <<1, 2, 3, 1>>>>, <<<<2, 2>>, <<1, 2, 1>>>>)
      BY OtherForm
    <3>3. Unlike(<<<<1, 2, 0>>, <<1, 2, 3, 1, 2>>>>, <<<<2, 2>>, <<1, 2, 1>>>>)
      BY OtherForm
    <3>4. Unlike(<<<<1, 1, 0, 0>>, <<1, 2, 3, 4, 1, 2>>>>, <<<<2, 2>>, <<1, 2, 1>>>>)
      BY OtherForm
    <3>5. FormIs(StackForms("dup2_x2"), 1, <<<<2, 2>>, <<1, 2, 1>>>>)
      BY <3>1, <3>2, <3>3, <3>4 DEF StackForms, FormIs
    <3>. QED  BY <1>9, <2>1, <3>5
  <2>2. CASE g = <<<<2, 1, 1>>, <<1, 2, 3, 1>>>>
    <3>1. Unlike(<<<<2, 2>>, <<1, 2, 1>>>>, <<<<2, 1, 1>>, <<1, 2, 3, 1>>>>)
      BY OtherForm
    <3>2. Alike(<<<<2, 1, 0>>, <<1, 2, 3, 1>>>>, <<<<2, 1, 1>>, <<1, 2, 3, 1>>>>)
      BY SameForm
    <3>3. Unlike(<<<<1, 2, 0>>, <<1, 2, 3, 1, 2>>>>, <<<<2, 1, 1>>, <<1, 2, 3, 1>>>>)
      BY OtherForm
    <3>4. Unlike(<<<<1, 1, 0, 0>>, <<1, 2, 3, 4, 1, 2>>>>, <<<<2, 1, 1>>, <<1, 2, 3, 1>>>>)
      BY OtherForm
    <3>5. FormIs(StackForms("dup2_x2"), 2, <<<<2, 1, 1>>, <<1, 2, 3, 1>>>>)
      BY <3>1, <3>2, <3>3, <3>4 DEF StackForms, FormIs
    <3>. QED  BY <1>9, <2>2, <3>5
  <2>3. CASE g = <<<<1, 2, 1>>, <<1, 2, 3, 1, 2>>>>
    <3>1. Unlike(<<<<2, 2>>, <<1, 2, 1>>>>, <<<<1, 2, 1>>, <<1, 2, 3, 1, 2>>>>)
      BY OtherForm
    <3>2. Unlike(<<<<2, 1, 0>>, <<1, 2, 3, 1>>>>, <<<<1, 2, 1>>, <<1, 2, 3, 1, 2>>>>)
      BY OtherForm
    <3>3. Alike(<<<<1, 2, 0>>, <<1, 2, 3, 1, 2>>>>, <<<<1, 2, 1>>, <<1, 2, 3, 1, 2>>>>)
      BY SameForm
    <3>4. Unlike(<<<<1, 1, 0, 0>>, <<1, 2, 3, 4, 1, 2>>>>, <<<<1, 2, 1>>, <<1, 2, 3, 1, 2>>>>)
      <4>1. 2 \in 1 .. Len(<<1, 2, 1>>) /\ 2 <= Len(<<1, 1, 0, 0>>) /\ <<1, 1, 0, 0>>[2] \notin {0, <<1, 2, 1>>[2]}
        OBVIOUS
      <4>. QED  BY <4>1, OtherForm
    <3>5. FormIs(StackForms("dup2_x2"), 3, <<<<1, 2, 1>>, <<1, 2, 3, 1, 2>>>>)
      BY <3>1, <3>2, <3>3, <3>4 DEF StackForms, FormIs
    <3>. QED  BY <1>9, <2>3, <3>5
  <2>4. CASE g = <<<<1, 1, 1, 1>>, <<1, 2, 3, 4, 1, 2>>>>
    <3>1. Unlike(<<<<2, 2>>, <<1, 2, 1>>>>, <<<<1, 1, 1, 1>>, <<1, 2, 3, 4, 1, 2>>>>)
      BY OtherForm
    <3>2. Unlike(<<<<2, 1, 0>>, <<1, 2, 3, 1>>>>, <<<<1, 1, 1, 1>>, <<1, 2, 3, 4, 1, 2>>>>)
      BY OtherForm
    <3>3. Unlike(<<<<1, 2, 0>>, <<1, 2, 3, 1, 2>>>>, <<<<1, 1, 1, 1>>, <<1, 2, 3, 4, 1, 2>>>>)
      <4>1. 2 \in 1 .. Len(<<1, 1, 1, 1>>) /\ 2 <= Len(<<1, 2, 0>>) /\ <<1, 2, 0>>[2] \notin {0, <<1, 1, 1, 1>>[2]}
        OBVIOUS
      <4>. QED  BY <4>1, OtherForm
    <3>4. Alike(<<<<1, 1, 0, 0>>, <<1, 2, 3, 4, 1, 2>>>>, <<<<1, 1, 1, 1>>, <<1, 2, 3, 4, 1, 2>>>>)
      BY SameForm
    <3>5. FormIs(StackForms("dup2_x2"), 4, <<<<1, 1, 1, 1>>, <<1, 2, 3, 4, 1, 2>>>>)
      BY <3>1, <3>2, <3>3, <3>4 DEF StackForms, FormIs
    <3>. QED  BY <1>9, <2>4, <3>5
  <2>. QED  BY <1>9, <2>1, <2>2, <2>3, <2>4 DEF Forms, WideForms
<1>. QED  BY <1>1, <1>2, <1>3, <1>4, <1>5, <1>6, <1>7, <1>8, <1>9 DEF StackOps

LEMMA RearrangeFits ==
  ASSUME NEW f, Ready(f), InstrOf(f).op \in StackOps, NEW o \in Rearrange(InstrOf(f), Past(f))
  PROVE  OutcomeFits(f, o)
<1>. DEFINE i == InstrOf(f)
            s == StateOf(f)
            m == MethodOf(f)
            forms == IF i.op \in {"dup2_x1", "dup2_x2"} THEN WideForms(i) ELSE Forms(i)
            match == FormsFitting(forms, s.stack)
            g == CHOOSE x \in match : TRUE
            theirs == StackForms(i.op)
            fits(x) == /\ Len(x[1]) <= Len(f.stack)
                       /\ \A j \in 1 .. Len(x[1]) : x[1][j] \in {0, IF Wide(f.stack[j]) THEN 2 ELSE 1}
            matching == {j \in 1 .. Len(theirs) : fits(theirs[j])}
            first == CHOOSE j \in matching : \A k \in matching : j <= k
<1>1. AfterOf(f) = Shuffle(m, i, s) /\ AfterOf(f) # NoState
  BY ReadyFacts DEF AfterOf, Apply, InstrOf, StackOps
<1>2. /\ AfterOf(f) = Push(m, At(s.locals, Below(s.stack, Len(g[1]))), Permute(s.stack, g[2]))
      /\ g \in match
  BY <1>1 DEF Shuffle
<1>3. /\ g \in forms /\ Len(g[1]) <= Len(s.stack)
      /\ \A j \in 1 .. Len(g[1]) : Category(s.stack[j]) = g[1][j]
  BY <1>2 DEF FormsFitting
<1>4. Picks(g)
  BY <1>3, FormsPick
<1>5. PICK k : FormIs(theirs, k, g)
  BY <1>3, FormsAgree
<1>. HIDE DEF g, theirs, match
<1>6. /\ IsList(s.stack) /\ IsList(f.stack) /\ AllCovered(s.stack, f.stack) /\ Full(s.stack)
      /\ Len(s.stack) = Len(f.stack) /\ Len(f.stack) \in Nat
  BY ReadyFacts DEF IsList
<1>7. /\ IsList(g[1]) /\ IsList(g[2]) /\ Len(g[1]) \in Nat /\ Len(g[2]) \in Nat /\ Len(g[1]) <= Len(f.stack)
      /\ \A j \in 1 .. Len(g[2]) : g[2][j] \in 1 .. Len(g[1])
  BY <1>3, <1>4, <1>6 DEF Picks, IsList
<1>8. \A j \in 1 .. Len(g[1]) : (IF Wide(f.stack[j]) THEN 2 ELSE 1) = g[1][j]
  <2>. SUFFICES ASSUME NEW j \in 1 .. Len(g[1]) PROVE (IF Wide(f.stack[j]) THEN 2 ELSE 1) = g[1][j]
    OBVIOUS
  <2>1. j \in 1 .. Len(s.stack)
    BY <1>6, <1>7
  <2>2. Wide(s.stack[j]) <=> Wide(f.stack[j])
    BY <1>6, <2>1, CoversWide DEF AllCovered, Full
  <2>. QED  BY <1>3, <2>2 DEF Category
<1>9. fits(theirs[k])
  <2>1. Len(theirs[k][1]) = Len(g[1]) /\ \A j \in 1 .. Len(g[1]) : theirs[k][1][j] \in {0, g[1][j]}
    BY <1>5 DEF FormIs, Alike
  <2>. QED  BY <1>7, <1>8, <2>1
<1>10. ASSUME NEW x \in 1 .. Len(theirs), x # k PROVE ~fits(theirs[x])
  <2>1. PICK j \in 1 .. Len(g[1]) : j <= Len(theirs[x][1]) /\ theirs[x][1][j] \notin {0, g[1][j]}
    BY <1>5, <1>10 DEF FormIs, Unlike
  <2>2. j \in 1 .. Len(theirs[x][1]) /\ theirs[x][1][j] \notin {0, IF Wide(f.stack[j]) THEN 2 ELSE 1}
    BY <1>8, <2>1
  <2>. QED  BY <2>2
<1>11. k \in 1 .. Len(theirs) /\ k \in Nat
  BY <1>5 DEF FormIs
<1>12. matching = {k}
  <2>. HIDE DEF fits
  <2>. QED  BY <1>9, <1>10, <1>11
<1>13. first = k
  <2>. HIDE DEF matching
  <2>. QED  BY <1>11, <1>12
<1>14. o = Go(Past(f), Len(theirs[first][1]), Permute(f.stack, theirs[first][2]))
  <2>1. Past(f).stack = f.stack
    BY PastOf
  <2>. QED  BY <1>12, <2>1 DEF Rearrange, theirs
<1>15. o = Go(Past(f), Len(g[1]), Permute(f.stack, g[2]))
  <2>1. Len(theirs[k][1]) = Len(g[1]) /\ theirs[k][2] = g[2]
    BY <1>5 DEF FormIs, Alike
  <2>. QED  BY <1>13, <1>14, <2>1
<1>16. ASSUME NEW t PROVE IsList(Permute(t, g[2])) /\ Len(Permute(t, g[2])) = Len(g[2])
  BY <1>7, ListOf DEF Permute
<1>17. AllCovered(Permute(s.stack, g[2]), Permute(f.stack, g[2]))
  <2>1. ASSUME NEW j \in 1 .. Len(g[2]) PROVE Covers(Permute(s.stack, g[2])[j], Permute(f.stack, g[2])[j])
    <3>1. g[2][j] \in 1 .. Len(s.stack)
      BY <1>6, <1>7
    <3>2. Covers(s.stack[g[2][j]], f.stack[g[2][j]])
      BY <1>6, <3>1 DEF AllCovered
    <3>. QED  BY <3>2 DEF Permute
  <2>. QED  BY <1>16, <2>1 DEF AllCovered
<1>18. i.op \notin Leaves
  BY DEF StackOps, Leaves
<1>. QED  BY <1>2, <1>7, <1>15, <1>16, <1>17, <1>18, Puts

-----------------------------------------------------------------------------
LEMMA NewObjectFits ==
  ASSUME NEW f, Ready(f), InstrOf(f).op = "new", NEW o \in NewObject(InstrOf(f), Past(f))
  PROVE  OutcomeFits(f, o)
<1>. DEFINE i == InstrOf(f)
            e == EffectAt(f)
<1>1. i.op \in Simple \ Leaves
  BY DEF Simple, Opcodes, StackOps, Leaves
<1>2. e.pop = <<>> /\ Len(e.pop) = 0 /\ e.push = <<Uninit(f.pc)>>
  BY DEF EffectAt, EffectOf, ObjectEffect, Effect
<1>3. Covers(Uninit(f.pc), Obj(i.c))
  BY DEF Covers, Uninit, Obj, Unset
<1>4. IsList(<<Obj(i.c)>>) /\ AllCovered(e.push, <<Obj(i.c)>>)
  BY <1>2, <1>3, OneCovered
<1>5. o = Go(Past(f), 0, <<Obj(i.c)>>)
  BY DEF NewObject
<1>. QED  BY <1>1, <1>2, <1>4, <1>5, Goes

LEMMA NewArrayFits ==
  ASSUME NEW f, Ready(f), InstrOf(f).op = "newarray", NEW o \in NewArray(InstrOf(f), Past(f))
  PROVE  OutcomeFits(f, o)
<1>. DEFINE i == InstrOf(f)
            e == EffectAt(f)
            pops == [j \in 1 .. i.n |-> IntT]
            wants == [j \in 1 .. i.n |-> "Int"]
<1>1. i.op \in Simple \ Leaves /\ i.op \in Simple
  BY DEF Simple, Opcodes, StackOps, Leaves
<1>2. e.pop = pops /\ e.push = <<AnyRef>>
  BY DEF EffectAt, EffectOf, ObjectEffect, Effect
<1>3. i.n \in Nat
  BY ReadyFacts DEF IsInstruction
<1>4. Len(pops) = i.n /\ Len(wants) = i.n /\ \A j \in 1 .. i.n : Wanted(pops[j], wants[j])
  BY <1>3 DEF Wanted, IntT
<1>5. NewArray(i, Past(f)) = Popping(Past(f), wants, {Go(Past(f), i.n, <<Obj(i.c)>>), Throws("NegativeArraySizeException")})
  BY DEF NewArray
<1>6. Covers(AnyRef, Obj(i.c))
  BY ReferenceCovered DEF IsReference, Obj
<1>7. IsList(<<Obj(i.c)>>) /\ AllCovered(e.push, <<Obj(i.c)>>)
  BY <1>2, <1>6, OneCovered
<1>8. Len(e.pop) = i.n /\ \A j \in 1 .. i.n : Wanted(e.pop[j], wants[j])
  BY <1>2, <1>4
<1>. HIDE DEF e, wants, pops
<1>9. \A r : Popping(Past(f), wants, r) = r
  BY <1>1, <1>4, <1>8, Pops DEF e
<1>10. OutcomeFits(f, Go(Past(f), i.n, <<Obj(i.c)>>))
  BY <1>1, <1>7, <1>8, Goes DEF e
<1>. QED  BY <1>5, <1>9, <1>10, OtherOutcomes

LEMMA ArrayLengthFits ==
  ASSUME NEW f, Ready(f), InstrOf(f).op = "arraylength", NEW o \in ArrayLength(Past(f))
  PROVE  OutcomeFits(f, o)
<1>. DEFINE i == InstrOf(f)
            e == EffectAt(f)
<1>1. i.op \in Simple \ Leaves /\ i.op \in Simple
  BY DEF Simple, Opcodes, StackOps, Leaves
<1>2. e.pop = <<AnObject>> /\ Len(e.pop) = 1 /\ e.push = <<IntT>>
  BY DEF EffectAt, EffectOf, ObjectEffect, Effect
<1>3. \A r : Popping(Past(f), <<"Reference">>, r) = r
  BY <1>1, <1>2, OneWanted, Pops DEF Wanted
<1>4. o \in {NPE, NotAnArray, Go(Past(f), 1, <<IntT>>)}
  BY <1>3 DEF ArrayLength
<1>5. OutcomeFits(f, Go(Past(f), 1, <<IntT>>))
  BY <1>1, <1>2, Computes DEF Kinds
<1>. QED  BY <1>4, <1>5, OtherOutcomes

LEMMA TypeTestFits ==
  ASSUME NEW f, Ready(f), InstrOf(f).op \in {"checkcast", "instanceof"}, NEW o \in TypeTest(InstrOf(f), Past(f))
  PROVE  OutcomeFits(f, o)
<1>. DEFINE i == InstrOf(f)
            e == EffectAt(f)
<1>1. i.op \in Simple \ Leaves /\ i.op \in Simple /\ i.op \in Simple \ {"athrow", "return"}
  BY DEF Simple, Opcodes, StackOps, Leaves
<1>2. e.pop = <<AnObject>> /\ Len(e.pop) = 1 /\ e.push = IF i.op = "instanceof" THEN <<IntT>> ELSE <<Ref(i.c)>>
  BY DEF EffectAt, EffectOf, ObjectEffect, Effect
<1>3. \A r : Popping(Past(f), <<"Reference">>, r) = r
  BY <1>1, <1>2, OneWanted, Pops DEF Wanted
<1>4. CASE i.op = "instanceof"
  <2>1. o = Go(Past(f), 1, <<IntT>>)
    BY <1>3, <1>4 DEF TypeTest
  <2>2. OutcomeFits(f, Go(Past(f), 1, <<IntT>>))
    BY <1>1, <1>2, <1>4, Computes DEF Kinds
  <2>. QED  BY <2>1, <2>2
<1>5. CASE i.op = "checkcast"
  <2>1. o = Step(Past(f)) \/ o = Throws("ClassCastException")
    BY <1>3, <1>5 DEF TypeTest
  <2>2. OutcomeFits(f, Step(Past(f)))
    <3>. DEFINE v == f.stack[1]
    <3>1. /\ Fits(e.pop[1], StateOf(f).stack[1]) /\ Covers(StateOf(f).stack[1], v)
          /\ 1 <= Len(f.stack)
      BY <1>1, <1>2, EffectFound
    <3>2. IsReference(v)
      BY <1>2, <3>1, FitsReference
    <3>3. IsList(<<v>>) /\ AllCovered(e.push, <<v>>)
      BY <1>2, <1>5, <3>2, ReferenceCovered, OneCovered
    <3>4. /\ AllCovered(AfterOf(f).stack, <<v>> \o Below(f.stack, 1))
          /\ AllCovered(AfterOf(f).locals, f.locals)
      BY <1>1, <1>2, <3>3, EffectLeft
    <3>5. <<v>> \o Below(f.stack, 1) = f.stack
      <4>1. IsList(f.stack) /\ Len(f.stack) # 0
        BY <3>1, ReadyFacts
      <4>. QED  BY <4>1, TopBack
    <3>. QED  BY <1>1, <3>4, <3>5, Stays
  <2>. QED  BY <2>1, <2>2, OtherOutcomes
<1>. QED  BY <1>4, <1>5

LEMMA MonitorFits ==
  ASSUME NEW f, Ready(f), InstrOf(f).op = "monitor", NEW o \in MonitorOp(InstrOf(f), Past(f))
  PROVE  OutcomeFits(f, o)
<1>. DEFINE i == InstrOf(f)
            e == EffectAt(f)
<1>1. i.op \in Simple \ Leaves /\ i.op \in Simple
  BY DEF Simple, Opcodes, StackOps, Leaves
<1>2. e.pop = <<AnObject>> /\ Len(e.pop) = 1 /\ e.push = <<>>
  BY DEF EffectAt, EffectOf, ObjectEffect, Effect
<1>3. \A r : Popping(Past(f), <<"Reference">>, r) = r
  BY <1>1, <1>2, OneWanted, Pops DEF Wanted
<1>4. o \in {NPE, Throws("IllegalMonitorStateException"), Go(Past(f), 1, <<>>)}
  BY <1>3 DEF MonitorOp
<1>5. OutcomeFits(f, Go(Past(f), 1, <<>>))
  BY <1>1, <1>2, OneCovered, Goes
<1>. QED  BY <1>4, <1>5, OtherOutcomes

LEMMA AthrowFits ==
  ASSUME NEW f, Ready(f), InstrOf(f).op = "athrow", NEW o \in Athrow(Past(f))
  PROVE  OutcomeFits(f, o)
<1>. DEFINE e == EffectAt(f)
<1>1. InstrOf(f).op \in Simple
  BY DEF Simple, Opcodes, StackOps
<1>2. e.pop = <<AnObject>>
  BY DEF EffectAt, EffectOf, ObjectEffect, Effect
<1>3. \A r : Popping(Past(f), <<"Reference">>, r) = r
  BY <1>1, <1>2, OneWanted, Pops DEF Wanted
<1>4. o = NPE \/ \E c : o = Throws(c)
  BY <1>3 DEF Athrow
<1>. QED  BY <1>4, OtherOutcomes

LEMMA CompatibleCovers ==
  ASSUME NEW t, NEW u, NEW v, Compatible(t, u), Covers(t, v)
  PROVE  Covers(u, v)
<1>1. CASE t = u
  BY <1>1
<1>2. CASE RefLike(t) /\ IsRef(u)
  <2>1. IsReference(v)
    BY <1>2 DEF RefLike, Covers, IsReference, Unset
  <2>. QED  BY <1>2, <2>1 DEF Covers, IsRef, Unset
<1>. QED  BY <1>1, <1>2 DEF Compatible

LEMMA ReturnFits ==
  ASSUME NEW f, Ready(f), InstrOf(f).op = "return", NEW o \in Return(InstrOf(f), Past(f))
  PROVE  OutcomeFits(f, o)
<1>. DEFINE i == InstrOf(f)
            e == EffectAt(f)
            s == StateOf(f)
            returns == MethodOf(f).returns
<1>1. i.op \in Simple
  BY DEF Simple, Opcodes, StackOps
<1>2. ReturnAgrees(MethodOf(f), i, s.stack)
  BY <1>1, EffectFound
<1>3. ASSUME NEW vs, IsList(vs), AllCovered(returns, vs), o = [is |-> "return", value |-> vs]
      PROVE  OutcomeFits(f, o)
  BY <1>3 DEF OutcomeFits
<1>4. CASE i.k = "V"
  <2>1. returns = <<>>
    BY <1>2, <1>4 DEF ReturnAgrees
  <2>2. o = [is |-> "return", value |-> <<>>]
    BY <1>4 DEF Return
  <2>. QED  BY <1>3, <2>1, <2>2, OneCovered
<1>5. CASE i.k # "V"
  <2>. DEFINE want == IF i.k = "A" THEN AnObject ELSE TypeOf(i.k)
              v == f.stack[1]
  <2>1. e.pop = <<want>> /\ Len(e.pop) = 1
    BY <1>5 DEF EffectAt, EffectOf, ReturnEffect, Effect
  <2>2. \A r : Popping(Past(f), <<"Any">>, r) = r
    BY <1>1, <2>1, OneWanted, Pops DEF Wanted
  <2>3. o = [is |-> "return", value |-> <<v>>]
    BY <1>5, <2>2, PastOf DEF Return
  <2>4. Fits(want, s.stack[1]) /\ Covers(s.stack[1], v)
    BY <1>1, <2>1, EffectFound
  <2>5. returns # <<>> /\ Compatible(s.stack[1], returns[1])
    <3>1. CASE i.k = "A"
      BY <1>2, <3>1 DEF ReturnAgrees
    <3>2. CASE i.k # "A"
      <4>1. s.stack[1] = TypeOf(i.k)
        BY <2>4, <3>2 DEF Fits, Compatible, IsRef, TypeOf, IntT, LongT, FloatT, DoubleT
      <4>. QED  BY <1>2, <1>5, <3>2, <4>1 DEF ReturnAgrees
    <3>. QED  BY <3>1, <3>2
  <2>6. Covers(returns[1], v)
    BY <2>4, <2>5, CompatibleCovers
  <2>7. returns = <<returns[1]>>
    <3>1. IsList(returns) /\ Len(returns) <= 1
      BY DEF Ready, Certified, IsMethod, AreTypes
    <3>2. Len(returns) \in Nat /\ returns = [j \in 1 .. Len(returns) |-> returns[j]]
      BY <3>1 DEF IsList
    <3>3. Len(returns) = 1
      <4>1. returns \in Seq({returns[j] : j \in 1 .. Len(returns)})
        BY <3>1, ListIsSeq
      <4>2. Len(returns) # 0
        BY <2>5, <4>1
      <4>. HIDE DEF returns
      <4>. QED  BY <3>1, <3>2, <4>2
    <3>. QED  BY <3>2, <3>3
  <2>8. IsList(<<v>>) /\ AllCovered(returns, <<v>>)
    BY <2>6, <2>7, OneCovered
  <2>. QED  BY <1>3, <2>3, <2>8
<1>. QED  BY <1>4, <1>5

-----------------------------------------------------------------------------
(* Calls.                                                                   *)
LEMMA SingleList ==
  ASSUME NEW s, IsList(s), Len(s) <= 1, s # <<>>
  PROVE  s = <<s[1]>>
<1>1. Len(s) \in Nat /\ s = [j \in 1 .. Len(s) |-> s[j]]
  BY DEF IsList
<1>2. s \in Seq({s[j] : j \in 1 .. Len(s)})
  BY ListIsSeq
<1>3. Len(s) # 0
  BY <1>2
<1>4. Len(s) = 1
  BY <1>1, <1>3
<1>. QED  BY <1>1, <1>4

LEMMA ResultsCovered ==
  ASSUME NEW ts, AreTypes(ts), Len(ts) <= 1
  PROVE  LET results == IF ts = <<>> THEN {<<>>} ELSE {<<v>> : v \in ValuesOf(ts[1])}
         IN results # {} /\ \A r \in results : IsList(r) /\ AllCovered(ts, r)
<1>1. CASE ts = <<>>
  BY <1>1, OneCovered
<1>2. CASE ts # <<>>
  <2>1. ts = <<ts[1]>> /\ IsType(ts[1])
    <3>1. IsList(ts)
      BY DEF AreTypes
    <3>2. ts = <<ts[1]>>
      BY <1>2, <3>1, SingleList
    <3>3. Len(<<ts[1]>>) = 1
      OBVIOUS
    <3>4. 1 \in 1 .. Len(ts)
      BY <3>2, <3>3
    <3>. QED  BY <3>2, <3>4 DEF AreTypes
  <2>2. ValuesOf(ts[1]) # {}
    BY <2>1 DEF ValuesOf, IsType, IntT, LongT, FloatT, DoubleT
  <2>3. ASSUME NEW v \in ValuesOf(ts[1]) PROVE IsList(<<v>>) /\ AllCovered(ts, <<v>>)
    BY <2>1, ValuesCovered, OneCovered
  <2>. QED  BY <1>2, <2>2, <2>3
<1>. QED  BY <1>1, <1>2

ReceiversOf(i) == IF i.mode \in {"static", "dynamic"} THEN 0 ELSE 1

LEMMA InvokePops ==
  ASSUME NEW f, Ready(f), InstrOf(f).op = "invoke"
  PROVE  LET i == InstrOf(f)
             e == EffectAt(f)
             n == Len(i.args) + ReceiversOf(i)
         IN /\ IsList(i.args) /\ Len(i.args) \in Nat /\ n \in Nat
            /\ Len(e.pop) = n /\ e.push = i.r
            /\ \A j \in 1 .. Len(i.args) : e.pop[j] = i.args[Len(i.args) + 1 - j]
            /\ ReceiversOf(i) = 1 => e.pop[n] \in {AnObject, <<"Receiver">>}
<1>. DEFINE i == InstrOf(f)
            e == EffectAt(f)
            args == [j \in 1 .. Len(i.args) |-> i.args[Len(i.args) + 1 - j]]
            who == IF i.mode \in {"static", "dynamic"} THEN <<>>
                   ELSE IF i.mode = "init" THEN <<<<"Receiver">>>> ELSE <<AnObject>>
<1>1. AreTypes(i.args)
  BY ReadyFacts DEF IsInstruction
<1>2. IsList(i.args) /\ Len(i.args) \in Nat
  BY <1>1 DEF AreTypes, IsList
<1>3. e.pop = args \o who /\ e.push = i.r
  BY DEF EffectAt, EffectOf, InvokeEffect, Effect
<1>4. IsList(args) /\ Len(args) = Len(i.args)
  BY <1>2, ArgumentsReversed
<1>5. /\ IsList(who) /\ Len(who) = ReceiversOf(i)
      /\ ReceiversOf(i) = 1 => who[1] \in {AnObject, <<"Receiver">>}
  BY ShortLists DEF ReceiversOf
<1>6. ReceiversOf(i) \in {0, 1}
  BY DEF ReceiversOf
<1>7. \A j \in 1 .. Len(i.args) : args[j] = i.args[Len(i.args) + 1 - j]
  OBVIOUS
<1>. HIDE DEF args, who, e
<1>8. /\ Len(e.pop) = Len(args) + Len(who)
      /\ \A j \in 1 .. Len(args) : e.pop[j] = args[j]
      /\ \A j \in 1 .. Len(who) : e.pop[Len(args) + j] = who[j]
  <2>1. IsList(args) /\ IsList(who)
    BY <1>4, <1>5
  <2>2. /\ Len(args \o who) = Len(args) + Len(who)
        /\ \A j \in 1 .. Len(args) : (args \o who)[j] = args[j]
        /\ \A j \in 1 .. Len(who) : (args \o who)[Len(args) + j] = who[j]
    BY <2>1, Joined
  <2>. QED  BY <1>3, <2>2
<1>9. ReceiversOf(i) = 1 => e.pop[Len(i.args) + 1] = who[1]
  <2>1. ReceiversOf(i) = 1 => 1 \in 1 .. Len(who)
    BY <1>5
  <2>. QED  BY <1>4, <1>8, <2>1
<1>10. \A j \in 1 .. Len(i.args) : e.pop[j] = i.args[Len(i.args) + 1 - j]
  BY <1>4, <1>7, <1>8
<1>11. ReceiversOf(i) = 1 => e.pop[Len(i.args) + ReceiversOf(i)] \in {AnObject, <<"Receiver">>}
  BY <1>5, <1>9
<1>12. Len(e.pop) = Len(i.args) + ReceiversOf(i) /\ Len(i.args) + ReceiversOf(i) \in Nat
  BY <1>2, <1>4, <1>5, <1>6, <1>8
<1>. QED  BY <1>2, <1>3, <1>10, <1>11, <1>12 DEF e

\* The operands of a call are there.
LEMMA CallPops ==
  ASSUME NEW f, Ready(f), InstrOf(f).op = "invoke", NEW n,
         Len(InstrOf(f).args) + ReceiversOf(InstrOf(f)) = n
  PROVE  \A r : Popping(Past(f), [j \in 1 .. n |-> IF j = n /\ ReceiversOf(InstrOf(f)) = 1
                                                   THEN "Reference" ELSE "Any"], r) = r
<1>. DEFINE wants == [j \in 1 .. n |-> IF j = n /\ ReceiversOf(InstrOf(f)) = 1 THEN "Reference" ELSE "Any"]
<1>1. /\ n \in Nat /\ Len(EffectAt(f).pop) = n
      /\ ReceiversOf(InstrOf(f)) = 1 => EffectAt(f).pop[n] \in {AnObject, <<"Receiver">>}
  BY InvokePops
<1>2. Len(wants) = n /\ \A j \in 1 .. n : wants[j] = IF j = n /\ ReceiversOf(InstrOf(f)) = 1 THEN "Reference" ELSE "Any"
  BY <1>1
<1>. HIDE DEF wants
<1>3. \A j \in 1 .. Len(wants) : Wanted(EffectAt(f).pop[j], wants[j])
  BY <1>1, <1>2 DEF Wanted
<1>4. InstrOf(f).op \in Simple
  BY DEF Simple, Opcodes, StackOps
<1>5. \A r : Popping(Past(f), wants, r) = r
  BY <1>1, <1>2, <1>3, <1>4, Pops
<1>. QED  BY <1>5 DEF wants

\* What the operands are to the callee: its receiver, then its arguments.
LEMMA ArgumentsCovered ==
  ASSUME NEW f, Ready(f), InstrOf(f).op = "invoke", NEW m, IsMethod(m),
         m.params = InstrOf(f).args, m.receiver = "none" <=> ReceiversOf(InstrOf(f)) = 0,
         NEW n, Len(InstrOf(f).args) + ReceiversOf(InstrOf(f)) = n
  PROVE  LET args == [j \in 1 .. n |-> f.stack[n + 1 - j]]
         IN IsList(args) /\ IsList(Given(m)) /\ Full(Given(m)) /\ AllCovered(Given(m), args)
<1>. DEFINE i == InstrOf(f)
            e == EffectAt(f)
            s == StateOf(f)
            k == ReceiversOf(i)
            args == [j \in 1 .. n |-> f.stack[n + 1 - j]]
            who == IF m.receiver = "none" THEN <<>>
                   ELSE IF m.receiver = "init" THEN <<UninitThis>> ELSE <<Ref(m.receiver)>>
<1>1. /\ n \in Nat /\ Len(i.args) \in Nat /\ IsList(i.args)
      /\ Len(e.pop) = n
      /\ \A j \in 1 .. Len(i.args) : e.pop[j] = i.args[Len(i.args) + 1 - j]
      /\ k = 1 => e.pop[n] \in {AnObject, <<"Receiver">>}
  BY InvokePops
<1>2. \A j \in 1 .. n : Fits(e.pop[j], s.stack[j]) /\ Covers(s.stack[j], f.stack[j])
  <2>1. i.op \in Simple
    BY DEF Simple, Opcodes, StackOps
  <2>. QED  BY <1>1, <2>1, EffectFound
<1>3. k \in {0, 1}
  BY DEF ReceiversOf
<1>4. IsList(args) /\ Len(args) = n /\ \A j \in 1 .. n : args[j] = f.stack[n + 1 - j]
  BY <1>1 DEF IsList
<1>5. \A j \in 1 .. Len(i.args) : IsType(i.args[j])
  BY DEF IsMethod, AreTypes
<1>6. IsList(who) /\ Len(who) = k /\ Full(who)
  BY <1>3, ShortLists DEF Full, Unset, UninitThis, Ref
<1>7. Given(m) = who \o i.args
  BY DEF Given
<1>8. Full(i.args)
  BY <1>5 DEF Full, IsType, Unset, IntT, LongT, FloatT, DoubleT
<1>9. k = 1 => \A v : IsReference(v) => Covers(who[1], v)
  BY DEF Covers, Ref, Unset, UninitThis
<1>. HIDE DEF who, args, e, k
<1>10. /\ IsList(Given(m)) /\ Full(Given(m)) /\ Len(Given(m)) = n
       /\ \A j \in 1 .. Len(who) : Given(m)[j] = who[j]
       /\ \A j \in 1 .. Len(i.args) : Given(m)[Len(who) + j] = i.args[j]
  <2>1. IsList(Given(m)) /\ Full(Given(m))
    BY <1>1, <1>6, <1>7, <1>8, JoinedFull
  <2>2. /\ Len(Given(m)) = Len(who) + Len(i.args)
        /\ \A j \in 1 .. Len(who) : Given(m)[j] = who[j]
        /\ \A j \in 1 .. Len(i.args) : Given(m)[Len(who) + j] = i.args[j]
    <3>. DEFINE g == who \o i.args
    <3>1. /\ Len(g) = Len(who) + Len(i.args)
          /\ \A j \in 1 .. Len(who) : g[j] = who[j]
          /\ \A j \in 1 .. Len(i.args) : g[Len(who) + j] = i.args[j]
      <4>1. IsList(who) /\ IsList(i.args)
        BY <1>1, <1>6
      <4>. QED  BY <4>1, Joined
    <3>2. Given(m) = g
      BY <1>7
    <3>. HIDE DEF g
    <3>. QED  BY <3>1, <3>2
  <2>3. Len(who) + Len(i.args) = n
    BY <1>1, <1>3, <1>6 DEF k
  <2>. QED  BY <2>1, <2>2, <2>3
<1>11. ASSUME NEW j \in 1 .. n PROVE Covers(Given(m)[j], args[j])
  <2>1. CASE j <= k
    <3>1. j = 1 /\ k = 1
      BY <1>3, <2>1
    <3>2. Given(m)[1] = who[1]
      BY <1>6, <1>10, <3>1
    <3>3. args[1] = f.stack[n]
      BY <1>1, <1>4, <3>1
    <3>4. IsReference(f.stack[n])
      <4>1. n \in 1 .. n
        BY <1>1, <3>1
      <4>. QED  BY <1>1, <1>2, <3>1, <4>1, FitsReference
    <3>. QED  BY <1>9, <3>1, <3>2, <3>3, <3>4
  <2>2. CASE ~(j <= k)
    <3>. DEFINE a == j - k
                b == Len(i.args) + 1 - a
    <3>1. a \in 1 .. Len(i.args) /\ b \in 1 .. Len(i.args) /\ b \in 1 .. n
          /\ k + a = j /\ n + 1 - j = b /\ Len(i.args) + 1 - b = a
      BY <1>1, <1>3, <2>2 DEF k
    <3>. HIDE DEF a, b
    <3>2. Given(m)[j] = i.args[a]
      BY <1>6, <1>10, <3>1
    <3>3. args[j] = f.stack[b]
      BY <1>4, <3>1
    <3>4. e.pop[b] = i.args[a] /\ IsType(i.args[a])
      BY <1>1, <1>5, <3>1
    <3>5. Fits(i.args[a], s.stack[b]) /\ Covers(s.stack[b], f.stack[b])
      BY <1>2, <3>1, <3>4
    <3>6. Compatible(s.stack[b], i.args[a])
      BY <3>4, <3>5 DEF Fits, IsType, IntT, LongT, FloatT, DoubleT
    <3>. QED  BY <3>2, <3>3, <3>5, <3>6, CompatibleCovers
  <2>. QED  BY <2>1, <2>2
<1>. QED  BY <1>4, <1>10, <1>11 DEF AllCovered, args

LEMMA Entered ==
  ASSUME NEW f, f.m \in Names, Certified(MethodOf(f), StatesOf(f)), NEW args, IsList(args),
         IsList(Given(MethodOf(f))), Full(Given(MethodOf(f))), AllCovered(Given(MethodOf(f)), args),
         f = NewFrame(f.m, FrameLocals(args, MethodOf(f).max_locals))
  PROVE  FrameFits(f)
<1>. DEFINE m == MethodOf(f)
            S == StatesOf(f)
            locals == Spread(args, m.max_locals, NoValue)
            first == At(InitialLocals(m), <<>>)
<1>1. /\ f = [m |-> f.m, pc |-> f.pc, locals |-> f.locals, stack |-> f.stack]
      /\ f.pc = 1 /\ f.locals = locals /\ f.stack = <<>>
  <2>. HIDE DEF locals, m
  <2>1. f = [m |-> f.m, pc |-> 1, locals |-> locals, stack |-> <<>>]
    BY DEF NewFrame, FrameLocals, locals, m
  <2>2. f.pc = 1 /\ f.locals = locals /\ f.stack = <<>>
    BY <2>1
  <2>. QED  BY <2>1, <2>2
<1>2. m.max_locals \in Nat /\ IsList(m.code) /\ m.code # <<>>
  BY DEF Certified, IsMethod
<1>3. 1 \in 1 .. Len(m.code)
  <2>1. m.code \in Seq({m.code[j] : j \in 1 .. Len(m.code)})
    BY <1>2, ListIsSeq
  <2>2. Len(m.code) \in Nat /\ Len(m.code) # 0
    BY <1>2, <2>1 DEF IsList
  <2>. QED  BY <2>2
<1>4. StateBelow(first, S[1])
  BY DEF Certified, PostFixed
<1>5. S[1] # NoState /\ AllBelow(first.locals, S[1].locals) /\ AllBelow(first.stack, S[1].stack)
  <2>1. first # NoState
    BY StatesDiffer
  <2>. HIDE DEF first
  <2>. QED  BY <1>4, <2>1 DEF StateBelow
<1>6. first.locals = Spread(Given(m), m.max_locals, Unset) /\ first.stack = <<>>
  BY DEF At, InitialLocals
<1>7. AllCovered(first.locals, locals) /\ Paired(locals) /\ IsList(locals)
  BY <1>2, <1>6, SpreadCovered, SpreadIsList
<1>8. AllCovered(first.stack, <<>>) /\ IsList(<<>>)
  BY <1>6, OneCovered
<1>. HIDE DEF first, locals
<1>9. AllCovered(S[1].locals, locals) /\ AllCovered(S[1].stack, <<>>)
  BY <1>5, <1>7, <1>8, AllCoversAbove
<1>10. LocalsFit(f, 1)
  BY <1>1, <1>3, <1>5, <1>7, <1>9 DEF LocalsFit
<1>. QED  BY <1>1, <1>8, <1>9, <1>10 DEF FrameFits

\* The caller has given its operands away and waits.
LEMMA Waits ==
  ASSUME NEW f, Ready(f), InstrOf(f).op = "invoke", NEW n,
         Len(InstrOf(f).args) + ReceiversOf(InstrOf(f)) = n
  PROVE  Waiting([Past(f) EXCEPT !.stack = Below(@, n)], InstrOf(f).r)
<1>. DEFINE i == InstrOf(f)
            e == EffectAt(f)
            rest == Below(f.stack, n)
            g == [m |-> f.m, pc |-> f.pc + 1, locals |-> f.locals, stack |-> rest]
<1>1. i.op \in Simple \ {"athrow", "return"} /\ i.op \notin Leaves
  BY DEF Simple, Opcodes, StackOps, Leaves
<1>2. e.push = i.r /\ Len(e.pop) = n
  BY InvokePops
<1>3. [Past(f) EXCEPT !.stack = Below(@, n)] = g
  <2>. DEFINE h == Past(f)
  <2>1. h = [m |-> f.m, pc |-> f.pc + 1, locals |-> f.locals, stack |-> f.stack] /\ h.stack = f.stack
    BY PastOf
  <2>. HIDE DEF h
  <2>2. [h EXCEPT !.stack = Below(h.stack, n)] = g
    BY <2>1
  <2>. QED  BY <2>2 DEF h
<1>4. /\ g.m = f.m /\ g.pc = f.pc + 1 /\ g.locals = f.locals /\ g.stack = rest
      /\ g = [m |-> g.m, pc |-> g.pc, locals |-> g.locals, stack |-> g.stack]
  OBVIOUS
<1>5. MethodOf(g) = MethodOf(f) /\ StatesOf(g) = StatesOf(f)
  BY DEF MethodOf, StatesOf
<1>. HIDE DEF g, rest, e
<1>6. LocalsFit(g, g.pc - 1)
  <2>1. LocalsFit(f, f.pc)
    BY DEF Ready, FrameFits
  <2>2. f.pc \in Nat
    BY ReadyFacts
  <2>3. g.pc - 1 = f.pc
    BY <1>4, <2>2
  <2>. QED  BY <1>4, <1>5, <2>1, <2>3 DEF LocalsFit
<1>7. ASSUME NEW vs, IsList(vs), AllCovered(i.r, vs)
      PROVE  /\ Len(rest) + Len(vs) <= MethodOf(f).max_stack
             /\ FrameFits([m |-> f.m, pc |-> f.pc + 1, locals |-> f.locals, stack |-> vs \o rest])
  <2>1. AllCovered(e.push, vs)
    BY <1>2, <1>7
  <2>2. /\ Len(f.stack) - n + Len(vs) <= MethodOf(f).max_stack
        /\ IsList(vs \o rest) /\ Len(rest) = Len(f.stack) - n
        /\ AllCovered(AfterOf(f).stack, vs \o rest)
        /\ AllCovered(AfterOf(f).locals, f.locals)
    BY <1>1, <1>2, <1>7, <2>1, EffectLeft DEF e, rest
  <2>3. GoesTo(f, f.pc + 1) /\ IsList(f.locals) /\ Paired(f.locals)
    BY <1>1, ReadyFacts
  <2>. QED  BY <2>2, <2>3, Lands
<1>8. IsList(rest) /\ Len(i.r) + Len(rest) <= MethodOf(f).max_stack
  <2>1. AreTypes(i.r) /\ Len(i.r) <= 1
    BY ReadyFacts DEF IsInstruction
  <2>2. PICK vs : IsList(vs) /\ AllCovered(i.r, vs)
    BY <2>1, ResultsCovered
  <2>3. Len(rest) + Len(vs) <= MethodOf(f).max_stack /\ Len(vs) = Len(i.r)
    BY <1>7, <2>2 DEF AllCovered
  <2>4. IsList(rest)
    BY <1>1, <1>2, <1>7, <2>2, EffectLeft DEF e, rest
  <2>5. Len(rest) \in Nat /\ Len(vs) \in Nat
    BY <2>2, <2>4 DEF IsList
  <2>. QED  BY <2>3, <2>4, <2>5
<1>9. ASSUME NEW vs, IsList(vs), AllCovered(i.r, vs) PROVE FrameFits([g EXCEPT !.stack = vs \o @])
  <2>. DEFINE ws == vs \o rest
  <2>1. [g EXCEPT !.stack = vs \o g.stack] = [m |-> f.m, pc |-> f.pc + 1, locals |-> f.locals, stack |-> ws]
    <3>1. vs \o g.stack = ws
      BY <1>4
    <3>. HIDE DEF ws
    <3>2. [g EXCEPT !.stack = ws] = [m |-> f.m, pc |-> f.pc + 1, locals |-> f.locals, stack |-> ws]
      BY DEF g
    <3>. QED  BY <3>1, <3>2
  <2>. QED  BY <1>7, <1>9, <2>1
<1>10. Waiting(g, i.r)
  BY <1>4, <1>5, <1>6, <1>8, <1>9 DEF Waiting
<1>. QED  BY <1>3, <1>10

LEMMA CallFits ==
  ASSUME NEW f, Ready(f), InstrOf(f).op = "invoke", InstrOf(f).mode # "dynamic",
         NEW o \in Call(InstrOf(f), Past(f), ReceiversOf(InstrOf(f)))
  PROVE  OutcomeFits(f, o)
<1>. DEFINE i == InstrOf(f)
            k == ReceiversOf(i)
            n == Len(i.args) + k
            args == [j \in 1 .. n |-> f.stack[n + 1 - j]]
            wants == [j \in 1 .. n |-> IF j = n /\ k = 1 THEN "Reference" ELSE "Any"]
            results == IF i.r = <<>> THEN {<<>>} ELSE {<<v>> : v \in ValuesOf(i.r[1])}
            rest == [Past(f) EXCEPT !.stack = Below(@, n)]
            callee == NewFrame(i.callee, FrameLocals(args, Callees[i.callee].max_locals))
<1>1. i.op \in Simple \ Leaves
  BY DEF Simple, Opcodes, StackOps, Leaves
<1>2. \A r : Popping(Past(f), wants, r) = r
  BY CallPops
<1>3. IsInstruction(i)
  BY ReadyFacts
<1>4. \A r \in results : IsList(r) /\ AllCovered(i.r, r)
  BY <1>3, ResultsCovered DEF IsInstruction
<1>5. EffectAt(f).push = i.r /\ Len(EffectAt(f).pop) = n
  BY InvokePops
<1>6. Linked(i)
  <2>1. f.pc \in DOMAIN MethodOf(f).code
    BY ReadyFacts DEF Ready, Certified, IsMethod, IsList
  <2>. QED  BY <2>1 DEF Ready, Certified, Supported, InstrOf
<1>7. Past(f).stack = f.stack
  BY PastOf
<1>8. CASE i.callee = "native"
  <2>1. o \in {Go(Past(f), n, r) : r \in results} \cup {Throws("E")}
    <3>. DEFINE all == {Go(Past(f), n, r) : r \in results} \cup {Throws("E")}
    <3>1. Call(i, Past(f), k) = Popping(Past(f), wants, all)
      BY <1>8 DEF Call
    <3>. HIDE DEF all, wants
    <3>. QED  BY <1>2, <3>1 DEF all
  <2>2. ASSUME NEW r \in results PROVE OutcomeFits(f, Go(Past(f), n, r))
    BY <1>1, <1>4, <1>5, Goes
  <2>. HIDE DEF results
  <2>. QED  BY <2>1, <2>2, OtherOutcomes
<1>9. CASE i.callee # "native"
  <2>1. /\ i.callee \in DOMAIN Callees /\ i.callee # "main"
        /\ Callees[i.callee].params = i.args /\ Callees[i.callee].returns = i.r
        /\ Callees[i.callee].receiver = "none" <=> k = 0
    BY <1>3, <1>6, <1>9, CalleesAccepted DEF Linked, ReceiversOf, IsInstruction
  <2>2. o = [is |-> "call", frame |-> rest, callee |-> callee]
    <3>. DEFINE all == {[is |-> "call", frame |-> rest, callee |-> callee]}
    <3>1. Call(i, Past(f), k) = Popping(Past(f), wants, all)
      BY <1>7, <1>9 DEF Call
    <3>. HIDE DEF all, wants
    <3>2. o \in all
      BY <1>2, <3>1
    <3>. QED  BY <3>2 DEF all
  <2>3. callee.m = i.callee
    BY DEF NewFrame
  <2>4. MethodOf(callee) = Callees[i.callee] /\ StatesOf(callee) = Certificate[i.callee]
    BY <2>1, <2>3 DEF MethodOf, StatesOf
  <2>5. Certified(Callees[i.callee], Certificate[i.callee])
    BY <2>1, CalleesAccepted DEF Certified
  <2>6. FrameFits(callee)
    <3>1. /\ IsList(args) /\ IsList(Given(Callees[i.callee])) /\ Full(Given(Callees[i.callee]))
          /\ AllCovered(Given(Callees[i.callee]), args)
      BY <2>1, <2>5, ArgumentsCovered DEF Certified
    <3>2. callee = NewFrame(callee.m, FrameLocals(args, MethodOf(callee).max_locals))
      BY <2>3, <2>4
    <3>3. callee.m \in Names
      BY <2>1, <2>3 DEF Names
    <3>. HIDE DEF callee, args
    <3>. QED  BY <2>4, <2>5, <3>1, <3>2, <3>3, Entered
  <2>7. Waiting(rest, i.r)
    BY Waits
  <2>8. rest.m = f.m
    <3>. DEFINE h == Past(f)
    <3>1. h = [m |-> f.m, pc |-> f.pc + 1, locals |-> f.locals, stack |-> f.stack]
      BY PastOf
    <3>. HIDE DEF h
    <3>2. \A x : [h EXCEPT !.stack = x].m = f.m
      BY <3>1
    <3>. QED  BY <3>2 DEF h
  <2>. HIDE DEF callee, rest
  <2>9. OutcomeFits(f, [is |-> "call", frame |-> rest, callee |-> callee])
    BY <2>1, <2>4, <2>6, <2>7, <2>8 DEF OutcomeFits
  <2>. QED  BY <2>2, <2>9
<1>. QED  BY <1>8, <1>9

LEMMA DynamicFits ==
  ASSUME NEW f, Ready(f), InstrOf(f).op = "invoke", InstrOf(f).mode = "dynamic",
         NEW o \in CallDynamic(InstrOf(f), Past(f))
  PROVE  OutcomeFits(f, o)
<1>. DEFINE i == InstrOf(f)
            n == Len(i.args)
            wants == [j \in 1 .. n |-> "Any"]
            results == {Go(Past(f), n, <<v>>) : v \in ValuesOf(i.r[1])} \cup {Throws("E")}
<1>1. i.op \in Simple \ Leaves /\ i.op \in Simple
  BY DEF Simple, Opcodes, StackOps, Leaves
<1>2. EffectAt(f).push = i.r /\ Len(EffectAt(f).pop) = n /\ n \in Nat
  <2>1. /\ Len(i.args) \in Nat /\ EffectAt(f).push = i.r
        /\ Len(EffectAt(f).pop) = Len(i.args) + ReceiversOf(i)
    BY InvokePops
  <2>2. ReceiversOf(i) = 0
    BY DEF ReceiversOf
  <2>. QED  BY <2>1, <2>2
<1>3. \A r : Popping(Past(f), wants, r) = r
  <2>1. Len(wants) = Len(EffectAt(f).pop) /\ \A j \in 1 .. n : wants[j] = "Any"
    BY <1>2
  <2>. HIDE DEF wants
  <2>2. \A j \in 1 .. Len(wants) : Wanted(EffectAt(f).pop[j], wants[j])
    BY <1>2, <2>1 DEF Wanted
  <2>. QED  BY <1>1, <2>1, <2>2, Pops
<1>4. o \in results
  <2>1. CallDynamic(i, Past(f)) = Popping(Past(f), wants, results)
    BY DEF CallDynamic
  <2>. HIDE DEF wants, results
  <2>. QED  BY <1>3, <2>1
<1>5. AreTypes(i.r) /\ Len(i.r) <= 1 /\ i.r # <<>>
  BY ReadyFacts DEF IsInstruction
<1>6. ASSUME NEW v \in ValuesOf(i.r[1]) PROVE OutcomeFits(f, Go(Past(f), n, <<v>>))
  <2>1. IsList(<<v>>) /\ AllCovered(i.r, <<v>>)
    BY <1>5, ResultsCovered
  <2>. QED  BY <1>1, <1>2, <2>1, Goes
<1>. QED  BY <1>4, <1>6, OtherOutcomes

LEMMA InvokeFits ==
  ASSUME NEW f, Ready(f), InstrOf(f).op = "invoke", NEW o \in Invoke(InstrOf(f), Past(f))
  PROVE  OutcomeFits(f, o)
<1>. DEFINE i == InstrOf(f)
<1>1. i.mode \in {"static", "special", "init", "virtual", "interface", "dynamic"}
  BY ReadyFacts DEF IsInstruction
<1>2. CASE i.mode = "dynamic"
  <2>1. o \in CallDynamic(i, Past(f))
    BY <1>2 DEF Invoke
  <2>. QED  BY <1>2, <2>1, DynamicFits
<1>3. CASE i.mode # "dynamic"
  <2>1. o \in Call(i, Past(f), ReceiversOf(i)) \/ o = NPE
    BY <1>1, <1>3 DEF Invoke, CallStatic, CallSpecial, CallVirtual, CallInterface, ReceiversOf
  <2>. QED  BY <1>3, <2>1, CallFits, OtherOutcomes
<1>. QED  BY <1>2, <1>3

(* Every instruction comes to what the verifier promised.                   *)
LEMMA ExecuteOpcodeFits ==
  ASSUME NEW f, Ready(f), NEW o \in ExecuteOpcode(InstrOf(f), Past(f))
  PROVE  OutcomeFits(f, o)
<1>. DEFINE i == InstrOf(f)
<1>1. i.op \in Opcodes
  BY ReadyFacts DEF IsInstruction
<1>. USE DEF ExecuteOpcode, StackOps
<1>2. CASE i.op \in {"const", "load", "store", "iinc", "arrayload", "arraystore"}
  BY <1>2, ConstantFits, LoadFits, StoreFits, IncrementFits, ArrayLoadFits, ArrayStoreFits
<1>3. CASE i.op \in StackOps
  BY <1>3, RearrangeFits
<1>4. CASE i.op \in {"bin", "div", "neg", "shift", "conv", "cmp"}
  BY <1>4, ArithmeticFits, ShiftFits, ConversionFits, ComparisonFits
<1>5. CASE i.op \in {"if", "switch", "goto", "jsr", "ret"}
  BY <1>5, BranchFits, SwitchFits, JumpFits
<1>6. CASE i.op \in Fields
  BY <1>6, FieldFits DEF Fields
<1>7. CASE i.op = "invoke"
  BY <1>7, InvokeFits
<1>8. CASE i.op \in {"new", "newarray", "arraylength", "athrow"}
  BY <1>8, NewObjectFits, NewArrayFits, ArrayLengthFits, AthrowFits
<1>9. CASE i.op \in {"checkcast", "instanceof", "monitor", "return"}
  BY <1>9, TypeTestFits, MonitorFits, ReturnFits
<1>. QED  BY <1>1, <1>2, <1>3, <1>4, <1>5, <1>6, <1>7, <1>8, <1>9 DEF Opcodes, Fields

-----------------------------------------------------------------------------
(* The call stack.  Every frame but the innermost waits for the one above it. *)
Stacked(fs) ==
  /\ IsList(fs) /\ Len(fs) >= 1 /\ fs[Len(fs)].m = "main"
  /\ \A k \in 2 .. Len(fs) : Waiting(fs[k], MethodOf(fs[k - 1]).returns)

LEMMA TailOf ==
  ASSUME NEW fs, IsList(fs), Len(fs) >= 1
  PROVE  /\ Head(fs) = fs[1]
         /\ IsList(Tail(fs)) /\ Len(Tail(fs)) = Len(fs) - 1
         /\ \A k \in 1 .. Len(fs) - 1 : Tail(fs)[k] = fs[k + 1]
         /\ Tail(fs) = <<>> <=> Len(fs) = 1
<1>1. fs \in Seq({fs[j] : j \in 1 .. Len(fs)}) /\ Len(fs) \in Nat
  BY ListIsSeq DEF IsList
<1>2. fs # <<>>
  BY <1>1
<1>. DEFINE S == {fs[j] : j \in 1 .. Len(fs)}
<1>. HIDE DEF S
<1>3. fs \in Seq(S)
  BY <1>1 DEF S
<1>4. Tail(fs) \in Seq(S) /\ Len(Tail(fs)) = Len(fs) - 1 /\ Head(fs) = fs[1]
      /\ \A k \in 1 .. Len(fs) - 1 : Tail(fs)[k] = fs[k + 1]
  BY <1>2, <1>3
<1>5. IsList(Tail(fs))
  BY <1>4, SeqIsList
<1>6. Tail(fs) = <<>> <=> Len(fs) = 1
  <2>1. \A t \in Seq(S) : t = <<>> <=> Len(t) = 0
    OBVIOUS
  <2>2. Tail(fs) = <<>> <=> Len(Tail(fs)) = 0
    BY <1>4, <2>1
  <2>. QED  BY <1>1, <1>4, <2>2
<1>. QED  BY <1>4, <1>5, <1>6

LEMMA Replaced ==
  ASSUME NEW fs, Stacked(fs), NEW g, g.m = fs[1].m
  PROVE  Stacked(<<g>> \o Tail(fs)) /\ (<<g>> \o Tail(fs))[1] = g
<1>. DEFINE gs == <<g>> \o Tail(fs)
<1>1. IsList(fs) /\ Len(fs) >= 1 /\ Len(fs) \in Nat
  BY DEF Stacked, IsList
<1>2. /\ IsList(Tail(fs)) /\ Len(Tail(fs)) = Len(fs) - 1
      /\ \A k \in 1 .. Len(fs) - 1 : Tail(fs)[k] = fs[k + 1]
  BY <1>1, TailOf
<1>3. IsList(<<g>>) /\ Len(<<g>>) = 1 /\ <<g>>[1] = g
  BY ShortLists
<1>4. /\ IsList(gs) /\ Len(gs) = Len(<<g>>) + Len(Tail(fs))
      /\ \A k \in 1 .. Len(<<g>>) : gs[k] = <<g>>[k]
      /\ \A k \in 1 .. Len(Tail(fs)) : gs[Len(<<g>>) + k] = Tail(fs)[k]
  BY <1>2, <1>3, Joined
<1>. HIDE DEF gs
<1>5. Len(gs) = Len(fs) /\ gs[1] = g
  BY <1>1, <1>2, <1>3, <1>4
<1>6. ASSUME NEW k \in 2 .. Len(fs) PROVE gs[k] = fs[k]
  <2>. DEFINE j == k - 1
  <2>1. j \in 1 .. Len(fs) - 1 /\ 1 + j = k /\ j + 1 = k
    BY <1>1
  <2>. HIDE DEF j
  <2>2. gs[1 + j] = Tail(fs)[j] /\ Tail(fs)[j] = fs[j + 1]
    BY <1>2, <1>3, <1>4, <2>1
  <2>. QED  BY <2>1, <2>2
<1>7. ASSUME NEW k \in 1 .. Len(fs) PROVE gs[k].m = fs[k].m
  BY <1>5, <1>6
<1>8. ASSUME NEW k \in 2 .. Len(fs) PROVE Waiting(gs[k], MethodOf(gs[k - 1]).returns)
  <2>1. k - 1 \in 1 .. Len(fs)
    BY <1>1
  <2>2. MethodOf(gs[k - 1]) = MethodOf(fs[k - 1])
    BY <1>7, <2>1 DEF MethodOf
  <2>. QED  BY <1>6, <2>2 DEF Stacked
<1>9. gs[Len(gs)].m = "main"
  BY <1>1, <1>5, <1>7 DEF Stacked
<1>10. Stacked(gs)
  BY <1>1, <1>4, <1>5, <1>8, <1>9 DEF Stacked
<1>. QED  BY <1>5, <1>10 DEF gs

LEMMA Entering ==
  ASSUME NEW fs, Stacked(fs), NEW g, g.m = fs[1].m, NEW c, Waiting(g, MethodOf(c).returns)
  PROVE  Stacked(<<c, g>> \o Tail(fs)) /\ (<<c, g>> \o Tail(fs))[1] = c
<1>. DEFINE gs == <<c, g>> \o Tail(fs)
            hs == <<g>> \o Tail(fs)
<1>1. IsList(fs) /\ Len(fs) >= 1 /\ Len(fs) \in Nat
  BY DEF Stacked, IsList
<1>2. IsList(Tail(fs)) /\ Len(Tail(fs)) = Len(fs) - 1
  BY <1>1, TailOf
<1>3. IsList(<<g>>) /\ Len(<<g>>) = 1 /\ <<g>>[1] = g
  BY ShortLists
<1>4. IsList(<<c, g>>) /\ Len(<<c, g>>) = 2 /\ <<c, g>>[1] = c /\ <<c, g>>[2] = g
  BY ShortLists
<1>5. /\ IsList(hs) /\ Len(hs) = Len(<<g>>) + Len(Tail(fs))
      /\ \A k \in 1 .. Len(<<g>>) : hs[k] = <<g>>[k]
      /\ \A k \in 1 .. Len(Tail(fs)) : hs[Len(<<g>>) + k] = Tail(fs)[k]
  BY <1>2, <1>3, Joined
<1>6. /\ IsList(gs) /\ Len(gs) = Len(<<c, g>>) + Len(Tail(fs))
      /\ \A k \in 1 .. Len(<<c, g>>) : gs[k] = <<c, g>>[k]
      /\ \A k \in 1 .. Len(Tail(fs)) : gs[Len(<<c, g>>) + k] = Tail(fs)[k]
  BY <1>2, <1>4, Joined
<1>7. Stacked(hs) /\ hs[1] = g
  BY Replaced
<1>. HIDE DEF gs, hs
<1>8. Len(hs) = Len(fs) /\ Len(gs) = Len(fs) + 1 /\ gs[1] = c
  BY <1>1, <1>2, <1>3, <1>4, <1>5, <1>6
<1>9. ASSUME NEW k \in 1 .. Len(fs) PROVE gs[k + 1] = hs[k]
  <2>1. CASE k = 1
    <3>1. gs[2] = g
      BY <1>4, <1>6
    <3>. QED  BY <1>7, <2>1, <3>1
  <2>2. CASE k # 1
    <3>. DEFINE j == k - 1
    <3>1. j \in 1 .. Len(Tail(fs)) /\ 2 + j = k + 1 /\ 1 + j = k
      BY <1>1, <1>2, <2>2
    <3>. HIDE DEF j
    <3>2. gs[2 + j] = Tail(fs)[j] /\ hs[1 + j] = Tail(fs)[j]
      BY <1>3, <1>4, <1>5, <1>6, <3>1
    <3>. QED  BY <3>1, <3>2
  <2>. QED  BY <2>1, <2>2
<1>10. ASSUME NEW k \in 2 .. Len(gs) PROVE Waiting(gs[k], MethodOf(gs[k - 1]).returns)
  <2>1. CASE k = 2
    <3>1. gs[2] = g
      BY <1>4, <1>6
    <3>. QED  BY <1>8, <2>1, <3>1
  <2>2. CASE k # 2
    <3>. DEFINE j == k - 1
                l == j - 1
    <3>1. j \in 2 .. Len(fs) /\ j \in 1 .. Len(fs) /\ l \in 1 .. Len(fs) /\ j + 1 = k /\ l + 1 = j
      BY <1>1, <1>8, <2>2
    <3>2. gs[j + 1] = hs[j] /\ gs[l + 1] = hs[l]
      BY <1>9, <3>1
    <3>3. Waiting(hs[j], MethodOf(hs[j - 1]).returns)
      BY <1>7, <1>8, <3>1 DEF Stacked
    <3>4. gs[k] = hs[j] /\ gs[k - 1] = hs[j - 1]
      BY <3>1, <3>2
    <3>. QED  BY <3>3, <3>4
  <2>. QED  BY <2>1, <2>2
<1>11. gs[Len(gs)].m = "main"
  <2>1. Len(fs) \in 1 .. Len(fs)
    BY <1>1
  <2>2. gs[Len(fs) + 1] = hs[Len(fs)]
    BY <1>9, <2>1
  <2>. QED  BY <1>7, <1>8, <2>2 DEF Stacked
<1>12. Stacked(gs)
  BY <1>1, <1>6, <1>8, <1>10, <1>11 DEF Stacked
<1>. QED  BY <1>8, <1>12 DEF gs

LEMMA Leaving ==
  ASSUME NEW fs, Stacked(fs), Len(fs) # 1
  PROVE  /\ Stacked(Tail(fs)) /\ Tail(fs)[1] = fs[2] /\ Head(Tail(fs)) = fs[2]
         /\ Waiting(fs[2], MethodOf(fs[1]).returns)
<1>1. IsList(fs) /\ Len(fs) >= 2 /\ Len(fs) \in Nat
  BY DEF Stacked, IsList
<1>2. /\ IsList(Tail(fs)) /\ Len(Tail(fs)) = Len(fs) - 1
      /\ \A k \in 1 .. Len(fs) - 1 : Tail(fs)[k] = fs[k + 1]
  BY <1>1, TailOf
<1>. DEFINE gs == Tail(fs)
<1>. HIDE DEF gs
<1>3. IsList(gs) /\ Len(gs) = Len(fs) - 1 /\ \A k \in 1 .. Len(fs) - 1 : gs[k] = fs[k + 1]
  BY <1>2 DEF gs
<1>4. gs[1] = fs[2] /\ gs[Len(gs)] = fs[Len(fs)]
  <2>1. 1 \in 1 .. Len(fs) - 1 /\ Len(gs) \in 1 .. Len(fs) - 1 /\ Len(gs) + 1 = Len(fs)
    BY <1>1, <1>3
  <2>. QED  BY <1>3, <2>1
<1>5. ASSUME NEW k \in 2 .. Len(gs) PROVE Waiting(gs[k], MethodOf(gs[k - 1]).returns)
  <2>. DEFINE j == k + 1
              l == k - 1
  <2>1. j \in 2 .. Len(fs) /\ j - 1 = k /\ l \in 1 .. Len(fs) - 1 /\ k \in 1 .. Len(fs) - 1 /\ l + 1 = k
    BY <1>1, <1>3
  <2>2. gs[k] = fs[j] /\ gs[l] = fs[k]
    BY <1>3, <2>1
  <2>3. Waiting(fs[j], MethodOf(fs[j - 1]).returns)
    BY <2>1 DEF Stacked
  <2>. QED  BY <2>1, <2>2, <2>3
<1>6. Stacked(gs)
  <2>1. Len(gs) >= 1
    BY <1>1, <1>3
  <2>2. gs[Len(gs)].m = "main"
    BY <1>4 DEF Stacked
  <2>. QED  BY <1>3, <1>5, <2>1, <2>2 DEF Stacked
<1>7. Head(gs) = fs[2]
  BY <1>1, <1>3, <1>4, TailOf
<1>8. Waiting(fs[2], MethodOf(fs[1]).returns)
  <2>1. 2 \in 2 .. Len(fs) /\ 2 - 1 = 1
    BY <1>1
  <2>. QED  BY <2>1 DEF Stacked
<1>. QED  BY <1>4, <1>6, <1>7, <1>8 DEF gs

-----------------------------------------------------------------------------
(* A turn of the loop.                                                      *)
RunsAt(fs, out) ==
  /\ Stacked(fs)
  /\ out = [is |-> out.is, what |-> out.what]
  /\ out.is \in {"running", "throwing", "returned", "unhandled", "error"}
  /\ out.is = "running" => FrameFits(fs[1])
  /\ out.is = "throwing" => LocalsFit(fs[1], fs[1].pc - 1)
  /\ out.is = "error" => Expected(out.what[1], fs[1])
  /\ out.is = "returned" => AllCovered(method.returns, out.what)

LEMMA CertifiedFrame ==
  ASSUME Certified(method, states), NEW f, f.m \in Names
  PROVE  Certified(MethodOf(f), StatesOf(f))
<1>1. CASE f.m = "main"
  BY <1>1 DEF MethodOf, StatesOf
<1>2. CASE f.m # "main"
  <2>1. f.m \in DOMAIN Callees
    BY <1>2 DEF Names
  <2>2. Certified(Callees[f.m], Certificate[f.m])
    BY <2>1, CalleesAccepted DEF Certified
  <2>. QED  BY <1>2, <2>2 DEF MethodOf, StatesOf
<1>. QED  BY <1>1, <1>2

LEMMA StepRuns ==
  ASSUME Stacked(frames), NEW f, f = frames[1], NEW g, FrameFits(g), g.m = f.m,
         outcome.is = "running", outcome = [is |-> outcome.is, what |-> outcome.what]
  PROVE  RunsAt(<<g>> \o Tail(frames), outcome)
<1>1. Stacked(<<g>> \o Tail(frames)) /\ (<<g>> \o Tail(frames))[1] = g
  BY Replaced
<1>. QED  BY <1>1 DEF RunsAt

LEMMA CallRuns ==
  ASSUME Stacked(frames), NEW f, f = frames[1], NEW g, g.m = f.m,
         NEW c, FrameFits(c), Waiting(g, MethodOf(c).returns),
         outcome.is = "running", outcome = [is |-> outcome.is, what |-> outcome.what]
  PROVE  RunsAt(<<c, g>> \o Tail(frames), outcome)
<1>1. Stacked(<<c, g>> \o Tail(frames)) /\ (<<c, g>> \o Tail(frames))[1] = c
  BY Entering
<1>. QED  BY <1>1 DEF RunsAt

\* The caller takes the value and goes on: there is room for it.
LEMMA ReturnRuns ==
  ASSUME Certified(method, states), Stacked(frames), Len(frames) # 1,
         NEW vs, IsList(vs), AllCovered(MethodOf(frames[1]).returns, vs),
         outcome.is = "running", outcome = [is |-> outcome.is, what |-> outcome.what]
  PROVE  LET rest == Tail(frames)
             g == [Head(rest) EXCEPT !.stack = vs \o @]
         IN /\ ~(Len(Head(rest).stack) + Len(vs) > MethodOf(Head(rest)).max_stack)
            /\ RunsAt(<<g>> \o Tail(rest), outcome)
<1>. DEFINE rest == Tail(frames)
            f == Head(rest)
            g == [f EXCEPT !.stack = vs \o @]
            types == MethodOf(frames[1]).returns
<1>1. Stacked(rest) /\ rest[1] = f /\ f = frames[2] /\ Waiting(f, types)
  BY Leaving
<1>. HIDE DEF f, rest, types
<1>2. /\ Len(types) + Len(f.stack) <= MethodOf(f).max_stack /\ IsList(f.stack) /\ f.m \in Names
      /\ f = [m |-> f.m, pc |-> f.pc, locals |-> f.locals, stack |-> f.stack]
      /\ FrameFits(g)
  BY <1>1 DEF Waiting, LocalsFit, types
<1>3. ~(Len(f.stack) + Len(vs) > MethodOf(f).max_stack)
  <2>1. Len(vs) = Len(types) /\ Len(vs) \in Nat /\ Len(f.stack) \in Nat
    BY <1>2 DEF AllCovered, IsList, types
  <2>2. MethodOf(f).max_stack \in Nat
    BY <1>2, CertifiedFrame DEF Certified, IsMethod
  <2>. QED  BY <1>2, <2>1, <2>2
<1>4. g.m = f.m
  <2>. DEFINE ws == vs \o f.stack
  <2>. HIDE DEF ws
  <2>1. [f EXCEPT !.stack = ws].m = f.m
    BY <1>2
  <2>. QED  BY <2>1 DEF ws
<1>. HIDE DEF g
<1>5. Stacked(<<g>> \o Tail(rest)) /\ (<<g>> \o Tail(rest))[1] = g
  BY <1>1, <1>4, Replaced
<1>6. RunsAt(<<g>> \o Tail(rest), outcome)
  BY <1>2, <1>5 DEF RunsAt
<1>. QED  BY <1>3, <1>6 DEF g, f, rest

LEMMA ThrowRuns ==
  ASSUME Stacked(frames), NEW f, f = frames[1], Ready(f), NEW c
  PROVE  RunsAt(<<Past(f)>> \o Tail(frames), [is |-> "throwing", what |-> <<c>>])
<1>. DEFINE g == Past(f)
<1>1. /\ g.m = f.m /\ g.pc = f.pc + 1 /\ g.locals = f.locals
      /\ g = [m |-> f.m, pc |-> f.pc + 1, locals |-> f.locals, stack |-> f.stack] /\ g.stack = f.stack
      /\ MethodOf(g) = MethodOf(f) /\ StatesOf(g) = StatesOf(f)
  BY PastOf
<1>. HIDE DEF g
<1>2. f.pc \in Nat /\ LocalsFit(f, f.pc)
  BY ReadyFacts DEF Ready, FrameFits
<1>3. g.pc - 1 = f.pc
  BY <1>1, <1>2
<1>4. g = [m |-> g.m, pc |-> g.pc, locals |-> g.locals, stack |-> g.stack]
  BY <1>1
<1>5. LocalsFit(g, g.pc - 1)
  BY <1>1, <1>2, <1>3, <1>4 DEF LocalsFit
<1>6. Stacked(<<g>> \o Tail(frames)) /\ (<<g>> \o Tail(frames))[1] = g
  BY <1>1, Replaced
<1>7. RunsAt(<<g>> \o Tail(frames), [is |-> "throwing", what |-> <<c>>])
  BY <1>5, <1>6 DEF RunsAt
<1>. QED  BY <1>7 DEF g

LEMMA ExecuteRuns ==
  ASSUME Certified(method, states), RunsAt(frames, outcome), Execute
  PROVE  RunsAt(frames', outcome')
<1>. DEFINE f == Head(frames)
            rest == Tail(frames)
            top == Head(rest)
<1>1. /\ outcome.is = "running" /\ outcome = [is |-> outcome.is, what |-> outcome.what]
      /\ Stacked(frames) /\ FrameFits(frames[1])
  BY DEF Execute, Running, RunsAt
<1>2. IsList(frames) /\ Len(frames) >= 1
  BY <1>1 DEF Stacked
<1>3. f = frames[1] /\ (rest = <<>> <=> Len(frames) = 1)
  BY <1>2, TailOf
<1>4. FrameFits(f) /\ f.m \in Names
  BY <1>1, <1>3 DEF FrameFits, LocalsFit
<1>5. Ready(f)
  BY <1>4, CertifiedFrame DEF Ready
<1>6. ~(f.pc > Len(MethodOf(f).code))
  <2>1. f.pc \in 1 .. Len(MethodOf(f).code) /\ Len(MethodOf(f).code) \in Nat
    BY <1>5, ReadyFacts DEF Ready, Certified, IsMethod, IsList
  <2>. QED  BY <2>1
<1>7. PICK o \in ExecuteOpcode(InstrOf(f), Past(f)) :
        CASE o.is = "step" -> frames' = <<o.frame>> \o rest /\ UNCHANGED outcome
          [] o.is = "call" -> /\ Len(frames) < MaxDepth
                              /\ frames' = <<o.callee, o.frame>> \o rest
                              /\ UNCHANGED outcome
          [] o.is = "return" -> IF rest = <<>>
                                THEN outcome' = [is |-> "returned", what |-> o.value]
                                     /\ UNCHANGED frames
                                ELSE IF Len(top.stack) + Len(o.value) > MethodOf(top).max_stack
                                     THEN /\ outcome' = Failed("StackOverflow")
                                          /\ UNCHANGED frames
                                     ELSE /\ frames' = <<[top EXCEPT !.stack = o.value \o @]>> \o Tail(rest)
                                          /\ UNCHANGED outcome
          [] o.is = "throw" -> /\ outcome' = [is |-> "throwing", what |-> <<o.class>>]
                               /\ frames' = <<Past(f)>> \o rest
          [] o.is = "error" -> outcome' = Failed(o.what) /\ UNCHANGED frames
  BY <1>6 DEF Execute, InstrOf, Past
<1>8. OutcomeFits(f, o)
  BY <1>5, ExecuteOpcodeFits
<1>. HIDE DEF f
<1>9. CASE o.is = "step"
  <2>1. frames' = <<o.frame>> \o rest /\ outcome' = outcome
    BY <1>7, <1>9
  <2>2. FrameFits(o.frame) /\ o.frame.m = f.m
    BY <1>8, <1>9 DEF OutcomeFits
  <2>. QED  BY <1>1, <1>3, <2>1, <2>2, StepRuns
<1>10. CASE o.is = "call"
  <2>1. frames' = <<o.callee, o.frame>> \o rest /\ outcome' = outcome
    BY <1>7, <1>10
  <2>2. FrameFits(o.callee) /\ o.frame.m = f.m /\ Waiting(o.frame, MethodOf(o.callee).returns)
    BY <1>8, <1>10 DEF OutcomeFits
  <2>. QED  BY <1>1, <1>3, <2>1, <2>2, CallRuns
<1>11. CASE o.is = "return"
  <2>1. IsList(o.value) /\ AllCovered(MethodOf(f).returns, o.value)
    BY <1>8, <1>11 DEF OutcomeFits
  <2>2. CASE rest = <<>>
    <3>1. outcome' = [is |-> "returned", what |-> o.value] /\ frames' = frames
      BY <1>7, <1>11, <2>2
    <3>2. MethodOf(f) = method
      BY <1>1, <1>3, <2>2 DEF Stacked, MethodOf
    <3>. QED  BY <1>1, <2>1, <3>1, <3>2 DEF RunsAt
  <2>3. CASE rest # <<>>
    <3>1. ~(Len(top.stack) + Len(o.value) > MethodOf(top).max_stack)
          /\ RunsAt(<<[top EXCEPT !.stack = o.value \o @]>> \o Tail(rest), outcome)
      BY <1>1, <1>3, <2>1, <2>3, ReturnRuns
    <3>2. frames' = <<[top EXCEPT !.stack = o.value \o @]>> \o Tail(rest) /\ outcome' = outcome
      BY <1>7, <1>11, <2>3, <3>1
    <3>. QED  BY <3>1, <3>2
  <2>. QED  BY <2>2, <2>3
<1>12. CASE o.is = "throw"
  <2>1. frames' = <<Past(f)>> \o rest /\ outcome' = [is |-> "throwing", what |-> <<o.class>>]
    BY <1>7, <1>12
  <2>. QED  BY <1>1, <1>3, <1>5, <2>1, ThrowRuns
<1>13. CASE o.is = "error"
  <2>1. outcome' = [is |-> "error", what |-> <<o.what>>] /\ frames' = frames
    BY <1>7, <1>13 DEF Failed
  <2>2. Expected(o.what, f)
    BY <1>8, <1>13 DEF OutcomeFits
  <2>. QED  BY <1>1, <1>3, <2>1, <2>2 DEF RunsAt
<1>14. o.is \in {"step", "call", "return", "throw", "error"}
  BY <1>8 DEF OutcomeFits
<1>. QED  BY <1>9, <1>10, <1>11, <1>12, <1>13, <1>14

LEMMA LeastExists ==
  ASSUME NEW T, T \subseteq Nat, T # {}
  PROVE  \E n \in T : \A k \in T : n <= k
<1>1. PICK n \in T : \A k \in T : <<k, n>> \notin OpToRel(<, Nat)
  BY NatLessThanWellFounded, WFMin
<1>2. ASSUME NEW k \in T PROVE n <= k
  <2>1. n \in Nat /\ k \in Nat /\ ~(k < n)
    BY <1>1 DEF OpToRel
  <2>. QED  BY <2>1
<1>. QED  BY <1>2

\* An exception finds the handler the verifier sent the locals to.
LEMMA HandlerRuns ==
  ASSUME Certified(method, states), Stacked(frames), NEW f, f = frames[1], LocalsFit(f, f.pc - 1),
         NEW c, HandlersFor(f, c) # {}
  PROVE  LET found == HandlersFor(f, c)
             h == MethodOf(f).handlers[CHOOSE j \in found : \A o \in found : j <= o]
         IN /\ MethodOf(f).max_stack # 0
            /\ RunsAt(<<[f EXCEPT !.pc = h.to, !.stack = <<Obj(c)>>]>> \o Tail(frames), Continue)
<1>. DEFINE found == HandlersFor(f, c)
            least == CHOOSE j \in found : \A o \in found : j <= o
            m == MethodOf(f)
            S == StatesOf(f)
            h == m.handlers[least]
            pc == f.pc - 1
<1>1. /\ f.m \in Names /\ pc \in 1 .. Len(m.code) /\ S[pc] # NoState
      /\ f = [m |-> f.m, pc |-> f.pc, locals |-> f.locals, stack |-> f.stack]
      /\ IsList(f.locals) /\ Paired(f.locals) /\ AllCovered(S[pc].locals, f.locals)
  BY DEF LocalsFit
<1>2. Certified(m, S)
  BY <1>1, CertifiedFrame
<1>3. /\ IsMethod(m) /\ IsList(m.handlers) /\ Len(m.handlers) \in Nat
      /\ DOMAIN m.handlers = 1 .. Len(m.handlers) /\ DOMAIN S = 1 .. Len(m.code)
      /\ m.handlers # <<>> => m.max_stack > 0
  BY <1>2 DEF Certified, IsMethod, IsList, PostFixed, Supported
<1>4. found \subseteq Handlers(m, pc) /\ found \subseteq 1 .. Len(m.handlers)
  BY <1>3 DEF HandlersFor, Handlers
<1>5. \E n \in found : \A o \in found : n <= o
  <2>. HIDE DEF found
  <2>1. found \subseteq Nat /\ found # {}
    BY <1>4 DEF found
  <2>. QED  BY <2>1, LeastExists
<1>6. least \in found
  <2>. HIDE DEF found
  <2>. QED  BY <1>5
<1>7. least \in Handlers(m, pc) /\ least \in 1 .. Len(m.handlers)
  BY <1>4, <1>6
<1>. HIDE DEF least
<1>8. m.max_stack > 0
  <2>1. m.handlers # <<>>
    BY <1>3, <1>7
  <2>. QED  BY <1>3, <2>1
<1>9. Arrived(<<h.to, Caught(m, least, pc, S[pc])>>, S)
  <2>. HIDE DEF m, S, pc
  <2>. QED  BY <1>1, <1>2, <1>7, Exits
<1>10. PICK t : Caught(m, least, pc, S[pc]) = At(S[pc].locals, <<Ref(t)>>)
  BY <1>7 DEF Caught
<1>11. h.to \in DOMAIN S /\ StateBelow(At(S[pc].locals, <<Ref(t)>>), S[h.to])
  <2>. HIDE DEF S, h, pc
  <2>1. At(S[pc].locals, <<Ref(t)>>) # NoState
    BY StatesDiffer
  <2>2. Arrived(<<h.to, At(S[pc].locals, <<Ref(t)>>)>>, S)
    BY <1>9, <1>10
  <2>. QED  BY <2>1, <2>2 DEF Arrived
<1>12. S[h.to] # NoState /\ AllBelow(S[pc].locals, S[h.to].locals) /\ AllBelow(<<Ref(t)>>, S[h.to].stack)
  <2>. DEFINE a == At(S[pc].locals, <<Ref(t)>>)
  <2>1. a # NoState /\ a.locals = S[pc].locals /\ a.stack = <<Ref(t)>>
    BY StatesDiffer DEF At
  <2>2. StateBelow(a, S[h.to])
    BY <1>11
  <2>. HIDE DEF a
  <2>. QED  BY <2>1, <2>2 DEF StateBelow
<1>13. AllCovered(S[h.to].locals, f.locals) /\ AllCovered(S[h.to].stack, <<Obj(c)>>) /\ IsList(<<Obj(c)>>)
  <2>1. Covers(Ref(t), Obj(c))
    BY ReferenceCovered DEF IsReference, Obj
  <2>2. AllCovered(<<Ref(t)>>, <<Obj(c)>>) /\ IsList(<<Obj(c)>>)
    BY <2>1, OneCovered
  <2>. QED  BY <1>1, <1>12, <2>2, AllCoversAbove
<1>. DEFINE g == [f EXCEPT !.pc = h.to, !.stack = <<Obj(c)>>]
            k == [m |-> f.m, pc |-> h.to, locals |-> f.locals, stack |-> <<Obj(c)>>]
<1>14. g = k
  <2>. DEFINE p == h.to
              ws == <<Obj(c)>>
  <2>1. f = [m |-> f.m, pc |-> f.pc, locals |-> f.locals, stack |-> f.stack]
    BY <1>1
  <2>. HIDE DEF p, ws
  <2>. DEFINE a == [f EXCEPT !.pc = p]
              b == [a EXCEPT !.stack = ws]
  <2>2. a = [m |-> f.m, pc |-> p, locals |-> f.locals, stack |-> f.stack]
    BY <2>1
  <2>. HIDE DEF a
  <2>3. b = [m |-> f.m, pc |-> p, locals |-> f.locals, stack |-> ws]
    BY <2>2
  <2>. QED  BY <2>3 DEF a, p, ws
<1>15. /\ k.m = f.m /\ k.pc = h.to /\ k.locals = f.locals /\ k.stack = <<Obj(c)>>
       /\ k = [m |-> k.m, pc |-> k.pc, locals |-> k.locals, stack |-> k.stack]
  OBVIOUS
<1>16. MethodOf(k) = m /\ StatesOf(k) = S
  BY DEF MethodOf, StatesOf
<1>17. FrameFits(k)
  <2>. HIDE DEF k, h, pc, m, S
  <2>1. h.to \in 1 .. Len(m.code)
    BY <1>3, <1>11
  <2>. QED  BY <1>1, <1>12, <1>13, <1>15, <1>16, <2>1 DEF FrameFits, LocalsFit
<1>18. FrameFits(g) /\ g.m = f.m
  BY <1>14, <1>15, <1>17
<1>. HIDE DEF g
<1>19. Stacked(<<g>> \o Tail(frames)) /\ (<<g>> \o Tail(frames))[1] = g
  BY <1>18, Replaced
<1>20. RunsAt(<<g>> \o Tail(frames), Continue)
  BY <1>18, <1>19 DEF RunsAt, Continue
<1>. QED  BY <1>8, <1>20 DEF g, h, m, least

LEMMA UnwindRuns ==
  ASSUME Certified(method, states), RunsAt(frames, outcome), Unwind
  PROVE  RunsAt(frames', outcome')
<1>. DEFINE f == Head(frames)
            c == outcome.what[1]
            found == HandlersFor(f, c)
            h == MethodOf(f).handlers[CHOOSE j \in found : \A o \in found : j <= o]
<1>1. /\ outcome.is = "throwing" /\ outcome = [is |-> outcome.is, what |-> outcome.what]
      /\ Stacked(frames) /\ LocalsFit(frames[1], frames[1].pc - 1)
  BY DEF Unwind, RunsAt
<1>2. IsList(frames) /\ Len(frames) >= 1
  BY <1>1 DEF Stacked
<1>3. f = frames[1]
  BY <1>2, TailOf
<1>4. IF found # {}
      THEN IF MethodOf(f).max_stack = 0
           THEN outcome' = Failed("StackOverflow") /\ UNCHANGED frames
           ELSE /\ frames' = <<[f EXCEPT !.pc = h.to, !.stack = <<Obj(c)>>]>> \o Tail(frames)
                /\ outcome' = Continue
      ELSE IF Len(frames) = 1
      THEN outcome' = [outcome EXCEPT !.is = "unhandled"] /\ UNCHANGED frames
      ELSE frames' = Tail(frames) /\ UNCHANGED outcome
  BY DEF Unwind
<1>. HIDE DEF f, c
<1>5. CASE found # {}
  <2>1. /\ MethodOf(f).max_stack # 0
        /\ RunsAt(<<[f EXCEPT !.pc = h.to, !.stack = <<Obj(c)>>]>> \o Tail(frames), Continue)
    BY <1>1, <1>3, <1>5, HandlerRuns
  <2>2. frames' = <<[f EXCEPT !.pc = h.to, !.stack = <<Obj(c)>>]>> \o Tail(frames) /\ outcome' = Continue
    BY <1>4, <1>5, <2>1
  <2>. QED  BY <2>1, <2>2
<1>6. CASE found = {} /\ Len(frames) = 1
  <2>1. outcome' = [outcome EXCEPT !.is = "unhandled"] /\ frames' = frames
    BY <1>4, <1>6
  <2>2. outcome' = [is |-> "unhandled", what |-> outcome.what]
    BY <1>1, <2>1
  <2>. QED  BY <1>1, <2>1, <2>2 DEF RunsAt
<1>7. CASE found = {} /\ Len(frames) # 1
  <2>1. frames' = Tail(frames) /\ outcome' = outcome
    BY <1>4, <1>7
  <2>2. Stacked(Tail(frames)) /\ Tail(frames)[1] = frames[2] /\ LocalsFit(frames[2], frames[2].pc - 1)
    BY <1>1, <1>7, Leaving DEF Waiting
  <2>. QED  BY <1>1, <2>1, <2>2 DEF RunsAt
<1>. QED  BY <1>5, <1>6, <1>7

\* The first frame, of the arguments a caller makes.
LEMMA StartRuns ==
  ASSUME Certified(method, states), outcome = Continue, Start
  PROVE  RunsAt(frames', outcome')
<1>1. outcome' = outcome
  BY DEF Start
<1>2. PICK args : /\ args = [j \in 1 .. Len(method.params) |-> args[j]]
                  /\ \A j \in 1 .. Len(method.params) : args[j] \in ValuesOf(method.params[j])
                  /\ \E this \in IF method.receiver = "none" THEN {<<>>} ELSE {<<Obj(c)>> : c \in Receivers} :
                       frames' = <<NewFrame("main", FrameLocals(this \o args, method.max_locals))>>
  BY DEF Start
<1>3. PICK this \in IF method.receiver = "none" THEN {<<>>} ELSE {<<Obj(c)>> : c \in Receivers} :
        frames' = <<NewFrame("main", FrameLocals(this \o args, method.max_locals))>>
  BY <1>2
<1>. DEFINE who == IF method.receiver = "none" THEN <<>>
                   ELSE IF method.receiver = "init" THEN <<UninitThis>> ELSE <<Ref(method.receiver)>>
            f == NewFrame("main", FrameLocals(this \o args, method.max_locals))
<1>4. AreTypes(method.params) /\ IsList(method.params) /\ Len(method.params) \in Nat
  BY DEF Certified, IsMethod, AreTypes, IsList
<1>5. IsList(args) /\ Len(args) = Len(method.params)
  BY <1>2, <1>4, ListOf
<1>6. AllCovered(method.params, args) /\ Full(method.params)
  <2>1. \A j \in 1 .. Len(method.params) : IsType(method.params[j])
    BY <1>4 DEF AreTypes
  <2>2. \A j \in 1 .. Len(method.params) : Covers(method.params[j], args[j])
    BY <1>2, <2>1, ValuesCovered
  <2>. QED  BY <1>5, <2>1, <2>2 DEF AllCovered, Full, IsType, Unset, IntT, LongT, FloatT, DoubleT
<1>7. IsList(who) /\ IsList(this) /\ Full(who) /\ AllCovered(who, this)
  <2>1. \A c, t : Covers(UninitThis, Obj(c)) /\ Covers(Ref(t), Obj(c))
    BY DEF Covers, UninitThis, Ref, Obj, IsReference, Unset
  <2>2. CASE method.receiver = "none"
    BY <2>2, OneCovered DEF Full
  <2>3. CASE method.receiver # "none"
    <3>1. PICK c : this = <<Obj(c)>>
      BY <2>3
    <3>2. PICK t : who = <<t>> /\ t # Unset /\ Covers(t, Obj(c))
      BY <2>1, <2>3 DEF UninitThis, Ref, Unset
    <3>. HIDE DEF who
    <3>3. IsList(<<t>>) /\ IsList(<<Obj(c)>>) /\ AllCovered(<<t>>, <<Obj(c)>>)
      BY <3>2, OneCovered, ShortLists
    <3>4. Full(<<t>>)
      BY <3>2 DEF Full
    <3>. QED  BY <3>1, <3>2, <3>3, <3>4
  <2>. QED  BY <2>2, <2>3
<1>8. Given(method) = who \o method.params
  BY DEF Given
<1>. HIDE DEF who
<1>9. /\ IsList(Given(method)) /\ Full(Given(method)) /\ IsList(this \o args)
      /\ AllCovered(Given(method), this \o args)
  <2>1. IsList(who \o method.params) /\ Full(who \o method.params) /\ IsList(this \o args)
    BY <1>4, <1>5, <1>6, <1>7, JoinedFull, Joined
  <2>2. AllCovered(who \o method.params, this \o args)
    BY <1>4, <1>5, <1>6, <1>7, JoinedCovered
  <2>. QED  BY <1>8, <2>1, <2>2
<1>10. f.m = "main" /\ MethodOf(f) = method /\ StatesOf(f) = states /\ f.m \in Names
  BY DEF NewFrame, MethodOf, StatesOf, Names
<1>11. f = NewFrame(f.m, FrameLocals(this \o args, MethodOf(f).max_locals))
  BY <1>10
<1>. HIDE DEF f
<1>12. FrameFits(f)
  BY <1>9, <1>10, <1>11, Entered
<1>13. frames' = <<f>>
  BY <1>3 DEF f
<1>14. Stacked(<<f>>) /\ <<f>>[1] = f
  <2>1. IsList(<<f>>) /\ Len(<<f>>) = 1 /\ <<f>>[1] = f
    BY ShortLists
  <2>. QED  BY <1>10, <2>1 DEF Stacked
<1>15. RunsAt(<<f>>, Continue)
  BY <1>12, <1>14 DEF RunsAt, Continue
<1>. QED  BY <1>1, <1>13, <1>15

-----------------------------------------------------------------------------
(* What runs now runs of the same method with the same states.  The         *)
(* conditions are written of any method m and states S, for the steps that   *)
(* change neither.                                                           *)
LEMMA RunKept ==
  ASSUME UNCHANGED <<method, states>>, RunsAt(frames', outcome')
  PROVE  RunsAt(frames, outcome)'
<1>. DEFINE MethodIn(m, f) == IF f.m = "main" THEN m ELSE Callees[f.m]
            StatesIn(S, f) == IF f.m = "main" THEN S ELSE Certificate[f.m]
            LocalsIn(m, S, f, pc) ==
              /\ f.m \in Names
              /\ f = [m |-> f.m, pc |-> f.pc, locals |-> f.locals, stack |-> f.stack]
              /\ pc \in 1 .. Len(MethodIn(m, f).code)
              /\ StatesIn(S, f)[pc] # NoState
              /\ IsList(f.locals) /\ Paired(f.locals)
              /\ AllCovered(StatesIn(S, f)[pc].locals, f.locals)
            FrameIn(m, S, f) ==
              /\ LocalsIn(m, S, f, f.pc)
              /\ IsList(f.stack) /\ AllCovered(StatesIn(S, f)[f.pc].stack, f.stack)
            WaitingIn(m, S, f, types) ==
              /\ LocalsIn(m, S, f, f.pc - 1) /\ IsList(f.stack)
              /\ Len(types) + Len(f.stack) <= MethodIn(m, f).max_stack
              /\ \A vs : IsList(vs) /\ AllCovered(types, vs) => FrameIn(m, S, [f EXCEPT !.stack = vs \o @])
            StackedIn(m, S, fs) ==
              /\ IsList(fs) /\ Len(fs) >= 1 /\ fs[Len(fs)].m = "main"
              /\ \A k \in 2 .. Len(fs) : WaitingIn(m, S, fs[k], MethodIn(m, fs[k - 1]).returns)
            ExpectedIn(m, e, f) ==
              \/ e \in {"InvalidHeapValue", "FieldNotFound"}
              \/ e = "TypeMismatch" /\ MethodIn(m, f).code[f.pc].op = "conv"
            RunsIn(m, S, fs, out) ==
              /\ StackedIn(m, S, fs)
              /\ out = [is |-> out.is, what |-> out.what]
              /\ out.is \in {"running", "throwing", "returned", "unhandled", "error"}
              /\ out.is = "running" => FrameIn(m, S, fs[1])
              /\ out.is = "throwing" => LocalsIn(m, S, fs[1], fs[1].pc - 1)
              /\ out.is = "error" => ExpectedIn(m, out.what[1], fs[1])
              /\ out.is = "returned" => AllCovered(m.returns, out.what)
<1>1. RunsAt(frames', outcome') <=> RunsIn(method, states, frames', outcome')
  BY DEF RunsAt, Stacked, Waiting, FrameFits, LocalsFit, Expected, StatesOf, MethodOf
<1>2. RunsAt(frames, outcome)' <=> RunsIn(method', states', frames', outcome')
  BY DEF RunsAt, Stacked, Waiting, FrameFits, LocalsFit, Expected, StatesOf, MethodOf
<1>. HIDE DEF RunsIn
<1>3. RunsIn(method, states, frames', outcome') <=> RunsIn(method', states', frames', outcome')
  OBVIOUS
<1>. QED  BY <1>1, <1>2, <1>3


(* The invariant.  A frame on the stack does not only hold what the verifier *)
(* has for the instruction it stands at: a caller is known to go on with     *)
(* whatever its callee returns, and the slot after a long or a double is     *)
(* known to be empty, or a load would find there what a store has cut in two.*)
ExecutionInv ==
  /\ VerifierInv /\ Supported(method)
  /\ phase \in {"verify", "run"}
  /\ phase = "verify" => frames = <<>> /\ outcome = Continue
  /\ phase = "run" => verdict = "ok" /\ RunsAt(frames, outcome)

LEMMA AcceptedCertified == VerifierInv /\ Supported(method) /\ verdict = "ok" => Certified(method, states)
BY DEF VerifierInv, AcceptedIsFixedPoint, Certified

LEMMA VerifierInvKept == VerifierInv /\ UNCHANGED <<method, vvars>> => VerifierInv'
BY DEF VerifierInv, vvars, AllSettled, AcceptedIsFixedPoint, PCs, Code

LEMMA VerifyStep == ExecutionInv /\ Verify => ExecutionInv'
<1>. SUFFICES ASSUME ExecutionInv, Verify PROVE ExecutionInv'
  OBVIOUS
<1>1. /\ phase = "verify" /\ phase' = phase /\ method' = method
      /\ frames' = frames /\ outcome' = outcome
  BY DEF Verify, ivars
<1>2. VerifierInv'
  BY <1>1, PropagateStep, ConcludeStep DEF ExecutionInv, Verify
<1>3. Supported(method)'
  BY <1>1 DEF ExecutionInv, Supported, Linked
<1>4. (frames = <<>> /\ outcome = Continue)'
  BY <1>1 DEF ExecutionInv, Continue
<1>. QED  BY <1>1, <1>2, <1>3, <1>4 DEF ExecutionInv

LEMMA StartStep == ExecutionInv /\ Start => ExecutionInv'
<1>. SUFFICES ASSUME ExecutionInv, Start PROVE ExecutionInv'
  OBVIOUS
<1>1. /\ verdict = "ok" /\ phase = "verify" /\ phase' = "run" /\ verdict' = verdict
      /\ UNCHANGED <<method, vvars>> /\ UNCHANGED <<method, states>>
  BY DEF Start, vvars
<1>2. VerifierInv /\ Supported(method) /\ outcome = Continue
  BY <1>1 DEF ExecutionInv
<1>3. Certified(method, states)
  BY <1>1, <1>2, AcceptedCertified
<1>4. RunsAt(frames, outcome)'
  BY <1>1, <1>2, <1>3, StartRuns, RunKept
<1>5. VerifierInv'
  BY <1>1, <1>2, VerifierInvKept
<1>6. Supported(method)'
  BY <1>1, <1>2 DEF Supported, Linked
<1>. QED  BY <1>1, <1>4, <1>5, <1>6 DEF ExecutionInv

LEMMA InterpretStep == ExecutionInv /\ Interpret => ExecutionInv'
<1>. SUFFICES ASSUME ExecutionInv, Interpret PROVE ExecutionInv'
  OBVIOUS
<1>1. /\ phase = "run" /\ phase' = "run" /\ verdict' = verdict
      /\ UNCHANGED <<method, vvars>> /\ UNCHANGED <<method, states>>
  BY DEF Interpret, vvars
<1>2. VerifierInv /\ Supported(method) /\ verdict = "ok" /\ RunsAt(frames, outcome)
  BY <1>1 DEF ExecutionInv
<1>3. Certified(method, states)
  BY <1>2, AcceptedCertified
<1>4. RunsAt(frames', outcome')
  BY <1>2, <1>3, ExecuteRuns, UnwindRuns DEF Interpret
<1>5. RunsAt(frames, outcome)'
  BY <1>1, <1>4, RunKept
<1>6. VerifierInv'
  BY <1>1, <1>2, VerifierInvKept
<1>7. Supported(method)'
  BY <1>1, <1>2 DEF Supported, Linked
<1>. QED  BY <1>1, <1>2, <1>5, <1>6, <1>7 DEF ExecutionInv

LEMMA ExecutionStutters == ExecutionInv /\ UNCHANGED xvars => ExecutionInv'
<1>. SUFFICES ASSUME ExecutionInv, UNCHANGED xvars PROVE ExecutionInv'
  OBVIOUS
<1>1. /\ UNCHANGED <<method, vvars>> /\ UNCHANGED <<method, states>> /\ verdict' = verdict
      /\ phase' = phase /\ frames' = frames /\ outcome' = outcome
  BY DEF xvars, vvars, ivars
<1>2. phase = "run" => RunsAt(frames, outcome)'
  <2>1. RunsAt(frames, outcome) => RunsAt(frames', outcome')
    BY <1>1
  <2>. QED  BY <1>1, <2>1, RunKept DEF ExecutionInv
<1>3. VerifierInv'
  BY <1>1, VerifierInvKept DEF ExecutionInv
<1>4. Supported(method)'
  BY <1>1 DEF ExecutionInv, Supported, Linked
<1>5. phase = "verify" => (frames = <<>> /\ outcome = Continue)'
  BY <1>1 DEF ExecutionInv, Continue
<1>. QED  BY <1>1, <1>2, <1>3, <1>4, <1>5 DEF ExecutionInv

LEMMA ExecutionInvariant == ExecutionSpec => []ExecutionInv
<1>1. ExecutionInit => ExecutionInv
  BY VerifierInitInv DEF ExecutionInit, ExecutionInv
<1>2. ExecutionInv /\ [ExecutionNext]_xvars => ExecutionInv'
  BY VerifyStep, StartStep, InterpretStep, ExecutionStutters DEF ExecutionNext
<1>. QED  BY <1>1, <1>2, PTL DEF ExecutionSpec

LEMMA CoveredWhenRunning ==
  ASSUME Certified(method, states), RunsAt(frames, outcome), outcome.is = "running"
  PROVE  FrameCovered(Head(frames))
<1>. DEFINE f == frames[1]
<1>1. Certified(method, states) /\ Stacked(frames) /\ FrameFits(f)
  BY DEF RunsAt
<1>2. Head(frames) = f
  BY <1>1, TailOf DEF Stacked
<1>. HIDE DEF f
<1>3. /\ f.m \in Names /\ f.pc \in 1 .. Len(MethodOf(f).code) /\ StatesOf(f)[f.pc] # NoState
      /\ AllCovered(StatesOf(f)[f.pc].locals, f.locals) /\ AllCovered(StatesOf(f)[f.pc].stack, f.stack)
  BY <1>1 DEF FrameFits, LocalsFit
<1>4. Certified(MethodOf(f), StatesOf(f))
  BY <1>1, <1>3, CertifiedFrame
<1>5. DOMAIN StatesOf(f) = 1 .. Len(MethodOf(f).code)
  <2>. DEFINE S == StatesOf(f)
              n == Len(MethodOf(f).code)
  <2>1. S = [pc \in 1 .. n |-> S[pc]]
    BY <1>4 DEF Certified, PostFixed
  <2>. HIDE DEF S
  <2>. QED  BY <2>1 DEF S
<1>. QED  BY <1>2, <1>3, <1>5 DEF FrameCovered

LEMMA SafeWhenRunning ==
  ASSUME RunsAt(frames, outcome)
  PROVE  SafeOutcome
<1>1. Head(frames) = frames[1]
  BY TailOf DEF RunsAt, Stacked
<1>. QED  BY <1>1 DEF RunsAt, SafeOutcome

LEMMA RunningIsCovered == ExecutionInv => StatesCoverExecution
BY AcceptedCertified, CoveredWhenRunning DEF ExecutionInv, StatesCoverExecution

LEMMA RunningIsSafe == ExecutionInv => VerifiedCodeIsSafe
BY SafeWhenRunning DEF ExecutionInv, VerifiedCodeIsSafe

(* The frame that executes is covered by what the verifier merged for the    *)
(* instruction it stands at, for every method and every callees verified     *)
(* before, whatever the way it came there: a fall-through, a jump, a handler,*)
(* a call or a return (verify.rs 50-116 with mod.rs 5272-5448).              *)
THEOREM StatesCoverExecutionCorrect == ExecutionSpec => []StatesCoverExecution
BY RunningIsCovered, ExecutionInvariant, PTL

(* A verified method meets no error of the VM but those verification does    *)
(* not look for, and returns what it is declared to: no operand is missing   *)
(* or of another type, the stack never outgrows its bound, no branch leaves  *)
(* the code (verify.rs 320-1241 with the handlers of mod.rs 5452-6950).      *)
THEOREM VerifiedCodeIsSafeCorrect == ExecutionSpec => []VerifiedCodeIsSafe
BY RunningIsSafe, ExecutionInvariant, PTL

-----------------------------------------------------------------------------
(* The compiler's stack.                                                    *)
Follows(stack, types) == IsList(stack) /\ IsList(types) /\ TopOf(stack, types)

LEMMA StandsForKind ==
  ASSUME NEW v, NEW t, StandsFor(v, t)
  PROVE  v[2] = Category(t) /\ v # <<"none", 0>>
BY DEF StandsFor, Lowered, Category, Wide, IntT, LongT, FloatT, DoubleT, I32, I64, Long64, F32, F64, I8

LEMMA StandsForBelow ==
  ASSUME NEW v, NEW a, NEW b, StandsFor(v, a), TypeBelow(a, b), b # Unset
  PROVE  StandsFor(v, b)
BY DEF StandsFor, TypeBelow, Lowered, IsRef, AnyRef, Ref, NullT, Unset, IntT, LongT, FloatT, DoubleT

LEMMA StandsForReference ==
  ASSUME NEW t, RefLike(t)
  PROVE  Lowered(t) = I64 /\ t # IntT
BY DEF RefLike, Lowered, IntT, LongT, FloatT, DoubleT

LEMMA StandsForLowered == \A t : StandsFor(Lowered(t), t)
BY DEF StandsFor

LEMMA FollowsBelow ==
  ASSUME NEW stack, NEW ts, NEW us, Follows(stack, ts), AllBelow(ts, us), IsList(us), Full(us)
  PROVE  Follows(stack, us) /\ Len(ts) = Len(us)
<1>1. Len(stack) \in Nat /\ Len(ts) \in Nat /\ Len(stack) <= Len(ts) /\ Len(ts) = Len(us)
  BY DEF Follows, TopOf, IsList, AllBelow
<1>2. ASSUME NEW j \in 1 .. Len(stack) PROVE StandsFor(stack[j], us[j])
  <2>1. j \in 1 .. Len(ts) /\ j \in 1 .. Len(us)
    BY <1>1
  <2>2. StandsFor(stack[j], ts[j]) /\ TypeBelow(ts[j], us[j]) /\ us[j] # Unset
    BY <2>1 DEF Follows, TopOf, AllBelow, Full
  <2>. QED  BY <2>2, StandsForBelow
<1>. QED  BY <1>1, <1>2 DEF Follows, TopOf

LEMMA FollowsIsRecorded ==
  ASSUME NEW stack, NEW ts, Follows(stack, ts)
  PROVE  stack # Unrecorded
<1>. SUFFICES ASSUME stack = Unrecorded PROVE FALSE
  OBVIOUS
<1>1. Len(stack) = 1 /\ stack[1] = <<"none", 0>>
  BY DEF Unrecorded
<1>2. StandsFor(stack[1], ts[1])
  BY <1>1 DEF Follows, TopOf
<1>. QED  BY <1>1, <1>2, StandsForKind

LEMMA FollowsNothing ==
  ASSUME NEW ts, IsList(ts)
  PROVE  Follows(<<>>, ts) /\ Len(<<>>) = 0
<1>1. IsList(<<>>) /\ Len(<<>>) = 0 /\ Len(ts) \in Nat
  BY ShortLists DEF IsList
<1>. QED  BY <1>1 DEF Follows, TopOf

(* What the compiler makes of an instruction is what the verifier does.     *)
Agrees(r, stack, types, after) ==
  r.ok => Follows(r.stack, after) /\ (Len(stack) = Len(types) => Len(r.stack) = Len(after))

LEMMA FollowsRest ==
  ASSUME NEW stack, NEW types, Follows(stack, types), NEW n \in Nat, n <= Len(stack)
  PROVE  /\ Follows(Below(stack, n), Below(types, n))
         /\ Len(Below(stack, n)) = Len(stack) - n /\ Len(Below(types, n)) = Len(types) - n
<1>1. /\ IsList(stack) /\ IsList(types) /\ Len(stack) \in Nat /\ Len(types) \in Nat
      /\ Len(stack) <= Len(types) /\ n <= Len(types)
      /\ \A j \in 1 .. Len(stack) : StandsFor(stack[j], types[j])
  BY DEF Follows, TopOf, IsList
<1>2. /\ IsList(Below(stack, n)) /\ Len(Below(stack, n)) = Len(stack) - n
      /\ \A j \in 1 .. Len(stack) - n : Below(stack, n)[j] = stack[n + j]
  BY <1>1, Rest
<1>3. /\ IsList(Below(types, n)) /\ Len(Below(types, n)) = Len(types) - n
      /\ \A j \in 1 .. Len(types) - n : Below(types, n)[j] = types[n + j]
  BY <1>1, Rest
<1>4. ASSUME NEW j \in 1 .. Len(stack) - n PROVE StandsFor(Below(stack, n)[j], Below(types, n)[j])
  <2>1. n + j \in 1 .. Len(stack) /\ j \in 1 .. Len(types) - n
    BY <1>1
  <2>. QED  BY <1>1, <1>2, <1>3, <2>1
<1>. QED  BY <1>1, <1>2, <1>3, <1>4 DEF Follows, TopOf

LEMMA FollowsJoined ==
  ASSUME NEW a, NEW ts, Follows(a, ts), Len(a) = Len(ts), NEW b, NEW us, Follows(b, us)
  PROVE  /\ Follows(a \o b, ts \o us)
         /\ Len(a \o b) = Len(a) + Len(b) /\ Len(ts \o us) = Len(ts) + Len(us)
<1>1. /\ IsList(a) /\ IsList(b) /\ IsList(ts) /\ IsList(us)
      /\ Len(a) \in Nat /\ Len(b) \in Nat /\ Len(us) \in Nat /\ Len(b) <= Len(us)
  BY DEF Follows, TopOf, IsList
<1>2. /\ IsList(a \o b) /\ Len(a \o b) = Len(a) + Len(b)
      /\ \A j \in 1 .. Len(a) : (a \o b)[j] = a[j]
      /\ \A j \in 1 .. Len(b) : (a \o b)[Len(a) + j] = b[j]
  BY <1>1, Joined
<1>3. /\ IsList(ts \o us) /\ Len(ts \o us) = Len(ts) + Len(us)
      /\ \A j \in 1 .. Len(ts) : (ts \o us)[j] = ts[j]
      /\ \A j \in 1 .. Len(us) : (ts \o us)[Len(ts) + j] = us[j]
  BY <1>1, Joined
<1>4. ASSUME NEW j \in 1 .. Len(a) + Len(b) PROVE StandsFor((a \o b)[j], (ts \o us)[j])
  <2>1. CASE j <= Len(a)
    <3>1. j \in 1 .. Len(a) /\ j \in 1 .. Len(ts)
      BY <1>1, <2>1
    <3>. QED  BY <1>2, <1>3, <3>1 DEF Follows, TopOf
  <2>2. CASE j > Len(a)
    <3>. DEFINE k == j - Len(a)
    <3>1. k \in 1 .. Len(b) /\ k \in 1 .. Len(us) /\ j = Len(a) + k
      BY <1>1, <2>2
    <3>2. StandsFor(b[k], us[k])
      BY <3>1 DEF Follows, TopOf
    <3>. HIDE DEF k
    <3>3. (a \o b)[j] = b[k] /\ (ts \o us)[j] = us[k]
      BY <1>2, <1>3, <3>1
    <3>. QED  BY <3>2, <3>3
  <2>. QED  BY <1>1, <2>1, <2>2
<1>5. Len(a \o b) <= Len(ts \o us)
  BY <1>1, <1>2, <1>3
<1>. QED  BY <1>2, <1>3, <1>4, <1>5 DEF Follows, TopOf

LEMMA FollowsSame ==
  ASSUME NEW stack, NEW ts, NEW us, Follows(stack, ts), IsList(us), Len(us) = Len(ts),
         \A j \in 1 .. Len(ts) : \A v : StandsFor(v, ts[j]) => StandsFor(v, us[j])
  PROVE  Follows(stack, us)
<1>1. Len(stack) \in Nat /\ Len(ts) \in Nat /\ Len(stack) <= Len(ts)
  BY DEF Follows, TopOf, IsList
<1>2. \A j \in 1 .. Len(stack) : j \in 1 .. Len(ts) /\ StandsFor(stack[j], us[j])
  BY <1>1 DEF Follows, TopOf
<1>. QED  BY <1>1, <1>2 DEF Follows, TopOf

LEMMA PushStack ==
  ASSUME NEW m, NEW s, NEW ts, Push(m, s, ts) # NoState
  PROVE  Push(m, s, ts).stack = ts \o s.stack
BY DEF Push, At

(* What an instruction other than those of the locals and the stack leaves. *)
LEMMA EffectApplied ==
  ASSUME NEW pc \in PCs, NEW s, IsState(method, s), s # NoState, IsMethod(method),
         Code[pc].op \in Simple \ {"return", "athrow"}, Apply(method, pc, s) # NoState,
         NEW stack, Follows(stack, s.stack)
  PROVE  LET e == EffectOf(Code[pc], pc)
             after == Apply(method, pc, s)
         IN /\ Len(e.pop) \in Nat /\ Len(e.pop) <= Len(s.stack)
            /\ \A j \in 1 .. Len(e.pop) : Fits(e.pop[j], s.stack[j])
            /\ \E rest : /\ after.stack = e.push \o rest
                         /\ IsList(rest) /\ Len(rest) = Len(s.stack) - Len(e.pop)
                         /\ Len(e.pop) <= Len(stack) => Follows(Below(stack, Len(e.pop)), rest)
<1>. DEFINE i == Code[pc]
            e == EffectOf(i, pc)
            n == Len(e.pop)
            popped == At(s.locals, Below(s.stack, n))
            after == IF i.op = "invoke" /\ i.mode = "init"
                     THEN Initialised(popped, s.stack[n], i.c) ELSE popped
<1>1. IsInstruction(i) /\ IsList(s.stack) /\ Len(s.stack) \in Nat
  <2>1. pc \in DOMAIN method.code
    BY DEF PCs, Code, IsMethod, IsList
  <2>. QED  BY <2>1 DEF IsMethod, IsState, Code, IsList
<1>2. IsList(e.pop) /\ IsList(e.push) /\ n \in Nat
  BY <1>1, EffectsAreLists DEF IsList
<1>3. Apply(method, pc, s) = ApplyEffect(method, i, pc, s)
  BY DEF Apply, Simple, Code
<1>4. /\ n <= Len(s.stack) /\ \A j \in 1 .. n : Fits(e.pop[j], s.stack[j])
      /\ Apply(method, pc, s) = Push(method, after, e.push)
  BY <1>3 DEF ApplyEffect
<1>. HIDE DEF e
<1>5. Apply(method, pc, s).stack = e.push \o after.stack
  <2>. HIDE DEF after
  <2>1. \A ts : Push(method, after, ts) # NoState => Push(method, after, ts).stack = ts \o after.stack
    BY PushStack
  <2>. QED  BY <1>4, <2>1
<1>6. popped.stack = Below(s.stack, n) /\ IsList(popped.stack) /\ Len(popped.stack) = Len(s.stack) - n
  BY <1>1, <1>2, <1>4, Rest DEF At
<1>7. n <= Len(stack) => Follows(Below(stack, n), popped.stack)
  BY <1>2, <1>6, FollowsRest
<1>8. /\ IsList(after.stack) /\ Len(after.stack) = Len(s.stack) - n
      /\ n <= Len(stack) => Follows(Below(stack, n), after.stack)
  <2>1. CASE i.op = "invoke" /\ i.mode = "init"
    <3>. DEFINE from == s.stack[n]
                renamed == [j \in DOMAIN popped.stack |-> IF popped.stack[j] = from THEN Ref(i.c) ELSE popped.stack[j]]
    <3>1. after.stack = renamed
      BY <2>1 DEF Initialised, At
    <3>2. Len(popped.stack) \in Nat /\ DOMAIN popped.stack = 1 .. Len(popped.stack)
      BY <1>6 DEF IsList
    <3>3. IsList(renamed) /\ Len(renamed) = Len(popped.stack)
      BY <3>2 DEF IsList
    <3>4. RefLike(from)
      <4>1. e = InvokeEffect(i)
        BY <2>1 DEF e, EffectOf
      <4>. DEFINE args == [j \in 1 .. Len(i.args) |-> i.args[Len(i.args) + 1 - j]]
                  this == <<<<"Receiver">>>>
      <4>2. e.pop = args \o this
        BY <2>1, <4>1 DEF InvokeEffect, Effect
      <4>3. IsList(args) /\ IsList(this) /\ Len(this) = 1
        <5>1. IsList(i.args)
          BY <1>1, <2>1 DEF IsInstruction, AreTypes
        <5>2. IsList(args)
          BY <5>1, ArgumentsReversed
        <5>3. IsList(this) /\ Len(this) = 1
          BY ShortLists
        <5>. QED  BY <5>2, <5>3
      <4>4. n = Len(args) + 1 /\ e.pop[n] = this[1]
        <5>1. ASSUME NEW a, NEW b, IsList(a), IsList(b)
              PROVE  /\ Len(a \o b) = Len(a) + Len(b)
                     /\ \A j \in 1 .. Len(b) : (a \o b)[Len(a) + j] = b[j]
          BY <5>1, Joined
        <5>. HIDE DEF args, this, e
        <5>2. /\ Len(args \o this) = Len(args) + Len(this)
              /\ \A j \in 1 .. Len(this) : (args \o this)[Len(args) + j] = this[j]
          BY <4>3, <5>1
        <5>3. 1 \in 1 .. Len(this)
          BY <4>3
        <5>. QED  BY <4>2, <4>3, <5>2, <5>3
      <4>5. n \in 1 .. n
        BY <1>2, <4>3, <4>4 DEF IsList
      <4>6. Fits(<<"Receiver">>, from)
        BY <1>4, <4>4, <4>5
      <4>. QED  BY <4>6 DEF Fits
    <3>5. \A j \in 1 .. Len(popped.stack) : \A v : StandsFor(v, popped.stack[j]) => StandsFor(v, renamed[j])
      <4>1. \A v : StandsFor(v, from) => StandsFor(v, Ref(i.c))
        BY <3>4, StandsForReference DEF StandsFor, Lowered, Ref, IntT, LongT, FloatT, DoubleT
      <4>. QED  BY <3>2, <4>1
    <3>. HIDE DEF renamed
    <3>6. n <= Len(stack) => Follows(Below(stack, n), renamed)
      BY <1>7, <3>3, <3>5, FollowsSame
    <3>. QED  BY <1>6, <3>1, <3>3, <3>6
  <2>2. CASE ~(i.op = "invoke" /\ i.mode = "init")
    BY <1>6, <1>7, <2>2
  <2>. QED  BY <2>1, <2>2
<1>. HIDE DEF after
<1>. QED  BY <1>2, <1>4, <1>5, <1>8 DEF e

LEMMA EffectAgrees ==
  ASSUME NEW pc \in PCs, NEW s, IsState(method, s), s # NoState, IsMethod(method),
         Code[pc].op \in Simple \ {"return", "athrow"}, Apply(method, pc, s) # NoState,
         NEW stack, Follows(stack, s.stack), NEW n, n = Len(EffectOf(Code[pc], pc).pop),
         NEW push, Follows(push, EffectOf(Code[pc], pc).push), Len(push) = Len(EffectOf(Code[pc], pc).push),
         NEW r \in {Refused, Popped(stack, n, push)}
  PROVE  Agrees(r, stack, s.stack, Apply(method, pc, s).stack)
<1>. DEFINE e == EffectOf(Code[pc], pc)
<1>1. SUFFICES ASSUME r.ok
               PROVE  /\ Follows(r.stack, Apply(method, pc, s).stack)
                      /\ Len(stack) = Len(s.stack) => Len(r.stack) = Len(Apply(method, pc, s).stack)
  BY DEF Agrees
<1>2. PICK rest : /\ Apply(method, pc, s).stack = e.push \o rest
                  /\ IsList(rest) /\ Len(rest) = Len(s.stack) - n
                  /\ n <= Len(stack) => Follows(Below(stack, n), rest)
  BY EffectApplied
<1>3. n \in Nat /\ Len(stack) \in Nat /\ Len(s.stack) \in Nat /\ IsList(stack)
  BY EffectApplied DEF Follows, IsList
<1>4. n <= Len(stack) /\ r.stack = push \o Below(stack, n)
  BY <1>1, <1>3 DEF Refused, Popped
<1>5. Len(Below(stack, n)) = Len(stack) - n
  BY <1>3, <1>4, Rest
<1>7. Follows(push, e.push) /\ Len(push) = Len(e.push) /\ Follows(Below(stack, n), rest)
  BY <1>2, <1>4
<1>. DEFINE below == Below(stack, n)
<1>6. /\ Follows(push \o below, e.push \o rest)
      /\ Len(push \o below) = Len(push) + Len(below)
      /\ Len(e.push \o rest) = Len(e.push) + Len(rest)
  <2>1. ASSUME NEW a, NEW ts, Follows(a, ts), Len(a) = Len(ts), NEW b, NEW us, Follows(b, us)
        PROVE  /\ Follows(a \o b, ts \o us)
               /\ Len(a \o b) = Len(a) + Len(b) /\ Len(ts \o us) = Len(ts) + Len(us)
    BY <2>1, FollowsJoined
  <2>. HIDE DEF e, below
  <2>2. Follows(push, e.push) /\ Len(push) = Len(e.push) /\ Follows(below, rest)
    BY <1>7 DEF e, below
  <2>. QED  BY <2>1, <2>2
<1>. HIDE DEF e
<1>. QED  BY <1>2, <1>3, <1>4, <1>5, <1>6, <1>7

LEMMA FollowsOne ==
  ASSUME NEW v, NEW t, StandsFor(v, t)
  PROVE  Follows(<<v>>, <<t>>) /\ Len(<<v>>) = Len(<<t>>)
BY ShortLists DEF Follows, TopOf

LEMMA FollowsNone == Follows(<<>>, <<>>) /\ Len(<<>>) = Len(<<>>)
BY ShortLists, FollowsNothing

LEMMA TypedIs ==
  ASSUME NEW stack, NEW n, NEW push
  PROVE  Typed(stack, n, push) \in {Refused, Popped(stack, n, push)}
BY DEF Typed

LEMMA LoweredKindStands ==
  ASSUME NEW k, k # "A"
  PROVE  StandsFor(LoweredKind(k), TypeOf(k))
BY DEF LoweredKind, StandsFor

LEMMA ReferenceStands ==
  \A c, pc : StandsFor(I64, Ref(c)) /\ StandsFor(I64, AnyRef) /\ StandsFor(I64, Uninit(pc))
BY DEF StandsFor, Lowered, Ref, AnyRef, Uninit, IntT, LongT, FloatT, DoubleT

LEMMA IntStands == StandsFor(I32, IntT) /\ StandsFor(I8, IntT)
BY DEF StandsFor, Lowered, IntT, LongT, FloatT, DoubleT

\* What is taken from the compiler's stack, if the instruction is not refused,
\* and what is put there.
Lowers(i, e) ==
  \A stack : \E push : /\ Follows(push, e.push) /\ Len(push) = Len(e.push)
                       /\ LowerOpcode(i, stack) \in {Refused, Popped(stack, Len(e.pop), push)}

LEMMA LowersNothing ==
  ASSUME NEW i, NEW e, e.push = <<>>,
         \A stack : LowerOpcode(i, stack) \in {Refused, Popped(stack, Len(e.pop), <<>>)}
  PROVE  Lowers(i, e)
BY FollowsNone DEF Lowers

LEMMA LowersOne ==
  ASSUME NEW i, NEW e, NEW t, e.push = <<t>>, NEW v, StandsFor(v, t),
         \A stack : LowerOpcode(i, stack) \in {Refused, Popped(stack, Len(e.pop), <<v>>)}
  PROVE  Lowers(i, e)
<1>1. Follows(<<v>>, e.push) /\ Len(<<v>>) = Len(e.push)
  BY FollowsOne
<1>. QED  BY <1>1 DEF Lowers

LEMMA ArithmeticLowers ==
  ASSUME NEW i, IsInstruction(i), NEW pc, i.op \in {"bin", "div", "neg", "shift"}
  PROVE  Lowers(i, EffectOf(i, pc))
<1>. DEFINE e == EffectOf(i, pc)
            n == IF i.op = "neg" THEN 1 ELSE 2
            v == LoweredKind(i.k)
<1>1. e = ArithmeticEffect(i)
  BY DEF EffectOf
<1>2. Len(e.pop) = n /\ e.push = <<TypeOf(i.k)>>
  BY <1>1 DEF ArithmeticEffect, Effect
<1>3. StandsFor(v, TypeOf(i.k))
  <2>1. i.k # "A"
    BY DEF IsInstruction
  <2>. QED  BY <2>1, LoweredKindStands
<1>4. ASSUME NEW stack PROVE LowerOpcode(i, stack) \in {Refused, Popped(stack, n, <<v>>)}
  <2>1. LowerOpcode(i, stack) = LowerArithmetic(i, stack)
    BY DEF LowerOpcode, StackOps
  <2>2. i.k = "I" => v = I32
    BY DEF LoweredKind, Lowered, TypeOf, IntT, LongT, FloatT, DoubleT
  <2>3. i.k = "J" => v = Long64
    BY DEF LoweredKind, Lowered, TypeOf, IntT, LongT, FloatT, DoubleT
  <2>4. CASE i.op = "shift"
    <3>1. i.k \in {"I", "J"}
      BY <2>4 DEF IsInstruction
    <3>2. LowerArithmetic(i, stack) = IF i.k = "I" THEN LowerIntShift(stack) ELSE LowerLongShift(stack)
      BY <2>4 DEF LowerArithmetic
    <3>. QED  BY <2>1, <2>2, <2>3, <2>4, <3>1, <3>2, TypedIs DEF LowerIntShift, LowerLongShift
  <2>5. CASE i.op # "shift" /\ i.k = "I"
    <3>1. LowerArithmetic(i, stack) = LowerIntArithmetic(i, stack)
      BY <2>5 DEF LowerArithmetic
    <3>. QED  BY <2>1, <2>2, <2>5, <3>1, TypedIs DEF LowerIntArithmetic
  <2>6. CASE i.op = "neg" /\ i.k # "I"
    <3>1. LowerArithmetic(i, stack) = LowerWideNegation(i, stack)
      BY <2>6 DEF LowerArithmetic
    <3>. QED  BY <2>1, <2>6, <3>1, TypedIs DEF LowerWideNegation
  <2>7. CASE i.op \in {"bin", "div"} /\ i.k # "I"
    <3>1. LowerArithmetic(i, stack) = LowerWideArithmetic(i, stack)
      BY <2>7 DEF LowerArithmetic
    <3>. QED  BY <2>1, <2>7, <3>1, TypedIs DEF LowerWideArithmetic
  <2>. QED  BY <2>4, <2>5, <2>6, <2>7
<1>. HIDE DEF e, n, v
<1>. QED  BY <1>2, <1>3, <1>4, LowersOne DEF e

LEMMA ConversionLowers ==
  ASSUME NEW i, IsInstruction(i), NEW pc, i.op = "conv"
  PROVE  Lowers(i, EffectOf(i, pc))
<1>. DEFINE e == EffectOf(i, pc)
            v == LoweredKind(IF i.to \in {"B", "C", "S"} THEN "I" ELSE i.to)
<1>1. e = ConversionEffect(i)
  BY DEF EffectOf
<1>2. Len(e.pop) = 1 /\ e.push = <<TypeOf(i.to)>>
  BY <1>1 DEF ConversionEffect, Effect
<1>3. StandsFor(v, TypeOf(i.to))
  <2>1. i.to # "A" /\ TypeOf("B") = TypeOf("I") /\ TypeOf("C") = TypeOf("I") /\ TypeOf("S") = TypeOf("I")
    BY DEF IsInstruction, TypeOf
  <2>. QED  BY <2>1, LoweredKindStands
<1>4. ASSUME NEW stack PROVE LowerOpcode(i, stack) \in {Refused, Popped(stack, 1, <<v>>)}
  <2>1. LowerOpcode(i, stack) = LowerConversion(i, stack)
    BY DEF LowerOpcode, StackOps
  <2>. QED  BY <2>1 DEF LowerConversion
<1>. HIDE DEF e, v
<1>. QED  BY <1>2, <1>3, <1>4, LowersOne DEF e

LEMMA InvokeLowers ==
  ASSUME NEW i, IsInstruction(i), NEW pc, i.op = "invoke"
  PROVE  Lowers(i, EffectOf(i, pc))
<1>. DEFINE e == EffectOf(i, pc)
            args == [j \in 1 .. Len(i.args) |-> i.args[Len(i.args) + 1 - j]]
            who == IF i.mode \in {"static", "dynamic"} THEN <<>>
                   ELSE IF i.mode = "init" THEN <<<<"Receiver">>>> ELSE <<AnObject>>
            n == Len(i.args) + IF i.mode \in {"static", "dynamic"} THEN 0 ELSE 1
            push == HelperResult(i)
<1>1. IsList(i.args) /\ IsList(i.r) /\ Len(i.args) \in Nat
  BY DEF IsInstruction, AreTypes, IsList
<1>2. e.pop = args \o who /\ e.push = i.r
  BY DEF EffectOf, InvokeEffect, Effect
<1>3. IsList(args) /\ Len(args) = Len(i.args) /\ IsList(who)
      /\ Len(who) = IF i.mode \in {"static", "dynamic"} THEN 0 ELSE 1
  BY <1>1, ArgumentsReversed, ShortLists
<1>4. Len(e.pop) = n
  <2>1. ASSUME NEW a, NEW b, IsList(a), IsList(b) PROVE Len(a \o b) = Len(a) + Len(b)
    BY <2>1, Joined
  <2>. HIDE DEF args, who, e
  <2>2. Len(args \o who) = Len(args) + Len(who)
    BY <1>3, <2>1
  <2>. QED  BY <1>2, <1>3, <2>2
<1>5. Follows(push, i.r) /\ Len(push) = Len(i.r)
  <2>1. Len(i.r) \in Nat
    BY <1>1 DEF IsList
  <2>2. IsList(push) /\ Len(push) = Len(i.r)
    BY <2>1, ListOf DEF HelperResult
  <2>3. \A j \in 1 .. Len(i.r) : StandsFor(push[j], i.r[j])
    BY StandsForLowered DEF HelperResult
  <2>. HIDE DEF push
  <2>. QED  BY <1>1, <2>1, <2>2, <2>3 DEF Follows, TopOf
<1>6. ASSUME NEW stack PROVE LowerOpcode(i, stack) = Popped(stack, n, push)
  <2>1. LowerOpcode(i, stack) = LowerInvoke(i, stack)
    BY DEF LowerOpcode, StackOps
  <2>2. CASE i.mode \in {"static", "dynamic"}
    <3>1. n = Len(i.args)
      BY <1>1, <2>2
    <3>2. LowerInvoke(i, stack) = Popped(stack, Len(i.args), HelperResult(i))
      BY <2>2 DEF LowerInvoke, LowerStaticCall, LowerDynamicCall, HelperArgs
    <3>. QED  BY <2>1, <3>1, <3>2
  <2>3. CASE i.mode \notin {"static", "dynamic"}
    <3>1. n = Len(i.args) + 1
      BY <2>3
    <3>2. LowerInvoke(i, stack) = Popped(stack, Len(i.args) + 1, HelperResult(i))
      BY <2>3 DEF LowerInvoke, LowerInterfaceCall, LowerInstanceCall, HelperArgs
    <3>. QED  BY <2>1, <3>1, <3>2
  <2>. QED  BY <2>2, <2>3
<1>. HIDE DEF e, n, push
<1>. QED  BY <1>2, <1>4, <1>5, <1>6 DEF Lowers, e

LEMMA OthersLower ==
  ASSUME NEW i, IsInstruction(i), NEW pc,
         i.op \in {"const", "iinc", "cmp", "if", "goto", "switch", "arrayload", "arraystore", "new", "newarray",
                   "arraylength", "instanceof", "checkcast", "monitor"} \cup Fields
  PROVE  Lowers(i, EffectOf(i, pc))
<1>. DEFINE e == EffectOf(i, pc)
<1>. USE DEF StackOps, Fields, Effect
<1>1. CASE i.op = "const"
  <2>1. Len(e.pop) = 0 /\ e.push = <<i.t>>
    BY <1>1 DEF EffectOf, ConstantEffect
  <2>2. \A stack : LowerOpcode(i, stack) = Popped(stack, 0, <<Lowered(i.t)>>)
    BY <1>1 DEF LowerOpcode, LowerConst
  <2>. QED  BY <2>1, <2>2, StandsForLowered, LowersOne
<1>2. CASE i.op = "iinc"
  <2>1. Len(e.pop) = 0 /\ e.push = <<>>
    BY <1>2 DEF EffectOf, BranchEffect
  <2>2. \A stack : LowerOpcode(i, stack) \in {Refused, Popped(stack, 0, <<>>)}
    BY <1>2 DEF LowerOpcode, LowerIinc
  <2>. QED  BY <2>1, <2>2, LowersNothing
<1>3. CASE i.op = "cmp"
  <2>1. Len(e.pop) = 2 /\ e.push = <<IntT>>
    BY <1>3 DEF EffectOf, BranchEffect
  <2>2. \A stack : LowerOpcode(i, stack) \in {Refused, Popped(stack, 2, <<I32>>)}
    BY <1>3, TypedIs DEF LowerOpcode, LowerCompare
  <2>. QED  BY <2>1, <2>2, IntStands, LowersOne
<1>4. CASE i.op = "if"
  <2>1. Len(e.pop) = i.n /\ e.push = <<>>
    BY <1>4 DEF EffectOf, BranchEffect, IsInstruction
  <2>2. \A stack : LowerOpcode(i, stack) \in {Refused, Popped(stack, i.n, <<>>)}
    BY <1>4, TypedIs DEF LowerOpcode, LowerIf
  <2>. QED  BY <2>1, <2>2, LowersNothing
<1>5. CASE i.op = "goto"
  <2>1. Len(e.pop) = 0 /\ e.push = <<>>
    BY <1>5 DEF EffectOf, BranchEffect
  <2>2. \A stack : LowerOpcode(i, stack) \in {Refused, Popped(stack, 0, <<>>)}
    BY <1>5 DEF LowerOpcode
  <2>. QED  BY <2>1, <2>2, LowersNothing
<1>6. CASE i.op = "switch"
  <2>1. Len(e.pop) = 1 /\ e.push = <<>>
    BY <1>6 DEF EffectOf, BranchEffect
  <2>2. \A stack : LowerOpcode(i, stack) \in {Refused, Popped(stack, 1, <<>>)}
    BY <1>6, TypedIs DEF LowerOpcode, LowerSwitch
  <2>. QED  BY <2>1, <2>2, LowersNothing
<1>7. CASE i.op = "arrayload"
  <2>1. Len(e.pop) = 2 /\ e.push = <<IF i.k = "A" THEN AnyRef ELSE TypeOf(i.k)>>
    BY <1>7 DEF EffectOf, ArrayLoadEffect
  <2>2. \A stack : LowerOpcode(i, stack) \in {Refused, Popped(stack, 2, <<LoweredKind(i.k)>>)}
    BY <1>7 DEF LowerOpcode, LowerArrayLoad
  <2>3. StandsFor(LoweredKind(i.k), IF i.k = "A" THEN AnyRef ELSE TypeOf(i.k))
    BY LoweredKindStands, ReferenceStands DEF LoweredKind
  <2>. HIDE DEF e
  <2>. QED  BY <2>1, <2>2, <2>3, LowersOne DEF e
<1>8. CASE i.op = "arraystore"
  <2>1. Len(e.pop) = 3 /\ e.push = <<>>
    BY <1>8 DEF EffectOf, ArrayStoreEffect
  <2>2. \A stack : LowerOpcode(i, stack) \in {Refused, Popped(stack, 3, <<>>)}
    BY <1>8 DEF LowerOpcode, LowerArrayStore
  <2>. QED  BY <2>1, <2>2, LowersNothing
<1>9. CASE i.op = "new"
  <2>1. Len(e.pop) = 0 /\ e.push = <<Uninit(pc)>>
    BY <1>9 DEF EffectOf, ObjectEffect
  <2>2. \A stack : LowerOpcode(i, stack) \in {Refused, Popped(stack, 0, <<I64>>)}
    BY <1>9 DEF LowerOpcode, LowerNew
  <2>. QED  BY <2>1, <2>2, ReferenceStands, LowersOne
<1>10. CASE i.op = "newarray"
  <2>1. Len(e.pop) = i.n /\ e.push = <<AnyRef>>
    BY <1>10 DEF EffectOf, ObjectEffect, IsInstruction
  <2>2. \A stack : LowerOpcode(i, stack) \in {Refused, Popped(stack, i.n, <<I64>>)}
    BY <1>10 DEF LowerOpcode, LowerNew
  <2>. QED  BY <2>1, <2>2, ReferenceStands, LowersOne
<1>11. CASE i.op = "arraylength"
  <2>1. Len(e.pop) = 1 /\ e.push = <<IntT>>
    BY <1>11 DEF EffectOf, ObjectEffect
  <2>2. \A stack : LowerOpcode(i, stack) \in {Refused, Popped(stack, 1, <<I32>>)}
    BY <1>11 DEF LowerOpcode, LowerNew
  <2>. QED  BY <2>1, <2>2, IntStands, LowersOne
<1>12. CASE i.op = "instanceof"
  <2>1. Len(e.pop) = 1 /\ e.push = <<IntT>>
    BY <1>12 DEF EffectOf, ObjectEffect
  <2>2. \A stack : LowerOpcode(i, stack) \in {Refused, Popped(stack, 1, <<I8>>)}
    BY <1>12 DEF LowerOpcode, LowerTypeTest
  <2>. QED  BY <2>1, <2>2, IntStands, LowersOne
<1>13. CASE i.op = "checkcast"
  <2>1. Len(e.pop) = 1 /\ e.push = <<Ref(i.c)>>
    BY <1>13 DEF EffectOf, ObjectEffect
  <2>2. \A stack : LowerOpcode(i, stack) \in {Refused, Popped(stack, 1, <<I64>>)}
    BY <1>13 DEF LowerOpcode, LowerTypeTest
  <2>. QED  BY <2>1, <2>2, ReferenceStands, LowersOne
<1>14. CASE i.op = "monitor"
  <2>1. Len(e.pop) = 1 /\ e.push = <<>>
    BY <1>14 DEF EffectOf, ObjectEffect
  <2>2. \A stack : LowerOpcode(i, stack) \in {Refused, Popped(stack, 1, <<>>)}
    BY <1>14 DEF LowerOpcode, LowerMonitor
  <2>. QED  BY <2>1, <2>2, LowersNothing
<1>15. CASE i.op = "getstatic"
  <2>1. Len(e.pop) = 0 /\ e.push = <<i.t>>
    BY <1>15 DEF EffectOf, FieldEffect
  <2>2. \A stack : LowerOpcode(i, stack) = Popped(stack, 0, <<Lowered(i.t)>>)
    BY <1>15 DEF LowerOpcode, LowerStaticField
  <2>. QED  BY <2>1, <2>2, StandsForLowered, LowersOne
<1>16. CASE i.op = "putstatic"
  <2>1. Len(e.pop) = 1 /\ e.push = <<>>
    BY <1>16 DEF EffectOf, FieldEffect
  <2>2. \A stack : LowerOpcode(i, stack) \in {Refused, Popped(stack, 1, <<>>)}
    BY <1>16 DEF LowerOpcode, LowerStaticField
  <2>. QED  BY <2>1, <2>2, LowersNothing
<1>17. CASE i.op = "getfield"
  <2>1. Len(e.pop) = 1 /\ e.push = <<i.t>>
    BY <1>17 DEF EffectOf, FieldEffect
  <2>2. \A stack : LowerOpcode(i, stack) = Popped(stack, 1, <<Lowered(i.t)>>)
    BY <1>17 DEF LowerOpcode, LowerInstanceField
  <2>. QED  BY <2>1, <2>2, StandsForLowered, LowersOne
<1>18. CASE i.op = "putfield"
  <2>1. Len(e.pop) = 2 /\ e.push = <<>>
    BY <1>18 DEF EffectOf, FieldEffect
  <2>2. \A stack : LowerOpcode(i, stack) \in {Refused, Popped(stack, 2, <<>>)}
    BY <1>18 DEF LowerOpcode, LowerInstanceField
  <2>. QED  BY <2>1, <2>2, LowersNothing
<1>. QED
  BY <1>1, <1>2, <1>3, <1>4, <1>5, <1>6, <1>7, <1>8, <1>9, <1>10, <1>11, <1>12, <1>13, <1>14, <1>15, <1>16, <1>17, <1>18

-----------------------------------------------------------------------------
(* The instructions of the locals and the stack.                            *)
LEMMA AgreesPushed ==
  ASSUME NEW stack, NEW types, Follows(stack, types), NEW n \in Nat, n <= Len(types),
         NEW push, NEW ts, Follows(push, ts), Len(push) = Len(ts),
         NEW after, after = ts \o Below(types, n),
         NEW r \in {Refused, Popped(stack, n, push)}
  PROVE  Agrees(r, stack, types, after)
<1>1. SUFFICES ASSUME r.ok
               PROVE  Follows(r.stack, after) /\ (Len(stack) = Len(types) => Len(r.stack) = Len(after))
  BY DEF Agrees
<1>2. Len(stack) \in Nat /\ Len(types) \in Nat
  BY DEF Follows, IsList
<1>3. n <= Len(stack) /\ r.stack = push \o Below(stack, n)
  BY <1>1, <1>2 DEF Refused, Popped
<1>. DEFINE below == Below(stack, n)
            rest == Below(types, n)
<1>4. Follows(below, rest) /\ Len(below) = Len(stack) - n /\ Len(rest) = Len(types) - n
  BY <1>3, FollowsRest
<1>5. /\ Follows(push \o below, ts \o rest)
      /\ Len(push \o below) = Len(push) + Len(below) /\ Len(ts \o rest) = Len(ts) + Len(rest)
  <2>1. ASSUME NEW a, NEW xs, Follows(a, xs), Len(a) = Len(xs), NEW b, NEW us, Follows(b, us)
        PROVE  /\ Follows(a \o b, xs \o us)
               /\ Len(a \o b) = Len(a) + Len(b) /\ Len(xs \o us) = Len(xs) + Len(us)
    BY <2>1, FollowsJoined
  <2>. HIDE DEF below, rest
  <2>2. Follows(push, ts) /\ Len(push) = Len(ts) /\ Follows(below, rest)
    BY <1>4 DEF below, rest
  <2>3. Follows(push \o below, ts \o rest)
    BY <2>1, <2>2
  <2>4. Len(push \o below) = Len(push) + Len(below)
    BY <2>1, <2>2
  <2>5. Len(ts \o rest) = Len(ts) + Len(rest)
    BY <2>1, <2>2
  <2>. QED  BY <2>3, <2>4, <2>5
<1>. HIDE DEF below, rest
<1>6. r.stack = push \o below /\ after = ts \o rest
  BY <1>3 DEF below, rest
<1>. QED  BY <1>2, <1>4, <1>5, <1>6

\* At most one form: the categories tell them apart.
LEMMA OneForm ==
  ASSUME NEW i, i.op \in StackOps, NEW types,
         NEW f \in FormsFitting(IF i.op \in {"dup2_x1", "dup2_x2"} THEN WideForms(i) ELSE Forms(i), types),
         NEW g \in FormsFitting(IF i.op \in {"dup2_x1", "dup2_x2"} THEN WideForms(i) ELSE Forms(i), types)
  PROVE  Len(f[1]) = Len(g[1]) /\ f[2] = g[2]
<1>. DEFINE forms == IF i.op \in {"dup2_x1", "dup2_x2"} THEN WideForms(i) ELSE Forms(i)
            theirs == StackForms(i.op)
<1>1. /\ f \in forms /\ \A j \in 1 .. Len(f[1]) : Category(types[j]) = f[1][j]
      /\ g \in forms /\ \A j \in 1 .. Len(g[1]) : Category(types[j]) = g[1][j]
  BY DEF FormsFitting
<1>2. (\E k : FormIs(theirs, k, f)) /\ (\E k : FormIs(theirs, k, g))
  BY <1>1, FormsAgree
<1>. HIDE DEF theirs
<1>3. PICK k : FormIs(theirs, k, f)
  BY <1>2
<1>4. PICK l : FormIs(theirs, l, g)
  BY <1>2
<1>5. k = l
  <2>. SUFFICES ASSUME k # l PROVE FALSE
    OBVIOUS
  <2>1. PICK j \in 1 .. Len(f[1]) : j <= Len(theirs[l][1]) /\ theirs[l][1][j] \notin {0, f[1][j]}
    BY <1>3, <1>4 DEF FormIs, Unlike
  <2>2. Len(theirs[l][1]) = Len(g[1]) /\ \A n \in 1 .. Len(g[1]) : theirs[l][1][n] \in {0, g[1][n]}
    BY <1>4 DEF FormIs, Alike
  <2>3. IsList(f[1]) /\ IsList(g[1])
    BY <1>1, FormsPick DEF Picks
  <2>4. j \in 1 .. Len(g[1])
    BY <2>1, <2>2, <2>3 DEF IsList
  <2>. QED  BY <1>1, <2>1, <2>2, <2>4
<1>. QED  BY <1>3, <1>4, <1>5 DEF FormIs, Alike

LEMMA ShuffleAgrees ==
  ASSUME NEW i, i.op \in StackOps, NEW s, IsState(method, s), s # NoState,
         NEW after, after = Shuffle(method, i, s), after # NoState,
         NEW stack, Follows(stack, s.stack)
  PROVE  Agrees(LowerOpcode(i, stack), stack, s.stack, after.stack)
<1>. DEFINE forms == IF i.op \in {"dup2_x1", "dup2_x2"} THEN WideForms(i) ELSE Forms(i)
            fitting == FormsFitting(forms, s.stack)
            g == CHOOSE x \in fitting : TRUE
            match == {f \in forms : /\ Len(f[1]) <= Len(stack)
                                    /\ \A j \in 1 .. Len(f[1]) : stack[j][2] = f[1][j]}
            r == LowerOpcode(i, stack)
<1>1. r = Rearranged(forms, stack)
  <2>1. CASE i.op \in {"dup2_x1", "dup2_x2"}
    BY <2>1 DEF LowerOpcode, LowerWideShuffle
  <2>2. CASE i.op \notin {"dup2_x1", "dup2_x2"}
    BY <2>2 DEF LowerOpcode, LowerShuffle, StackOps
  <2>. QED  BY <2>1, <2>2
<1>2. /\ after = Push(method, At(s.locals, Below(s.stack, Len(g[1]))), Permute(s.stack, g[2]))
      /\ g \in fitting
  BY DEF Shuffle
<1>3. after.stack = Permute(s.stack, g[2]) \o Below(s.stack, Len(g[1]))
  <2>1. ASSUME NEW x, NEW ts, Push(method, x, ts) # NoState
        PROVE  Push(method, x, ts).stack = ts \o x.stack
    BY <2>1, PushStack
  <2>2. \A b : At(s.locals, b).stack = b
    BY DEF At
  <2>. HIDE DEF g
  <2>. QED  BY <1>2, <2>1, <2>2
<1>4. /\ IsList(stack) /\ IsList(s.stack) /\ Len(stack) \in Nat /\ Len(s.stack) \in Nat
      /\ Len(stack) <= Len(s.stack) /\ \A j \in 1 .. Len(stack) : StandsFor(stack[j], s.stack[j])
  BY DEF Follows, TopOf, IsList
<1>5. \A f \in forms : Picks(f)
  BY FormsPick
<1>. HIDE DEF g, r, forms
<1>6. ASSUME NEW f \in match PROVE f \in fitting
  <2>1. IsList(f[1]) /\ Len(f[1]) \in Nat
    BY <1>5 DEF Picks, IsList
  <2>2. \A j \in 1 .. Len(f[1]) : stack[j][2] = Category(s.stack[j])
    BY <1>4, <2>1, StandsForKind
  <2>. QED  BY <1>4, <2>1, <2>2 DEF FormsFitting
<1>7. CASE match = {}
  <2>1. r = Refused
    BY <1>1, <1>7 DEF Rearranged
  <2>. QED  BY <2>1 DEF r, Agrees, Refused
<1>8. CASE match # {}
  <2>1. PICK f \in match : r = Popped(stack, Len(f[1]), Permute(stack, f[2]))
    BY <1>1, <1>8 DEF Rearranged
  <2>. DEFINE n == Len(f[1])
              push == Permute(stack, f[2])
              ts == Permute(s.stack, f[2])
  <2>2. n = Len(g[1]) /\ f[2] = g[2]
    <3>1. \A x, y \in fitting : Len(x[1]) = Len(y[1]) /\ x[2] = y[2]
      BY OneForm DEF forms
    <3>. QED  BY <1>2, <1>6, <2>1, <3>1
  <2>3. Picks(f) /\ n \in Nat /\ n <= Len(stack) /\ Len(f[2]) \in Nat
    BY <1>5 DEF Picks, IsList
  <2>4. IsList(push) /\ Len(push) = Len(f[2]) /\ IsList(ts) /\ Len(ts) = Len(f[2])
    BY <2>3, ListOf DEF Permute
  <2>5. ASSUME NEW j \in 1 .. Len(f[2]) PROVE StandsFor(push[j], ts[j])
    <3>1. f[2][j] \in 1 .. n
      BY <2>3 DEF Picks
    <3>2. StandsFor(stack[f[2][j]], s.stack[f[2][j]])
      BY <1>4, <2>3, <3>1
    <3>. QED  BY <3>2 DEF Permute
  <2>6. after.stack = ts \o Below(s.stack, n)
    BY <1>3, <2>2
  <2>. HIDE DEF n, push, ts
  <2>7. Follows(push, ts) /\ Len(push) = Len(ts)
    BY <2>3, <2>4, <2>5 DEF Follows, TopOf
  <2>8. r = Popped(stack, n, push) /\ n <= Len(s.stack)
    BY <1>4, <2>1, <2>3 DEF n, push
  <2>9. Agrees(r, stack, s.stack, after.stack)
    BY <2>3, <2>6, <2>7, <2>8, AgreesPushed
  <2>. QED  BY <2>9 DEF r
<1>. QED  BY <1>7, <1>8

LEMMA LoadedStands ==
  ASSUME NEW declared, NEW k, NEW t, IF k = "A" THEN RefLike(t) ELSE t = TypeOf(k),
         \/ declared = LoweredKind(k)
         \/ declared[1] = "I64" /\ LoweredKind(k) = I32
         \/ declared = I32 /\ LoweredKind(k) = I64
  PROVE  StandsFor(Loaded(declared, LoweredKind(k)), t)
<1>. DEFINE want == LoweredKind(k)
<1>1. want = Lowered(t)
  BY StandsForReference DEF LoweredKind
<1>2. Loaded(declared, want) = want
  <2>1. want \in {I32, I64, Long64, F32, F64}
    BY <1>1 DEF Lowered
  <2>. HIDE DEF want
  <2>2. \/ declared = want
        \/ declared[1] = "I64" /\ want = I32
        \/ declared = I32 /\ want = I64
    BY DEF want
  <2>. QED  BY <2>1, <2>2 DEF Loaded, I32, I64, Long64, F32, F64
<1>. QED  BY <1>1, <1>2 DEF StandsFor

LEMMA LoadAgrees ==
  ASSUME NEW i, i.op = "load", NEW s, IsState(method, s), s # NoState,
         NEW after, after = ApplyLoad(method, i, s), after # NoState,
         NEW stack, Follows(stack, s.stack),
         \/ LocalVar(i.n) = LoweredKind(i.k)
         \/ LocalVar(i.n)[1] = "I64" /\ LoweredKind(i.k) = I32
         \/ LocalVar(i.n) = I32 /\ LoweredKind(i.k) = I64
  PROVE  Agrees(LowerOpcode(i, stack), stack, s.stack, after.stack)
<1>. DEFINE t == LoadLocal(i, s)
            v == Loaded(LocalVar(i.n), LoweredKind(i.k))
            r == LowerOpcode(i, stack)
<1>1. (IF i.k = "A" THEN RefLike(t) ELSE t = TypeOf(i.k)) /\ after = Push(method, s, <<t>>)
  BY DEF ApplyLoad
<1>2. StandsFor(v, t)
  <2>. HIDE DEF t
  <2>. QED  BY <1>1, LoadedStands
<1>. HIDE DEF t
<1>3. after.stack = <<t>> \o s.stack
  <2>1. ASSUME NEW x, NEW ts, Push(method, x, ts) # NoState
        PROVE  Push(method, x, ts).stack = ts \o x.stack
    BY <2>1, PushStack
  <2>. QED  BY <1>1, <2>1
<1>4. r \in {Refused, Popped(stack, 0, <<v>>)}
  BY DEF LowerOpcode, LowerLoad, StackOps
<1>5. IsList(s.stack) /\ Below(s.stack, 0) = s.stack /\ 0 <= Len(s.stack)
  BY RestOfNone DEF IsState, IsList
<1>. HIDE DEF r, v
<1>6. Follows(<<v>>, <<t>>) /\ Len(<<v>>) = Len(<<t>>)
  BY <1>2, FollowsOne
<1>7. Agrees(r, stack, s.stack, after.stack)
  BY <1>3, <1>4, <1>5, <1>6, AgreesPushed
<1>. QED  BY <1>7 DEF r

LEMMA StoreAgrees ==
  ASSUME NEW i, i.op = "store", NEW s, IsState(method, s), s # NoState,
         NEW after, after = ApplyStore(i, s), after # NoState,
         NEW stack, Follows(stack, s.stack)
  PROVE  Agrees(LowerOpcode(i, stack), stack, s.stack, after.stack)
<1>. DEFINE r == LowerOpcode(i, stack)
            below == Below(s.stack, 1)
<1>1. IsList(s.stack) /\ Len(s.stack) \in Nat
  BY DEF IsState, IsList
<1>2. Len(s.stack) # 0 /\ after.stack = below
  BY DEF ApplyStore, At
<1>3. after.stack = <<>> \o below /\ 1 <= Len(s.stack)
  <2>1. IsList(below)
    BY <1>1, <1>2, Rest
  <2>2. <<>> \o below = below
    <3>. HIDE DEF below
    <3>. QED  BY <2>1, RestOfNone
  <2>. QED  BY <1>1, <1>2, <2>2
<1>4. r \in {Refused, Popped(stack, 1, <<>>)}
  BY DEF LowerOpcode, LowerStore, StackOps
<1>. HIDE DEF r
<1>5. Agrees(r, stack, s.stack, after.stack)
  BY <1>3, <1>4, FollowsNone, AgreesPushed
<1>. QED  BY <1>5 DEF r

\* The load of a local is of the kind that is declared, or an integer.
LoadAgreesAt(pc) ==
  Code[pc].op = "load" =>
    \/ LocalVar(Code[pc].n) = LoweredKind(Code[pc].k)
    \/ LocalVar(Code[pc].n)[1] = "I64" /\ LoweredKind(Code[pc].k) = I32
    \/ LocalVar(Code[pc].n) = I32 /\ LoweredKind(Code[pc].k) = I64

(* What the compiler does to its stack is what the verifier does to the      *)
(* types, for every instruction that does not end a method.                  *)
LEMMA LowersAsVerified ==
  ASSUME IsMethod(method), NEW pc \in PCs, NEW s, IsState(method, s), s # NoState,
         Apply(method, pc, s) # NoState, LoadAgreesAt(pc),
         Code[pc].op \notin {"jsr", "ret", "return", "athrow"},
         NEW stack, Follows(stack, s.stack)
  PROVE  Agrees(LowerOpcode(Code[pc], stack), stack, s.stack, Apply(method, pc, s).stack)
<1>. DEFINE i == Code[pc]
            after == Apply(method, pc, s)
<1>1. IsInstruction(i)
  <2>1. pc \in DOMAIN method.code
    BY DEF PCs, Code, IsMethod, IsList
  <2>. QED  BY <2>1 DEF IsMethod, Code
<1>2. CASE i.op = "load"
  <2>1. after = ApplyLoad(method, i, s)
    BY <1>2 DEF Apply, Code, StackOps
  <2>. HIDE DEF after
  <2>2. Agrees(LowerOpcode(i, stack), stack, s.stack, after.stack)
    BY <1>2, <2>1, LoadAgrees DEF LoadAgreesAt, after
  <2>. QED  BY <2>2 DEF after
<1>3. CASE i.op = "store"
  <2>1. after = ApplyStore(i, s)
    BY <1>3 DEF Apply, Code, StackOps
  <2>. HIDE DEF after
  <2>2. Agrees(LowerOpcode(i, stack), stack, s.stack, after.stack)
    BY <1>3, <2>1, StoreAgrees DEF after
  <2>. QED  BY <2>2 DEF after
<1>4. CASE i.op \in StackOps
  <2>1. after = Shuffle(method, i, s)
    BY <1>4 DEF Apply, Code, StackOps
  <2>. HIDE DEF after
  <2>2. Agrees(LowerOpcode(i, stack), stack, s.stack, after.stack)
    BY <1>4, <2>1, ShuffleAgrees DEF after
  <2>. QED  BY <2>2 DEF after
<1>5. CASE i.op \in Simple
  <2>1. Lowers(i, EffectOf(i, pc))
    <3>1. \/ i.op \in {"bin", "div", "neg", "shift"} \/ i.op = "conv" \/ i.op = "invoke"
          \/ i.op \in {"const", "iinc", "cmp", "if", "goto", "switch", "arrayload", "arraystore", "new", "newarray",
                       "arraylength", "instanceof", "checkcast", "monitor"} \cup Fields
      BY <1>5 DEF Simple, Opcodes, Fields
    <3>. HIDE DEF i
    <3>. QED  BY <1>1, <3>1, ArithmeticLowers, ConversionLowers, InvokeLowers, OthersLower
  <2>2. PICK push : /\ Follows(push, EffectOf(i, pc).push) /\ Len(push) = Len(EffectOf(i, pc).push)
                    /\ LowerOpcode(i, stack) \in {Refused, Popped(stack, Len(EffectOf(i, pc).pop), push)}
    BY <2>1 DEF Lowers
  <2>3. i.op \in Simple \ {"return", "athrow"}
    BY <1>5
  <2>. QED  BY <2>2, <2>3, EffectAgrees
<1>. QED  BY <1>1, <1>2, <1>3, <1>4, <1>5 DEF IsInstruction, Simple

-----------------------------------------------------------------------------
(* The compiler's stacks are what the verifier found, as far as the walk has *)
(* come: at what it lowered, at what is jumped to, and where it is.          *)
Apt ==
  /\ verdict = "ok" /\ LoadsAgree
  /\ \A pc \in PCs : IsLowered(pc) => states[pc] # NoState

Matches(stack, pc) ==
  /\ states[pc] # NoState /\ Follows(stack, states[pc].stack)
  /\ ReachedInOrder => Len(stack) = Len(states[pc].stack)

\* Where a lowered instruction goes on, the walk has a stack for.
Announced(q) ==
  \A p \in Successors(q) : p \in PCs /\ p >= at => signatures[p] # Unrecorded \/ (p = at /\ current.live)

LoweringShape ==
  /\ recorded = [pc \in PCs |-> recorded[pc]] /\ signatures = [pc \in PCs |-> signatures[pc]]
  /\ compiled = "no" => \A pc \in PCs : recorded[pc] = Unrecorded /\ signatures[pc] = Unrecorded
  /\ compiled # "no" => /\ verdict = "ok" /\ entry \in PCs /\ at \in Nat
                        /\ \A pc \in PCs : IsLowered(pc) => pc < at
  /\ compiled = "lowering" => ~Subroutines

LoweringMatches ==
  /\ \A pc \in PCs : IsLowered(pc) => Matches(recorded[pc], pc)
  /\ \A pc \in PCs : signatures[pc] # Unrecorded => Matches(signatures[pc], pc)
  /\ compiled = "lowering" =>
       /\ current.live /\ at \in PCs => Matches(current.stack, at)
       /\ \A q \in PCs : IsLowered(q) => Announced(q)

LoweringInv == LoweringShape /\ (compiled # "no" /\ Apt => LoweringMatches)


LEMMA OneMethod ==
  ASSUME UNCHANGED <<method, vvars>>
  PROVE  /\ PCs' = PCs /\ Code' = Code /\ states' = states /\ verdict' = verdict
         /\ LoadsAgree' = LoadsAgree /\ Subroutines' = Subroutines
         /\ \A pc : Successors(pc)' = Successors(pc)
<1>1. method' = method /\ states' = states /\ verdict' = verdict
  BY DEF vvars
<1>2. PCs' = PCs /\ Code' = Code
  BY <1>1 DEF PCs, Code
<1>3. LoadsAgree' = LoadsAgree
  BY <1>1
  DEF LoadsAgree, LocalVar, LocalVarType, LocalVarKind, ArgSlots, InferType, InferKind, FirstStored, PCs, Code
<1>4. Subroutines' = Subroutines
  BY <1>1 DEF Subroutines, PCs, Code
<1>5. \A pc : Successors(pc)' = Successors(pc)
  BY <1>1 DEF Successors, Code, Targets
<1>. QED  BY <1>1, <1>2, <1>3, <1>4, <1>5

\* More code lowered, nothing is easier: what is meant was meant before.
LEMMA MeantBefore ==
  ASSUME UNCHANGED <<method, vvars>>, entry' = entry, LoweringShape, compiled # "no",
         \A pc \in PCs : IsLowered(pc) => IsLowered(pc)',
         \A pc \in PCs : IsLowered(pc)' => IsLowered(pc) \/ pc >= at
  PROVE  (Apt' => Apt) /\ (ReachedInOrder' => ReachedInOrder)
<1>1. /\ PCs' = PCs /\ states' = states /\ verdict' = verdict /\ LoadsAgree' = LoadsAgree
      /\ \A pc : Successors(pc)' = Successors(pc)
  BY OneMethod
<1>2. Apt' => Apt
  BY <1>1 DEF Apt
<1>3. ASSUME ReachedInOrder', NEW pc \in PCs, IsLowered(pc), states[pc].stack # <<>>
      PROVE  \E q \in entry .. pc - 1 : IsLowered(q) /\ pc \in Successors(q)
  <2>1. pc \in PCs' /\ IsLowered(pc)' /\ states'[pc].stack # <<>>
    BY <1>1, <1>3
  <2>2. PICK q \in entry .. pc - 1 : IsLowered(q)' /\ pc \in Successors(q)'
    BY <1>3, <2>1 DEF ReachedInOrder
  <2>3. entry \in Nat /\ entry >= 1 /\ pc < at /\ at \in Nat /\ pc \in Nat /\ PCs = 1 .. Len(Code)
    BY <1>3 DEF LoweringShape, PCs
  <2>4. q \in entry .. pc - 1
    BY <2>2, <1>1
  <2>5. q \in PCs /\ ~(q >= at)
    BY <2>3, <2>4, <1>3
  <2>. QED  BY <1>1, <2>2, <2>4, <2>5
<1>4. ReachedInOrder' => ReachedInOrder
  BY <1>3 DEF ReachedInOrder
<1>. QED  BY <1>2, <1>4

LEMMA LoweringStays ==
  ASSUME LoweringInv, UNCHANGED <<method, vvars, entry, at, signatures, recorded>>,
         \/ compiled' = compiled /\ current' = current
         \/ compiled # "no" /\ compiled' \in {"refused", "yes", "used"}
  PROVE  LoweringInv'
<1>1. /\ PCs' = PCs /\ states' = states /\ verdict' = verdict /\ LoadsAgree' = LoadsAgree
      /\ Subroutines' = Subroutines /\ UNCHANGED <<entry, at, signatures, recorded>>
      /\ \A pc : Successors(pc)' = Successors(pc)
  BY OneMethod
<1>2. \A pc : IsLowered(pc)' = IsLowered(pc)
  BY <1>1 DEF IsLowered
<1>3. Apt' = Apt /\ ReachedInOrder' = ReachedInOrder
  BY <1>1, <1>2 DEF Apt, ReachedInOrder
<1>4. LoweringShape'
  BY <1>1, <1>2 DEF LoweringInv, LoweringShape
<1>5. ASSUME (compiled # "no" /\ Apt)' PROVE LoweringMatches'
  <2>1. compiled # "no" /\ LoweringMatches
    BY <1>3, <1>5 DEF LoweringInv
  <2>2. \A pc \in PCs' : IsLowered(pc)' => Matches(recorded[pc], pc)'
    BY <1>1, <1>2, <1>3, <2>1 DEF LoweringMatches, Matches
  <2>3. \A pc \in PCs' : (signatures[pc] # Unrecorded)' => Matches(signatures[pc], pc)'
    BY <1>1, <1>3, <2>1 DEF LoweringMatches, Matches
  <2>4. (compiled = "lowering")' => compiled = "lowering" /\ current' = current
    OBVIOUS
  <2>5. (compiled = "lowering")' => (current.live /\ at \in PCs => Matches(current.stack, at))'
    BY <1>1, <1>3, <2>1, <2>4 DEF LoweringMatches, Matches
  <2>6. (compiled = "lowering")' => \A q \in PCs' : IsLowered(q)' => Announced(q)'
    BY <1>1, <1>2, <2>1, <2>4 DEF LoweringMatches, Announced
  <2>. QED  BY <2>2, <2>3, <2>5, <2>6 DEF LoweringMatches
<1>. QED  BY <1>4, <1>5 DEF LoweringInv

LEMMA SkipKeeps ==
  ASSUME LoweringInv, SkipDead, UNCHANGED <<method, vvars>>
  PROVE  LoweringInv'
<1>1. /\ PCs' = PCs /\ states' = states /\ verdict' = verdict /\ LoadsAgree' = LoadsAgree
      /\ Subroutines' = Subroutines
      /\ \A pc : Successors(pc)' = Successors(pc)
  BY OneMethod
<1>2. /\ compiled = "lowering" /\ ~current.live /\ at' = at + 1
      /\ UNCHANGED <<entry, osr, current, signatures, recorded, compiled>>
  BY DEF SkipDead
<1>3. \A pc : IsLowered(pc)' = IsLowered(pc)
  BY <1>2 DEF IsLowered
<1>4. Apt' = Apt /\ ReachedInOrder' = ReachedInOrder
  BY <1>1, <1>2, <1>3 DEF Apt, ReachedInOrder
<1>5. at \in Nat /\ \A pc \in PCs : pc \in Int
  BY <1>2 DEF LoweringInv, LoweringShape, PCs
<1>6. LoweringShape'
  BY <1>1, <1>2, <1>3, <1>5 DEF LoweringInv, LoweringShape
<1>7. ASSUME (compiled # "no" /\ Apt)' PROVE LoweringMatches'
  <2>1. compiled # "no" /\ LoweringMatches
    BY <1>2, <1>4, <1>7 DEF LoweringInv
  <2>2. \A pc \in PCs' : IsLowered(pc)' => Matches(recorded[pc], pc)'
    BY <1>1, <1>2, <1>3, <1>4, <2>1 DEF LoweringMatches, Matches
  <2>3. \A pc \in PCs' : (signatures[pc] # Unrecorded)' => Matches(signatures[pc], pc)'
    BY <1>1, <1>2, <1>4, <2>1 DEF LoweringMatches, Matches
  <2>4. ASSUME NEW q \in PCs, IsLowered(q) PROVE Announced(q)'
    <3>1. Announced(q)
      BY <1>2, <2>1, <2>4 DEF LoweringMatches
    <3>2. ASSUME NEW p \in PCs, p \in Successors(q), p >= at + 1 PROVE signatures[p] # Unrecorded
      <4>1. p >= at /\ p # at
        BY <1>5, <3>2
      <4>. QED  BY <1>2, <3>1, <3>2, <4>1 DEF Announced
    <3>. QED  BY <1>1, <1>2, <3>2 DEF Announced
  <2>5. ~current'.live
    BY <1>2
  <2>. QED  BY <1>1, <1>3, <2>2, <2>3, <2>4, <2>5 DEF LoweringMatches
<1>. QED  BY <1>6, <1>7 DEF LoweringInv

\* Where the stack after an instruction goes, in the walk.
StackAt == IF current.live THEN current.stack ELSE Restored(at)
StackAfter == LowerOpcode(Code[at], StackAt)
TargetsAt ==
  LET i == Code[at]
  IN CASE i.op = "if" -> {i.to, at + 1}
       [] i.op \in {"goto", "switch"} -> {Targets(i, NoState)[j] : j \in DOMAIN Targets(i, NoState)}
       [] ~Terminates(i) /\ at + 1 \in BranchTargets \cap PCs -> {at + 1}
       [] OTHER -> {}

\* An instruction was lowered: what the walk left.
Lowered1 ==
  /\ StackAfter.ok
  /\ signatures' = [pc \in PCs |-> IF pc \in TargetsAt THEN StackAfter.stack ELSE signatures[pc]]
  /\ recorded' = [recorded EXCEPT ![at] = StackAt]
  /\ current' = [live |-> ~Terminates(Code[at]) /\ TargetsAt = {}, stack |-> StackAfter.stack]
  /\ at' = at + 1
  /\ UNCHANGED compiled

LEMMA LowerOneIs ==
  ASSUME LowerOne
  PROVE  /\ compiled = "lowering" /\ at \in PCs /\ UNCHANGED entry
         /\ \/ Lowered1
            \/ compiled' = "refused" /\ UNCHANGED <<at, current, signatures, recorded>>
<1>. DEFINE reached == Reaches(TargetsAt, StackAfter.stack)
<1>1. /\ compiled = "lowering" /\ at \in PCs /\ UNCHANGED entry
      /\ IF StackAfter.ok /\ reached.ok
         THEN /\ signatures' = reached.signatures
              /\ recorded' = [recorded EXCEPT ![at] = StackAt]
              /\ current' = [live |-> ~Terminates(Code[at]) /\ TargetsAt = {}, stack |-> StackAfter.stack]
              /\ at' = at + 1
              /\ UNCHANGED compiled
         ELSE compiled' = "refused" /\ UNCHANGED <<at, current, signatures, recorded>>
  BY DEF LowerOne, StackAt, StackAfter, TargetsAt
<1>2. reached.ok => reached.signatures = [pc \in PCs |-> IF pc \in TargetsAt THEN StackAfter.stack ELSE signatures[pc]]
  BY DEF Reaches
<1>. HIDE DEF reached
<1>. QED  BY <1>1, <1>2 DEF Lowered1

\* The walk announces its stack where the flow goes on, and nowhere else.
LEMMA GoesOnAt ==
  ASSUME IsMethod(method), at \in PCs, ~Subroutines
  PROVE  /\ Code[at].op \in {"return", "athrow"} => TargetsAt = {} /\ Successors(at) = {}
         /\ TargetsAt \subseteq Successors(at)
         /\ ~Terminates(Code[at]) => Successors(at) = {at + 1}
         /\ Code[at].op \notin {"jsr", "ret"}
         /\ \A p \in Successors(at) : p \in PCs => p \in TargetsAt \/ (p = at + 1 /\ ~Terminates(Code[at]) /\ TargetsAt = {})
<1>. DEFINE i == Code[at]
<1>1. i.op \notin {"jsr", "ret"}
  BY DEF Subroutines
<1>2. CASE i.op = "if"
  <2>1. Targets(i, NoState) = <<i.to>>
    BY <1>2 DEF Targets
  <2>2. {Targets(i, NoState)[j] : j \in DOMAIN Targets(i, NoState)} = {i.to}
    <3>1. DOMAIN <<i.to>> = {1}
      OBVIOUS
    <3>. QED  BY <2>1, <3>1
  <2>3. Successors(at) = {i.to, at + 1}
    BY <1>2, <2>2 DEF Successors, Leaves
  <2>4. TargetsAt = {i.to, at + 1}
    BY <1>2 DEF TargetsAt, Terminates
  <2>. QED  BY <1>2, <2>3, <2>4 DEF Terminates
<1>3. CASE i.op \in {"goto", "switch"}
  <2>1. Successors(at) = {Targets(i, NoState)[j] : j \in DOMAIN Targets(i, NoState)}
    BY <1>3 DEF Successors, Leaves
  <2>2. TargetsAt = {Targets(i, NoState)[j] : j \in DOMAIN Targets(i, NoState)}
    BY <1>3 DEF TargetsAt, Terminates
  <2>. QED  BY <1>3, <2>1, <2>2 DEF Terminates
<1>4. CASE i.op \notin {"if", "goto", "switch"}
  <2>1. Targets(i, NoState) = <<>>
    BY <1>1, <1>4 DEF Targets
  <2>2. {Targets(i, NoState)[j] : j \in DOMAIN Targets(i, NoState)} = {}
    <3>1. DOMAIN <<>> = {}
      OBVIOUS
    <3>. QED  BY <2>1, <3>1
  <2>3. Successors(at) = IF i.op \in {"return", "athrow"} THEN {} ELSE {at + 1}
    BY <1>1, <1>4, <2>2 DEF Successors, Leaves
  <2>4. Terminates(i) <=> i.op \in {"return", "athrow"}
    BY <1>1, <1>4 DEF Terminates
  <2>5. TargetsAt = IF ~Terminates(i) /\ at + 1 \in BranchTargets \cap PCs THEN {at + 1} ELSE {}
    BY <1>4 DEF TargetsAt
  <2>. QED  BY <1>1, <2>3, <2>4, <2>5
<1>. QED  BY <1>2, <1>3, <1>4

LEMMA OneMoreLowered ==
  ASSUME LoweringShape, compiled = "lowering", at \in PCs, Lowered1
  PROVE  /\ recorded' = [pc \in PCs |-> recorded'[pc]] /\ signatures' = [pc \in PCs |-> signatures'[pc]]
         /\ recorded'[at] = StackAt /\ \A pc \in PCs : pc # at => recorded'[pc] = recorded[pc]
         /\ \A pc \in PCs : signatures'[pc] = IF pc \in TargetsAt THEN StackAfter.stack ELSE signatures[pc]
         /\ ~IsLowered(at) /\ at \in Nat /\ \A pc \in PCs : pc \in Nat
<1>1. recorded = [pc \in PCs |-> recorded[pc]] /\ recorded' = [recorded EXCEPT ![at] = StackAt]
      /\ signatures' = [pc \in PCs |-> IF pc \in TargetsAt THEN StackAfter.stack ELSE signatures[pc]]
  BY DEF LoweringShape, Lowered1
<1>2. DOMAIN recorded = PCs
  BY <1>1
<1>3. at \in Nat /\ \A pc \in PCs : pc \in Nat
  BY DEF PCs
<1>4. ~IsLowered(at)
  BY <1>3 DEF LoweringShape
<1>. HIDE DEF StackAt, StackAfter, TargetsAt
<1>5. recorded' = [pc \in PCs |-> recorded'[pc]]
  BY <1>1, <1>2
<1>. QED  BY <1>1, <1>2, <1>3, <1>4, <1>5

\* The stack an instruction is lowered with.
LEMMA StackAtFits ==
  ASSUME LoweringInv, VerifierInv, compiled = "lowering", at \in PCs, Lowered1,
         UNCHANGED <<method, vvars>>, entry' = entry, Apt'
  PROVE  /\ Apt /\ LoweringMatches /\ (ReachedInOrder' => ReachedInOrder)
         /\ states[at] # NoState /\ Follows(StackAt, states[at].stack)
         /\ ReachedInOrder' => Len(StackAt) = Len(states[at].stack)
<1>1. /\ recorded'[at] = StackAt /\ \A pc \in PCs : pc # at => recorded'[pc] = recorded[pc]
      /\ ~IsLowered(at) /\ at \in Nat /\ \A pc \in PCs : pc \in Nat
  BY OneMoreLowered DEF LoweringInv
<1>2. /\ \A pc \in PCs : IsLowered(pc) => IsLowered(pc)'
      /\ \A pc \in PCs : IsLowered(pc)' => IsLowered(pc) \/ pc = at
  BY <1>1 DEF IsLowered
<1>3. (Apt' => Apt) /\ (ReachedInOrder' => ReachedInOrder)
  <2>1. \A pc \in PCs : pc = at => pc >= at
    BY <1>1
  <2>. QED  BY <1>2, <2>1, MeantBefore DEF LoweringInv
<1>4. LoweringMatches
  BY <1>3 DEF LoweringInv
<1>5. CASE current.live
  <2>1. Matches(current.stack, at)
    BY <1>4, <1>5 DEF LoweringMatches
  <2>. QED  BY <1>3, <1>4, <1>5, <2>1 DEF StackAt, Matches
<1>6. CASE ~current.live /\ signatures[at] # Unrecorded
  <2>1. Matches(signatures[at], at)
    BY <1>4, <1>6 DEF LoweringMatches
  <2>. QED  BY <1>3, <1>4, <1>6, <2>1 DEF StackAt, Restored, Matches
<1>7. CASE ~current.live /\ signatures[at] = Unrecorded
  <2>1. StackAt = <<>>
    BY <1>7 DEF StackAt, Restored
  <2>2. <<>> # Unrecorded
    BY DEF Unrecorded
  <2>3. recorded'[at] # Unrecorded
    BY <1>1, <2>1, <2>2
  <2>4. states' = states /\ PCs' = PCs /\ \A pc : Successors(pc)' = Successors(pc)
    BY OneMethod
  <2>5. states[at] # NoState
    BY <2>3, <2>4 DEF Apt, IsLowered
  <2>6. IsList(states[at].stack)
    BY <2>5 DEF VerifierInv, IsState
  <2>7. Follows(<<>>, states[at].stack) /\ Len(<<>>) = 0
    BY <2>6, FollowsNothing
  <2>8. ASSUME ReachedInOrder', states[at].stack # <<>> PROVE FALSE
    <3>1. PICK q \in entry .. at - 1 : IsLowered(q)' /\ at \in Successors(q)
      <4>1. \A pc \in PCs : IsLowered(pc)' /\ states[pc].stack # <<>> =>
              \E q \in entry .. pc - 1 : IsLowered(q)' /\ pc \in Successors(q)
        BY <2>4, <2>8 DEF ReachedInOrder
      <4>2. \E q \in entry .. at - 1 : recorded'[q] # Unrecorded /\ at \in Successors(q)
        BY <2>3, <2>8, <4>1 DEF IsLowered
      <4>. QED  BY <4>2 DEF IsLowered
    <3>2. q \in PCs /\ q # at
      BY <1>1 DEF LoweringInv, LoweringShape, PCs
    <3>3. IsLowered(q) /\ at \in Successors(q)
      BY <1>2, <3>1, <3>2
    <3>4. Announced(q)
      BY <1>4, <3>2, <3>3 DEF LoweringMatches
    <3>5. at >= at
      BY <1>1
    <3>. QED  BY <1>7, <3>3, <3>4, <3>5 DEF Announced
  <2>. QED  BY <1>3, <1>4, <2>1, <2>5, <2>7, <2>8
<1>. QED  BY <1>5, <1>6, <1>7

\* What it leaves fits where the flow goes on.
LEMMA StackAfterFits ==
  ASSUME LoweringInv, VerifierInv, Supported(method), compiled = "lowering", at \in PCs, Lowered1,
         UNCHANGED <<method, vvars>>, entry' = entry, Apt', NEW p \in Successors(at)
  PROVE  /\ p \in PCs /\ states[p] # NoState /\ Follows(StackAfter.stack, states[p].stack)
         /\ ReachedInOrder' => Len(StackAfter.stack) = Len(states[p].stack)
<1>. DEFINE i == Code[at]
            s == states[at]
            after == Apply(method, at, s)
<1>1. /\ Apt /\ s # NoState /\ Follows(StackAt, s.stack)
      /\ ReachedInOrder' => Len(StackAt) = Len(s.stack)
  BY StackAtFits
<1>2. /\ Certified(method, states) /\ IsMethod(method) /\ ~Subroutines
      /\ DOMAIN states = PCs /\ \A q \in PCs : IsState(method, states[q])
  <2>1. states = [q \in PCs |-> states[q]] /\ verdict = "ok"
    BY <1>1 DEF VerifierInv, Apt
  <2>. QED  BY <2>1, AcceptedCertified DEF VerifierInv, LoweringInv, LoweringShape
<1>3. /\ IsState(method, s) /\ IsState(method, after) /\ after # NoState
      /\ i.op \notin Leaves => Arrived(<<at + 1, after>>, states)
      /\ IsList(Targets(i, after))
      /\ \A j \in 1 .. Len(Targets(i, after)) : Arrived(<<Targets(i, after)[j], after>>, states)
  BY <1>1, <1>2, Exits DEF Code, PCs
<1>4. i.op \notin {"jsr", "ret", "return", "athrow"}
  BY <1>2, GoesOnAt
<1>5. Targets(i, after) = Targets(i, NoState)
  BY <1>4 DEF Targets
<1>6. Arrived(<<p, after>>, states)
  <2>. HIDE DEF after
  <2>1. \/ p = at + 1 /\ i.op \notin Leaves
        \/ \E j \in DOMAIN Targets(i, NoState) : p = Targets(i, NoState)[j]
    BY DEF Successors
  <2>2. DOMAIN Targets(i, after) = 1 .. Len(Targets(i, after))
    BY <1>3 DEF IsList
  <2>. QED  BY <1>3, <1>5, <2>1, <2>2
<1>7. p \in PCs /\ StateBelow(after, states[p])
  BY <1>2, <1>3, <1>6 DEF Arrived
<1>8. /\ states[p] # NoState /\ AllBelow(after.stack, states[p].stack)
      /\ IsList(states[p].stack) /\ Full(states[p].stack)
  BY <1>2, <1>3, <1>7 DEF StateBelow, IsState, Full
<1>9. Agrees(StackAfter, StackAt, s.stack, after.stack)
  <2>1. LoadAgreesAt(at)
    BY <1>1 DEF Apt, LoadsAgree, LoadAgreesAt
  <2>. QED  BY <1>1, <1>2, <1>3, <1>4, <2>1, LowersAsVerified DEF StackAfter
<1>10. /\ Follows(StackAfter.stack, after.stack)
       /\ Len(StackAt) = Len(s.stack) => Len(StackAfter.stack) = Len(after.stack)
  BY <1>9 DEF Agrees, Lowered1
<1>. HIDE DEF after, s
<1>11. Follows(StackAfter.stack, states[p].stack) /\ Len(after.stack) = Len(states[p].stack)
  BY <1>8, <1>10, FollowsBelow
<1>. QED  BY <1>1, <1>7, <1>8, <1>10, <1>11

LEMMA LowerKeeps ==
  ASSUME LoweringInv, VerifierInv, Supported(method), LowerOne, UNCHANGED <<method, vvars>>
  PROVE  LoweringInv'
<1>1. compiled = "lowering" /\ at \in PCs /\ entry' = entry
  BY LowerOneIs
<1>2. CASE compiled' = "refused" /\ UNCHANGED <<at, current, signatures, recorded>>
  BY <1>1, <1>2, LoweringStays
<1>3. CASE Lowered1
  <2>1. /\ recorded' = [pc \in PCs |-> recorded'[pc]] /\ signatures' = [pc \in PCs |-> signatures'[pc]]
        /\ recorded'[at] = StackAt /\ \A pc \in PCs : pc # at => recorded'[pc] = recorded[pc]
        /\ \A pc \in PCs : signatures'[pc] = IF pc \in TargetsAt THEN StackAfter.stack ELSE signatures[pc]
        /\ at \in Nat /\ \A pc \in PCs : pc \in Nat
    BY <1>1, <1>3, OneMoreLowered DEF LoweringInv
  <2>2. /\ PCs' = PCs /\ states' = states /\ verdict' = verdict
        /\ Subroutines' = Subroutines /\ \A pc : Successors(pc)' = Successors(pc)
    BY OneMethod
  <2>3. /\ at' = at + 1 /\ compiled' = compiled
        /\ current' = [live |-> ~Terminates(Code[at]) /\ TargetsAt = {}, stack |-> StackAfter.stack]
    BY <1>3 DEF Lowered1
  <2>4. \A pc \in PCs : IsLowered(pc)' => IsLowered(pc) \/ pc = at
    BY <2>1 DEF IsLowered
  <2>5. LoweringShape /\ ~Subroutines /\ IsMethod(method)
    BY <1>1 DEF LoweringInv, LoweringShape, VerifierInv
  <2>6. LoweringShape'
    <3>1. \A pc \in PCs : IsLowered(pc)' => pc < at + 1
      BY <1>1, <2>1, <2>4, <2>5 DEF LoweringShape
    <3>. QED  BY <1>1, <2>1, <2>2, <2>3, <2>5, <3>1 DEF LoweringShape
  <2>7. ASSUME Apt' PROVE LoweringMatches'
    <3>1. /\ LoweringMatches /\ (ReachedInOrder' => ReachedInOrder)
          /\ states[at] # NoState /\ Follows(StackAt, states[at].stack)
          /\ ReachedInOrder' => Len(StackAt) = Len(states[at].stack)
      BY <1>1, <1>3, <2>7, StackAtFits
    <3>2. ASSUME NEW p \in Successors(at)
          PROVE  /\ p \in PCs /\ states[p] # NoState /\ Follows(StackAfter.stack, states[p].stack)
                 /\ ReachedInOrder' => Len(StackAfter.stack) = Len(states[p].stack)
      BY <1>1, <1>3, <2>7, StackAfterFits
    <3>3. /\ TargetsAt \subseteq Successors(at)
          /\ ~Terminates(Code[at]) => Successors(at) = {at + 1}
          /\ \A p \in Successors(at) : p \in PCs => p \in TargetsAt \/ (p = at + 1 /\ ~Terminates(Code[at]) /\ TargetsAt = {})
      BY <1>1, <2>5, GoesOnAt
    <3>4. ASSUME NEW pc \in PCs, IsLowered(pc)' PROVE Matches(recorded[pc], pc)'
      <4>1. CASE pc = at
        BY <2>1, <2>2, <3>1, <4>1 DEF Matches
      <4>2. CASE pc # at
        <5>1. IsLowered(pc) /\ recorded'[pc] = recorded[pc]
          BY <2>1, <2>4, <3>4, <4>2
        <5>2. Matches(recorded[pc], pc)
          BY <3>1, <5>1 DEF LoweringMatches
        <5>. QED  BY <2>2, <3>1, <5>1, <5>2 DEF Matches
      <4>. QED  BY <4>1, <4>2
    <3>5. ASSUME NEW pc \in PCs, signatures'[pc] # Unrecorded PROVE Matches(signatures[pc], pc)'
      <4>1. CASE pc \in TargetsAt
        <5>1. signatures'[pc] = StackAfter.stack /\ pc \in Successors(at)
          BY <2>1, <3>3, <4>1
        <5>. QED  BY <2>2, <3>2, <5>1 DEF Matches
      <4>2. CASE pc \notin TargetsAt
        <5>1. signatures'[pc] = signatures[pc]
          BY <2>1, <4>2
        <5>2. Matches(signatures[pc], pc)
          BY <3>1, <3>5, <5>1 DEF LoweringMatches
        <5>. QED  BY <2>2, <3>1, <5>1, <5>2 DEF Matches
      <4>. QED  BY <4>1, <4>2
    <3>6. (current.live /\ at \in PCs => Matches(current.stack, at))'
      <4>1. SUFFICES ASSUME current'.live, at + 1 \in PCs PROVE Matches(current.stack, at)'
        BY <2>2, <2>3
      <4>2. at + 1 \in Successors(at)
        BY <2>3, <3>3, <4>1
      <4>3. current'.stack = StackAfter.stack
        BY <2>3
      <4>. QED  BY <2>2, <2>3, <3>2, <4>2, <4>3 DEF Matches
    <3>7. ASSUME NEW q \in PCs, IsLowered(q)' PROVE Announced(q)'
      <4>1. ASSUME NEW p \in PCs, p \in Successors(q), p >= at + 1
            PROVE  signatures'[p] # Unrecorded \/ (p = at + 1 /\ current'.live)
        <5>1. CASE p \in TargetsAt
          <6>1. p \in Successors(at)
            BY <3>3, <5>1
          <6>2. signatures'[p] = StackAfter.stack
            BY <2>1, <5>1
          <6>3. StackAfter.stack # Unrecorded
            BY <3>2, <6>1, FollowsIsRecorded
          <6>. QED  BY <6>2, <6>3
        <5>2. CASE p \notin TargetsAt /\ q = at
          BY <2>3, <3>3, <4>1, <5>2
        <5>3. CASE p \notin TargetsAt /\ q # at
          <6>1. IsLowered(q)
            BY <2>4, <3>7, <5>3
          <6>2. Announced(q)
            BY <1>1, <3>1, <6>1 DEF LoweringMatches
          <6>3. p >= at /\ p # at
            BY <2>1, <4>1
          <6>4. signatures'[p] = signatures[p]
            BY <2>1, <5>3
          <6>. QED  BY <4>1, <6>2, <6>3, <6>4 DEF Announced
        <5>. QED  BY <5>1, <5>2, <5>3
      <4>. QED  BY <2>2, <2>3, <4>1 DEF Announced
    <3>. QED  BY <2>2, <3>4, <3>5, <3>6, <3>7 DEF LoweringMatches
  <2>. QED  BY <2>6, <2>7 DEF LoweringInv
<1>. QED  BY <1>2, <1>3, LowerOneIs

LEMMA StartKeeps ==
  ASSUME LoweringInv, VerifierInv, UNCHANGED <<method, vvars>>, verdict = "ok",
         NEW pc \in PCs, states[pc] # NoState, Len(states[pc].stack) = 0,
         NEW loop \in BOOLEAN, StartLowering(pc, loop),
         signatures' = signatures \/ signatures' = [signatures EXCEPT ![pc] = <<>>]
  PROVE  LoweringInv'
<1>1. /\ PCs' = PCs /\ states' = states /\ verdict' = verdict
      /\ Subroutines' = Subroutines
  BY OneMethod
<1>2. /\ compiled = "no" /\ entry' = pc /\ at' = pc
      /\ compiled' = IF Subroutines THEN "refused" ELSE "lowering"
      /\ current' = [live |-> ~loop, stack |-> <<>>]
      /\ recorded' = recorded
  BY DEF StartLowering
<1>3. LoweringShape
  BY DEF LoweringInv
<1>4. \A p \in PCs : recorded'[p] = Unrecorded /\ signatures[p] = Unrecorded
  BY <1>2, <1>3 DEF LoweringShape
<1>5. /\ signatures' = [p \in PCs |-> signatures'[p]]
      /\ \A p \in PCs : signatures'[p] # Unrecorded => p = pc /\ signatures'[p] = <<>>
  <2>1. signatures = [p \in PCs |-> signatures[p]]
    BY <1>3 DEF LoweringShape
  <2>. QED  BY <1>4, <2>1
<1>6. pc \in Nat
  BY DEF PCs
<1>7. LoweringShape'
  BY <1>1, <1>2, <1>3, <1>4, <1>5, <1>6 DEF LoweringShape, IsLowered
<1>8. Follows(<<>>, states[pc].stack) /\ Len(<<>>) = 0
  BY FollowsNothing DEF VerifierInv, IsState
<1>9. LoweringMatches'
  <2>1. \A p \in PCs : ~IsLowered(p)'
    BY <1>4 DEF IsLowered
  <2>2. ASSUME NEW p \in PCs, signatures'[p] # Unrecorded PROVE Matches(signatures[p], p)'
    BY <1>1, <1>5, <1>8, <2>2 DEF Matches
  <2>3. Matches(current.stack, at)'
    BY <1>1, <1>2, <1>8 DEF Matches
  <2>. QED  BY <1>1, <2>1, <2>2, <2>3 DEF LoweringMatches
<1>. QED  BY <1>7, <1>9 DEF LoweringInv

LEMMA CompileKeeps ==
  ASSUME LoweringInv, ExecutionInv, Compile
  PROVE  LoweringInv'
<1>. DEFINE f == Head(frames)
<1>1. /\ phase = "run" /\ outcome.is = "running" /\ Len(frames) = 1 /\ f.stack = <<>>
      /\ StartMethod \/ (f.pc \in LoopHeads /\ StartLoop(f.pc))
      /\ UNCHANGED <<method, vvars>>
  BY DEF Compile, Running
<1>2. VerifierInv /\ verdict = "ok" /\ Stacked(frames) /\ FrameFits(frames[1])
  BY <1>1 DEF ExecutionInv, RunsAt
<1>3. CASE StartMethod
  <2>1. 1 \in PCs
    BY <1>2 DEF VerifierInv, IsMethod, IsList, PCs, Code
  <2>2. states[1] # NoState /\ Len(states[1].stack) = 0
    <3>1. At(InitialLocals(method), <<>>) # NoState /\ At(InitialLocals(method), <<>>).stack = <<>>
      BY DEF At, NoState
    <3>2. StateBelow(At(InitialLocals(method), <<>>), states[1])
      BY <1>2 DEF VerifierInv
    <3>3. states[1] # NoState /\ AllBelow(<<>>, states[1].stack)
      BY <3>1, <3>2 DEF StateBelow
    <3>. QED  BY <3>3 DEF AllBelow
  <2>3. StartLowering(1, FALSE) /\ signatures' = signatures
    BY <1>3 DEF StartMethod
  <2>. QED  BY <1>1, <1>2, <2>1, <2>2, <2>3, StartKeeps
<1>4. CASE f.pc \in LoopHeads /\ StartLoop(f.pc)
  <2>1. f = frames[1] /\ f.m = "main"
    BY <1>1, <1>2, TailOf DEF Stacked
  <2>. HIDE DEF f
  <2>2. StatesOf(f) = states /\ MethodOf(f) = method
    BY <2>1 DEF StatesOf, MethodOf
  <2>3. /\ f.pc \in PCs /\ states[f.pc] # NoState
        /\ AllCovered(states[f.pc].stack, f.stack)
    BY <1>2, <2>1, <2>2 DEF FrameFits, LocalsFit, PCs, Code
  <2>4. Len(states[f.pc].stack) = 0
    BY <1>1, <2>3 DEF AllCovered, f
  <2>5. StartLowering(f.pc, TRUE) /\ signatures' = [signatures EXCEPT ![f.pc] = <<>>]
    BY <1>4 DEF StartLoop
  <2>. QED  BY <1>1, <1>2, <2>3, <2>4, <2>5, StartKeeps
<1>. QED  BY <1>1, <1>3, <1>4

-----------------------------------------------------------------------------
(* Verified, interpreted, compiled, and back.                               *)
CompiledInv ==
  /\ VerifierInv /\ Supported(method) /\ LoweringInv
  /\ phase \in {"verify", "run", "compiled", "resumed"}
  /\ phase \in {"verify", "run"} => ExecutionInv /\ jit.is = "off"
  /\ phase = "verify" => compiled = "no"
  /\ phase # "verify" => verdict = "ok"

LEMMA CompiledInitInv == CompiledInit => CompiledInv
<1>. SUFFICES ASSUME CompiledInit PROVE CompiledInv
  OBVIOUS
<1>1. ExecutionInv /\ phase = "verify"
  BY VerifierInitInv DEF CompiledInit, ExecutionInit, ExecutionInv
<1>2. LoweringInv
  BY DEF CompiledInit, InitLowering, LoweringInv, LoweringShape
<1>3. compiled = "no" /\ jit.is = "off"
  BY DEF CompiledInit, InitLowering, JitOff
<1>. QED  BY <1>1, <1>2, <1>3 DEF ExecutionInv, CompiledInv

LEMMA CompiledOrNot ==
  ASSUME CompiledInv
  PROVE  /\ phase \in {"verify", "run"} => ExecutionInv
         /\ LoweringInv /\ VerifierInv /\ Supported(method)
BY DEF CompiledInv

\* The steps that do not look at the method again.
LEMMA SameMethod ==
  ASSUME CompiledInv, UNCHANGED <<method, vvars>>
  PROVE  VerifierInv' /\ Supported(method)' /\ verdict' = verdict
<1>1. method' = method /\ verdict' = verdict
  BY DEF vvars
<1>2. VerifierInv'
  BY VerifierInvKept DEF CompiledInv
<1>3. Supported(method)'
  BY <1>1 DEF CompiledInv, Supported, Linked
<1>. QED  BY <1>1, <1>2, <1>3

LEMMA VerifyOrStartKeeps ==
  ASSUME CompiledInv, Verify \/ Start, UNCHANGED <<lvars, jit>>
  PROVE  CompiledInv'
<1>1. phase = "verify" /\ compiled = "no" /\ ExecutionInv /\ jit.is = "off" /\ LoweringInv
  BY DEF CompiledInv, Verify, Start
<1>2. ExecutionInv' /\ phase' \in {"verify", "run"} /\ jit'.is = "off" /\ compiled' = "no" /\ method' = method
  BY <1>1, VerifyStep, StartStep DEF Verify, Start, lvars
<1>3. VerifierInv' /\ Supported(method)' /\ (phase' # "verify" => verdict' = "ok")
  BY <1>2 DEF ExecutionInv
<1>4. LoweringInv'
  <2>1. PCs' = PCs
    BY <1>2 DEF PCs, Code
  <2>2. recorded' = recorded /\ signatures' = signatures
    BY DEF lvars
  <2>. QED  BY <1>1, <1>2, <2>1, <2>2 DEF LoweringInv, LoweringShape
<1>. QED  BY <1>2, <1>3, <1>4 DEF CompiledInv

LEMMA CompileStep ==
  ASSUME CompiledInv, Compile
  PROVE  CompiledInv'
<1>1. /\ phase = "run" /\ phase' = phase /\ jit' = jit
      /\ UNCHANGED <<method, vvars>> /\ UNCHANGED xvars
  BY DEF Compile, xvars
<1>2. ExecutionInv /\ jit.is = "off"
  BY <1>1 DEF CompiledInv
<1>3. LoweringInv'
  BY <1>2, CompileKeeps DEF CompiledInv
<1>4. ExecutionInv'
  BY <1>1, <1>2, ExecutionStutters
<1>. QED  BY <1>1, <1>2, <1>3, <1>4, SameMethod DEF CompiledInv

LEMMA LowerStep ==
  ASSUME CompiledInv, Lower
  PROVE  CompiledInv'
<1>1. /\ UNCHANGED <<method, vvars>> /\ UNCHANGED xvars /\ phase' = phase /\ jit' = jit
      /\ SkipDead \/ LowerOne \/ FinishLowering
  BY DEF Lower, xvars
<1>2. compiled = "lowering"
  BY <1>1 DEF SkipDead, LowerOne, FinishLowering
<1>3. LoweringInv'
  <2>1. CASE SkipDead
    BY <1>1, <2>1, SkipKeeps DEF CompiledInv
  <2>2. CASE LowerOne
    BY <1>1, <2>2, LowerKeeps DEF CompiledInv
  <2>3. CASE FinishLowering
    <3>1. /\ UNCHANGED <<entry, at, signatures, recorded>>
          /\ compiled # "no" /\ compiled' \in {"refused", "yes", "used"}
      BY <1>2, <2>3 DEF FinishLowering
    <3>. QED  BY <1>1, <3>1, LoweringStays DEF CompiledInv
  <2>. QED  BY <1>1, <2>1, <2>2, <2>3
<1>4. phase \in {"verify", "run"} => ExecutionInv'
  BY <1>1, ExecutionStutters DEF CompiledInv
<1>. QED  BY <1>1, <1>2, <1>3, <1>4, SameMethod DEF CompiledInv

LEMMA InterpretedStep ==
  ASSUME CompiledInv, RunInterpreted
  PROVE  CompiledInv'
<1>1. UNCHANGED lvars /\ jit' = jit /\ compiled' = compiled
  BY DEF RunInterpreted, lvars
<1>2. UNCHANGED <<method, vvars>> /\ phase' = phase /\ phase \in {"run", "resumed"}
  BY DEF RunInterpreted, Interpret
<1>3. phase = "run" => Interpret
  BY DEF RunInterpreted
<1>4. LoweringInv'
  <2>1. UNCHANGED <<method, vvars, entry, at, signatures, recorded>> /\ compiled' = compiled /\ current' = current
    BY <1>1, <1>2 DEF lvars
  <2>. QED  BY <2>1, LoweringStays DEF CompiledInv
<1>5. phase = "run" => ExecutionInv'
  BY <1>3, InterpretStep DEF CompiledInv
<1>. QED  BY <1>1, <1>2, <1>4, <1>5, SameMethod DEF CompiledInv

LEMMA JitStep ==
  ASSUME CompiledInv, RunJit
  PROVE  CompiledInv'
<1>1. UNCHANGED <<method, vvars>>
  BY DEF RunJit
<1>2. /\ UNCHANGED <<entry, at, signatures, recorded>>
      /\ \/ compiled' = compiled /\ current' = current
         \/ compiled # "no" /\ compiled' \in {"refused", "yes", "used"}
  BY DEF RunJit, EnterJit, RunCompiled, Complete, Forget, lvars
<1>3. LoweringInv'
  <2>1. UNCHANGED <<method, vvars, entry, at, signatures, recorded>>
    BY <1>1, <1>2
  <2>. QED  BY <1>2, <2>1, LoweringStays DEF CompiledInv
<1>4. phase' \in {"compiled", "resumed"} /\ phase # "verify"
  <2>1. CASE EnterJit /\ phase' = "compiled"
    BY <2>1 DEF EnterJit, CompiledInv
  <2>2. CASE jit.is # "off" /\ phase' \in {phase, "resumed"}
    BY <2>2 DEF CompiledInv
  <2>. QED  BY <2>1, <2>2 DEF RunJit, RunCompiled, Complete, Forget
<1>. QED  BY <1>1, <1>3, <1>4, SameMethod DEF CompiledInv

LEMMA CompiledStutters == CompiledInv /\ UNCHANGED vars => CompiledInv'
<1>. SUFFICES ASSUME CompiledInv, UNCHANGED vars PROVE CompiledInv'
  OBVIOUS
<1>1. /\ UNCHANGED <<method, vvars>> /\ UNCHANGED xvars /\ phase' = phase /\ jit' = jit
      /\ UNCHANGED <<method, vvars, entry, at, signatures, recorded>>
      /\ compiled' = compiled /\ current' = current
  BY DEF vars, xvars, lvars
<1>2. LoweringInv'
  BY <1>1, LoweringStays DEF CompiledInv
<1>3. phase \in {"verify", "run"} => ExecutionInv'
  BY <1>1, ExecutionStutters DEF CompiledInv
<1>. QED  BY <1>1, <1>2, <1>3, SameMethod DEF CompiledInv

LEMMA CompiledInvariant == CompiledSpec => []CompiledInv
<1>1. CompiledInv /\ [CompiledNext]_vars => CompiledInv'
  BY CompiledStutters, VerifyOrStartKeeps, CompileStep, LowerStep, InterpretedStep, JitStep DEF CompiledNext
<1>. QED  BY <1>1, CompiledInitInv, PTL DEF CompiledSpec

(* What the compiler has on its stack at each instruction it lowers is the   *)
(* top of what the verifier found there, and all of it when nothing is       *)
(* lowered before it is jumped to; for every method, whatever the order of   *)
(* its blocks, if it is compiled from its start or from a loop, and no code  *)
(* without a flow to it is lowered (compiler.rs 197-244, 551-609 with        *)
(* verify.rs 50-116).                                                        *)
THEOREM JitStackIsTopCorrect == CompiledSpec => []JitStackIsTop
<1>1. CompiledInv => JitStackIsTop
  <2>. SUFFICES ASSUME CompiledInv, Apt, NEW pc \in PCs, IsLowered(pc)
                PROVE  /\ TopOf(recorded[pc], states[pc].stack)
                       /\ ReachedInOrder => Len(recorded[pc]) = Len(states[pc].stack)
    BY DEF JitStackIsTop, Apt
  <2>1. compiled # "no"
    BY DEF CompiledInv, LoweringInv, LoweringShape, IsLowered
  <2>2. Matches(recorded[pc], pc)
    BY <2>1 DEF CompiledInv, LoweringInv, LoweringMatches
  <2>. QED  BY <2>2 DEF Matches, Follows
<1>. QED  BY <1>1, CompiledInvariant, PTL

(* With the compiler at work verification keeps its promise as long as the   *)
(* method is interpreted: its states are a post-fixed point, they cover the  *)
(* frame that executes, and no error of the VM but those it does not look    *)
(* for comes up (verify.rs 50-116 with mod.rs 5272-5448).                    *)
THEOREM InterpretedAsVerified ==
  CompiledSpec => [](AcceptedIsFixedPoint /\ StatesCoverExecution /\ VerifiedCodeIsSafe)
<1>1. CompiledInv => AcceptedIsFixedPoint
  BY DEF CompiledInv, VerifierInv
<1>2. CompiledInv => StatesCoverExecution
  BY RunningIsCovered DEF CompiledInv, StatesCoverExecution
<1>3. CompiledInv => VerifiedCodeIsSafe
  BY RunningIsSafe DEF CompiledInv, VerifiedCodeIsSafe
<1>. QED  BY <1>1, <1>2, <1>3, CompiledInvariant, PTL
=============================================================================
