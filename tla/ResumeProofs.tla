---------------------------- MODULE ResumeProofs ----------------------------
(***************************************************************************)
(* What the interpreter is given when compiled code is left, for every     *)
(* method and whatever the helpers ask for: the frame rebuilt from the     *)
(* buffer is one the verifier saw.                                         *)
(*                                                                         *)
(* The argument has five parts.  The compiler walks over the code once;    *)
(* what holds behind it (WalkInv) makes an instruction go on only to       *)
(* instructions lowered with what it leaves, or before anything came to    *)
(* them.  The verifier finds in a slot only what was stored there          *)
(* (StoredStates), so that a slot of one kind is declared as that kind.    *)
(* Hence the buffer decoded by the compiler's snapshots is the frame the   *)
(* compiled code had.  While it runs that frame is one the verifier saw    *)
(* (Held), because a helper does what the interpreter would.  All of it,   *)
(* with VerifierProofs on the interpreter's own steps, is the invariant    *)
(* ResumeInv.                                                              *)
(***************************************************************************)
EXTENDS VerifierProofs

-----------------------------------------------------------------------------
(* The words of the compiler's stack.  Only instanceof leaves a byte.       *)
Tests == \E pc \in PCs : Code[pc].op = "instanceof"
Word(v) == v[1] \in {"I32", "I64", "F32", "F64"} \/ (v = I8 /\ Tests)
Words(s) == IsList(s) /\ \A j \in 1 .. Len(s) : Word(s[j])

LEMMA LoweredIsWord == (\A t : Word(Lowered(t))) /\ (\A k : Word(LoweredKind(k))) /\ Word(I64) /\ Word(I32)
<1>1. Word(I32) /\ Word(I64) /\ Word(Long64) /\ Word(F32) /\ Word(F64)
  BY DEF Word, I32, I64, Long64, F32, F64
<1>2. \A t : Lowered(t) \in {I32, I64, Long64, F32, F64}
  BY DEF Lowered
<1>3. \A k : LoweredKind(k) \in {I32, I64, Long64, F32, F64}
  BY <1>2 DEF LoweredKind
<1>. QED  BY <1>1, <1>2, <1>3

LEMMA WordsAreRecorded ==
  ASSUME NEW s, Words(s)
  PROVE  s # Unrecorded
<1>1. SUFFICES ASSUME s = Unrecorded PROVE FALSE
  OBVIOUS
<1>2. Len(Unrecorded) = 1 /\ Unrecorded[1] = <<"none", 0>>
  BY DEF Unrecorded
<1>3. Word(<<"none", 0>>)
  BY <1>1, <1>2 DEF Words
<1>. QED  BY <1>3 DEF Word, I8

LEMMA ShortWords == Words(<<>>) /\ \A v : Word(v) => Words(<<v>>)
BY ShortLists DEF Words

LEMMA WordsJoined ==
  ASSUME NEW s, NEW t, Words(s), Words(t)
  PROVE  Words(s \o t)
<1>1. IsList(s) /\ IsList(t) /\ Len(s) \in Nat /\ Len(t) \in Nat
  BY DEF Words, IsList
<1>2. IsList(s \o t) /\ Len(s \o t) = Len(s) + Len(t)
  BY <1>1, Joined
<1>3. ASSUME NEW j \in 1 .. Len(s) + Len(t) PROVE Word((s \o t)[j])
  <2>1. CASE j <= Len(s)
    <3>1. j \in 1 .. Len(s)
      BY <1>1, <2>1
    <3>2. (s \o t)[j] = s[j]
      BY <1>1, <3>1, Joined
    <3>. QED  BY <3>1, <3>2 DEF Words
  <2>2. CASE j > Len(s)
    <3>. DEFINE k == j - Len(s)
    <3>1. k \in 1 .. Len(t) /\ j = Len(s) + k
      BY <1>1, <2>2
    <3>2. (s \o t)[Len(s) + k] = t[k]
      BY <1>1, <3>1, Joined
    <3>. QED  BY <3>1, <3>2 DEF Words
  <2>. QED  BY <1>1, <2>1, <2>2
<1>. QED  BY <1>2, <1>3 DEF Words

LEMMA WordsPushed ==
  ASSUME NEW stack, Words(stack), NEW n \in Nat, NEW push, Words(push),
         NEW r \in {Refused, Popped(stack, n, push)}, r.ok
  PROVE  Words(r.stack)
<1>1. IsList(stack) /\ Len(stack) \in Nat
  BY DEF Words, IsList
<1>2. ~(Len(stack) < n) /\ r.stack = push \o Below(stack, n)
  BY DEF Refused, Popped
<1>3. n <= Len(stack)
  BY <1>1, <1>2
<1>4. Words(Below(stack, n))
  <2>1. /\ IsList(Below(stack, n)) /\ Len(Below(stack, n)) = Len(stack) - n
        /\ \A j \in 1 .. Len(stack) - n : Below(stack, n)[j] = stack[n + j]
    BY <1>1, <1>3, Rest
  <2>2. \A j \in 1 .. Len(stack) - n : n + j \in 1 .. Len(stack)
    BY <1>1, <1>3
  <2>. QED  BY <2>1, <2>2 DEF Words
<1>. QED  BY <1>2, <1>4, WordsJoined

LEMMA TestsWord ==
  ASSUME NEW pc \in PCs, Code[pc].op = "instanceof"
  PROVE  Word(I8)
BY DEF Word, Tests

LEMMA EmptyList ==
  ASSUME NEW s, IsList(s), Len(s) = 0
  PROVE  s = <<>>
BY DEF IsList

\* Cranelift has a variable of one of four types for a local.
LEMMA LocalsAreWords ==
  ASSUME IsMethod(method), NEW n \in Nat
  PROVE  LocalVarType(n) \in {"I32", "I64", "F32", "F64"}
<1>1. \A t : Lowered(t)[1] \in {"I32", "I64", "F32", "F64"}
  BY DEF Lowered, I32, I64, Long64, F32, F64
<1>2. \A k : LoweredKind(k)[1] \in {"I32", "I64", "F32", "F64"}
  BY <1>1 DEF LoweredKind, I64
<1>3. InferType(n) \in {"I32", "I64", "F32", "F64"}
  BY <1>2 DEF InferType, FirstStored, I64, I32
<1>. DEFINE size == IF method.params = <<>> THEN 0
                    ELSE SlotOf(method.params, Len(method.params))
                           + (IF Wide(method.params[Len(method.params)]) THEN 1 ELSE 0)
<1>4. \E f : ArgSlots = [k \in 1 .. size |-> Lowered(f[k])]
  BY DEF ArgSlots
<1>5. n < Len(ArgSlots) => ArgSlots[n + 1][1] \in {"I32", "I64", "F32", "F64"}
  <2>1. size \in Nat
    <3>1. CASE method.params # <<>>
      <4>1. Len(method.params) \in Nat
        BY DEF IsMethod, AreTypes, IsList
      <4>2. Len(method.params) # 0
        BY <3>1, EmptyList DEF IsMethod, AreTypes
      <4>3. SlotOf(method.params, Len(method.params)) \in Nat
        <5>1. Len(method.params) + 1 \in Nat /\ Len(method.params) < Len(method.params) + 1
          BY <4>1
        <5>. QED  BY <4>1, <4>2, <5>1, SlotsApart
      <4>. QED  BY <3>1, <4>3
    <3>. QED  BY <3>1
  <2>. HIDE DEF size
  <2>2. Len(ArgSlots) = size
    BY <1>4, <2>1
  <2>. QED  BY <1>1, <1>4, <2>1, <2>2
<1>. QED  BY <1>3, <1>5 DEF LocalVarType

LEMMA LoadedIsWord ==
  ASSUME NEW declared, declared[1] \in {"I32", "I64", "F32", "F64"}, NEW want, want[1] \in {"I32", "I64", "F32", "F64"}
  PROVE  Word(Loaded(declared, want))
BY DEF Word, Loaded

\* What is put on the stack by an instruction that does not rearrange it.
PushesWords(i) ==
  \A stack : \E n \in Nat : \E push : Words(push) /\ LowerOpcode(i, stack) \in {Refused, Popped(stack, n, push)}

LEMMA PushesOne ==
  ASSUME NEW i, NEW n \in Nat, NEW v, Word(v),
         \A stack : LowerOpcode(i, stack) \in {Refused, Popped(stack, n, <<v>>)}
  PROVE  PushesWords(i)
BY ShortWords DEF PushesWords

LEMMA PushesNone ==
  ASSUME NEW i, NEW n \in Nat,
         \A stack : LowerOpcode(i, stack) \in {Refused, Popped(stack, n, <<>>)}
  PROVE  PushesWords(i)
BY ShortWords DEF PushesWords

LEMMA PushesByOpcode ==
  ASSUME IsMethod(method), NEW pc \in PCs, IsInstruction(Code[pc]),
         Code[pc].op \notin StackOps \cup {"jsr", "ret"}
  PROVE  PushesWords(Code[pc])
<1>. DEFINE i == Code[pc]
<1>. USE DEF StackOps, Fields
<1>1. CASE i.op \in {"bin", "div", "neg", "shift"}
  <2>. DEFINE n == IF i.op = "neg" THEN 1 ELSE 2
              v == LoweredKind(i.k)
  <2>1. i.k = "I" => v = I32
    BY DEF LoweredKind, Lowered, TypeOf, IntT, LongT, FloatT, DoubleT
  <2>2. i.k = "J" => v = Long64
    BY DEF LoweredKind, Lowered, TypeOf, IntT, LongT, FloatT, DoubleT
  <2>3. \A stack : LowerOpcode(i, stack) = LowerArithmetic(i, stack)
    BY <1>1 DEF LowerOpcode
  <2>. HIDE DEF i, v
  <2>4. ASSUME NEW stack PROVE LowerArithmetic(i, stack) \in {Refused, Popped(stack, n, <<v>>)}
    <3>1. CASE i.op = "shift"
      <4>1. i.k \in {"I", "J"}
        BY <3>1 DEF IsInstruction, i
      <4>2. LowerArithmetic(i, stack) = IF i.k = "I" THEN LowerIntShift(stack) ELSE LowerLongShift(stack)
        BY <3>1 DEF LowerArithmetic
      <4>. QED  BY <2>1, <2>2, <3>1, <4>1, <4>2, TypedIs DEF LowerIntShift, LowerLongShift
    <3>2. CASE i.op # "shift" /\ i.k = "I"
      <4>1. LowerArithmetic(i, stack) = LowerIntArithmetic(i, stack)
        BY <3>2 DEF LowerArithmetic
      <4>. QED  BY <1>1, <2>1, <3>2, <4>1, TypedIs DEF LowerIntArithmetic
    <3>3. CASE i.op = "neg" /\ i.k # "I"
      <4>1. LowerArithmetic(i, stack) = LowerWideNegation(i, stack)
        BY <3>3 DEF LowerArithmetic
      <4>. QED  BY <3>3, <4>1, TypedIs DEF LowerWideNegation, v
    <3>4. CASE i.op \in {"bin", "div"} /\ i.k # "I"
      <4>1. LowerArithmetic(i, stack) = LowerWideArithmetic(i, stack)
        BY <3>4 DEF LowerArithmetic
      <4>. QED  BY <3>4, <4>1, TypedIs DEF LowerWideArithmetic, v
    <3>. QED  BY <1>1, <3>1, <3>2, <3>3, <3>4 DEF i
  <2>5. n \in Nat /\ Word(v)
    BY LoweredIsWord DEF v
  <2>. HIDE DEF n
  <2>6. PushesWords(i)
    BY <2>3, <2>4, <2>5, PushesOne
  <2>. QED  BY <2>6 DEF i
<1>2. CASE i.op = "conv"
  <2>. DEFINE v == LoweredKind(i.to)
  <2>1. \A stack : LowerOpcode(i, stack) \in {Refused, Popped(stack, 1, <<v>>)}
    BY <1>2 DEF LowerOpcode, LowerConversion
  <2>2. Word(v)
    BY LoweredIsWord
  <2>. HIDE DEF i, v
  <2>3. PushesWords(i)
    BY <2>1, <2>2, PushesOne
  <2>. QED  BY <2>3 DEF i
<1>3. CASE i.op = "invoke"
  <2>. DEFINE n == Len(i.args) + IF i.mode \in {"static", "dynamic"} THEN 0 ELSE 1
              push == HelperResult(i)
  <2>1. n \in Nat /\ Len(i.r) \in Nat
    <3>. HIDE DEF i
    <3>1. IsList(i.args) /\ IsList(i.r)
      <4>1. IsInstruction(i)
        BY DEF i
      <4>2. i.op = "invoke"
        BY <1>3 DEF i
      <4>. QED  BY <4>1, <4>2 DEF IsInstruction, AreTypes
    <3>2. Len(i.args) \in Nat /\ Len(i.r) \in Nat
      BY <3>1 DEF IsList
    <3>3. \A a \in Nat : (a + IF i.mode \in {"static", "dynamic"} THEN 0 ELSE 1) \in Nat
      OBVIOUS
    <3>. QED  BY <3>2, <3>3 DEF i
  <2>2. Words(push)
    <3>1. IsList(push) /\ Len(push) = Len(i.r)
      BY <2>1, ListOf DEF HelperResult
    <3>2. \A j \in 1 .. Len(i.r) : Word(push[j])
      BY LoweredIsWord DEF HelperResult
    <3>. QED  BY <3>1, <3>2 DEF Words
  <2>3. ASSUME NEW stack PROVE LowerOpcode(i, stack) = Popped(stack, n, push)
    <3>1. LowerOpcode(i, stack) = LowerInvoke(i, stack)
      BY <1>3 DEF LowerOpcode
    <3>2. Len(i.args) \in Nat
      BY <1>3 DEF IsInstruction, AreTypes, IsList
    <3>3. CASE i.mode \in {"static", "dynamic"}
      <4>1. n = Len(i.args)
        BY <3>2, <3>3
      <4>2. LowerInvoke(i, stack) = Popped(stack, Len(i.args), HelperResult(i))
        BY <3>3 DEF LowerInvoke, LowerStaticCall, LowerDynamicCall, HelperArgs
      <4>. QED  BY <3>1, <4>1, <4>2
    <3>4. CASE i.mode \notin {"static", "dynamic"}
      <4>1. n = Len(i.args) + 1
        BY <3>4
      <4>2. LowerInvoke(i, stack) = Popped(stack, Len(i.args) + 1, HelperResult(i))
        BY <3>4 DEF LowerInvoke, LowerInterfaceCall, LowerInstanceCall, HelperArgs
      <4>. QED  BY <3>1, <4>1, <4>2
    <3>. QED  BY <3>3, <3>4
  <2>. HIDE DEF n, push, i
  <2>4. PushesWords(i)
    BY <2>1, <2>2, <2>3 DEF PushesWords
  <2>. QED  BY <2>4 DEF i
<1>4. CASE i.op = "load"
  <2>. DEFINE v == Loaded(LocalVar(i.n), LoweredKind(i.k))
  <2>1. \A stack : LowerOpcode(i, stack) \in {Refused, Popped(stack, 0, <<v>>)}
    BY <1>4 DEF LowerOpcode, LowerLoad
  <2>2. Word(v)
    <3>1. LocalVar(i.n)[1] \in {"I32", "I64", "F32", "F64"}
      BY <1>4, LocalsAreWords DEF LocalVar, IsInstruction
    <3>2. LoweredKind(i.k)[1] \in {"I32", "I64", "F32", "F64"}
      BY DEF LoweredKind, Lowered, I32, I64, Long64, F32, F64
    <3>. QED  BY <3>1, <3>2, LoadedIsWord
  <2>. HIDE DEF i, v
  <2>3. PushesWords(i)
    BY <2>1, <2>2, PushesOne
  <2>. QED  BY <2>3 DEF i
<1>5. CASE i.op \in {"const", "getstatic", "new"}
  <2>. DEFINE v == IF i.op = "new" THEN I64 ELSE Lowered(i.t)
  <2>1. \A stack : LowerOpcode(i, stack) \in {Refused, Popped(stack, 0, <<v>>)}
    BY <1>5 DEF LowerOpcode, LowerConst, LowerStaticField, LowerNew
  <2>2. Word(v)
    BY LoweredIsWord
  <2>. HIDE DEF i, v
  <2>3. PushesWords(i)
    BY <2>1, <2>2, PushesOne
  <2>. QED  BY <2>3 DEF i
<1>6. CASE i.op \in {"arraylength", "instanceof", "checkcast", "getfield"}
  <2>. DEFINE v == CASE i.op = "arraylength" -> I32 [] i.op = "instanceof" -> I8
                     [] i.op = "checkcast" -> I64 [] OTHER -> Lowered(i.t)
  <2>1. \A stack : LowerOpcode(i, stack) \in {Refused, Popped(stack, 1, <<v>>)}
    BY <1>6 DEF LowerOpcode, LowerTypeTest, LowerInstanceField, LowerNew
  <2>2. Word(v)
    BY <1>6, LoweredIsWord, TestsWord
  <2>. HIDE DEF i, v
  <2>3. PushesWords(i)
    BY <2>1, <2>2, PushesOne
  <2>. QED  BY <2>3 DEF i
<1>7. CASE i.op \in {"cmp", "arrayload"}
  <2>. DEFINE v == IF i.op = "cmp" THEN I32 ELSE LoweredKind(i.k)
  <2>1. \A stack : LowerOpcode(i, stack) \in {Refused, Popped(stack, 2, <<v>>)}
    BY <1>7, TypedIs DEF LowerOpcode, LowerCompare, LowerArrayLoad
  <2>2. Word(v)
    BY LoweredIsWord
  <2>. HIDE DEF i, v
  <2>3. PushesWords(i)
    BY <2>1, <2>2, PushesOne
  <2>. QED  BY <2>3 DEF i
<1>8. CASE i.op = "newarray"
  <2>1. i.n \in Nat /\ \A stack : LowerOpcode(i, stack) \in {Refused, Popped(stack, i.n, <<I64>>)}
    BY <1>8 DEF LowerOpcode, LowerNew, IsInstruction
  <2>. HIDE DEF i
  <2>2. PushesWords(i)
    BY <2>1, LoweredIsWord, PushesOne
  <2>. QED  BY <2>2 DEF i
<1>9. CASE i.op = "if"
  <2>1. i.n \in Nat /\ \A stack : LowerOpcode(i, stack) \in {Refused, Popped(stack, i.n, <<>>)}
    BY <1>9, TypedIs DEF LowerOpcode, LowerIf, IsInstruction
  <2>. HIDE DEF i
  <2>2. PushesWords(i)
    BY <2>1, PushesNone
  <2>. QED  BY <2>2 DEF i
<1>10. CASE i.op \in {"iinc", "goto"}
  <2>1. \A stack : LowerOpcode(i, stack) \in {Refused, Popped(stack, 0, <<>>)}
    BY <1>10 DEF LowerOpcode, LowerIinc
  <2>. HIDE DEF i
  <2>2. PushesWords(i)
    BY <2>1, PushesNone
  <2>. QED  BY <2>2 DEF i
<1>11. CASE i.op \in {"store", "switch", "putstatic", "monitor", "athrow"}
  <2>1. \A stack : LowerOpcode(i, stack) \in {Refused, Popped(stack, 1, <<>>)}
    BY <1>11, TypedIs DEF LowerOpcode, LowerStore, LowerSwitch, LowerStaticField, LowerMonitor, LowerAthrow
  <2>. HIDE DEF i
  <2>2. PushesWords(i)
    BY <2>1, PushesNone
  <2>. QED  BY <2>2 DEF i
<1>12. CASE i.op = "putfield"
  <2>1. \A stack : LowerOpcode(i, stack) \in {Refused, Popped(stack, 2, <<>>)}
    BY <1>12 DEF LowerOpcode, LowerInstanceField
  <2>. HIDE DEF i
  <2>2. PushesWords(i)
    BY <2>1, PushesNone
  <2>. QED  BY <2>2 DEF i
<1>13. CASE i.op = "arraystore"
  <2>1. \A stack : LowerOpcode(i, stack) \in {Refused, Popped(stack, 3, <<>>)}
    BY <1>13 DEF LowerOpcode, LowerArrayStore
  <2>. HIDE DEF i
  <2>2. PushesWords(i)
    BY <2>1, PushesNone
  <2>. QED  BY <2>2 DEF i
<1>14. CASE i.op = "return"
  <2>. DEFINE n == IF i.k = "V" THEN 0 ELSE 1
  <2>1. n \in Nat /\ \A stack : LowerOpcode(i, stack) \in {Refused, Popped(stack, n, <<>>)}
    BY <1>14, TypedIs DEF LowerOpcode, LowerReturn
  <2>. HIDE DEF i, n
  <2>2. PushesWords(i)
    BY <2>1, PushesNone
  <2>. QED  BY <2>2 DEF i
<1>15. i.op \in Opcodes
  BY DEF IsInstruction
<1>. QED
  BY <1>1, <1>2, <1>3, <1>4, <1>5, <1>6, <1>7, <1>8, <1>9, <1>10, <1>11, <1>12, <1>13, <1>14, <1>15 DEF Opcodes

LEMMA ShuffleWords ==
  ASSUME NEW i, i.op \in StackOps, NEW stack, Words(stack), LowerOpcode(i, stack).ok
  PROVE  Words(LowerOpcode(i, stack).stack)
<1>. DEFINE forms == IF i.op \in {"dup2_x1", "dup2_x2"} THEN WideForms(i) ELSE Forms(i)
            match == {f \in forms : /\ Len(f[1]) <= Len(stack)
                                    /\ \A j \in 1 .. Len(f[1]) : stack[j][2] = f[1][j]}
            r == LowerOpcode(i, stack)
<1>1. r = Rearranged(forms, stack)
  <2>1. CASE i.op \in {"dup2_x1", "dup2_x2"}
    BY <2>1 DEF LowerOpcode, LowerWideShuffle
  <2>2. CASE i.op \notin {"dup2_x1", "dup2_x2"}
    BY <2>2 DEF LowerOpcode, LowerShuffle, StackOps
  <2>. QED  BY <2>1, <2>2
<1>2. \A f \in forms : Picks(f)
  BY FormsPick
<1>. HIDE DEF r, forms
<1>3. match # {}
  BY <1>1 DEF Rearranged, Refused, r
<1>4. PICK f \in match : r = Popped(stack, Len(f[1]), Permute(stack, f[2]))
  BY <1>1, <1>3 DEF Rearranged
<1>5. Picks(f) /\ Len(f[1]) \in Nat /\ Len(f[1]) <= Len(stack) /\ Len(f[2]) \in Nat
  BY <1>2 DEF Picks, IsList
<1>. DEFINE push == Permute(stack, f[2])
            n == Len(f[1])
<1>6. IsList(push) /\ Len(push) = Len(f[2])
  BY <1>5, ListOf DEF Permute
<1>7. ASSUME NEW j \in 1 .. Len(f[2]) PROVE Word(push[j])
  <2>1. f[2][j] \in 1 .. Len(stack)
    <3>1. f[2][j] \in 1 .. n /\ Len(stack) \in Nat
      BY <1>5 DEF Picks, Words, IsList
    <3>. QED  BY <1>5, <3>1
  <2>. QED  BY <2>1 DEF Words, Permute
<1>. HIDE DEF push, n
<1>8. Words(push)
  BY <1>6, <1>7 DEF Words
<1>9. r = Popped(stack, n, push) /\ n \in Nat
  BY <1>4, <1>5 DEF n, push
<1>10. r.ok => Words(r.stack)
  BY <1>8, <1>9, WordsPushed
<1>. QED  BY <1>10 DEF r

LEMMA LowersWords ==
  ASSUME IsMethod(method), NEW pc \in PCs, Code[pc].op \notin {"jsr", "ret"}, NEW stack, Words(stack),
         LowerOpcode(Code[pc], stack).ok
  PROVE  Words(LowerOpcode(Code[pc], stack).stack)
<1>1. IsInstruction(Code[pc])
  <2>1. pc \in DOMAIN method.code
    BY DEF PCs, Code, IsMethod, IsList
  <2>. QED  BY <2>1 DEF IsMethod, Code
<1>2. CASE Code[pc].op \in StackOps
  BY <1>2, ShuffleWords
<1>3. CASE Code[pc].op \notin StackOps
  <2>1. PushesWords(Code[pc])
    BY <1>1, <1>3, PushesByOpcode
  <2>2. PICK n \in Nat : \E push : Words(push) /\ LowerOpcode(Code[pc], stack) \in {Refused, Popped(stack, n, push)}
    BY <2>1 DEF PushesWords
  <2>. QED  BY <2>2, WordsPushed
<1>. QED  BY <1>2, <1>3

-----------------------------------------------------------------------------
(* The walk, edge by edge.  What an instruction leaves on the compiler's    *)
(* stack is what every instruction after it was or will be lowered with.    *)
After(q) == LowerOpcode(Code[q], recorded[q])

\* Nothing lowered before p goes on there.
NoneBefore(p) == \A q \in PCs : q < p /\ IsLowered(q) => p \notin Successors(q)

\* The stack after q has come to p: as the signature of its block, or straight.
Sent(q, p) ==
  \/ signatures[p] = After(q).stack
  \/ /\ p \notin BranchTargets
     /\ \/ IsLowered(p) /\ recorded[p] = After(q).stack
        \/ p = at /\ current.live /\ current.stack = After(q).stack

Walked == compiled \in {"lowering", "yes", "used"}

\* A block is lowered with its signature, or with nothing when it had none yet.
BlockTaken(p) ==
  \/ signatures[p] # Unrecorded /\ recorded[p] = signatures[p]
  \/ recorded[p] = <<>> /\ NoneBefore(p)

WalkLowered ==
  \A pc \in PCs : IsLowered(pc) => /\ pc >= entry /\ Words(recorded[pc]) /\ After(pc).ok
                                   /\ pc \in BranchTargets => BlockTaken(pc)
WalkSigned ==
  \A pc \in PCs : signatures[pc] # Unrecorded => pc \in BranchTargets /\ pc >= entry /\ Words(signatures[pc])
WalkAt ==
  /\ entry <= at /\ ~Subroutines
  /\ current.live => Words(current.stack)
  /\ at = entry => IF osr THEN ~current.live /\ signatures[entry] = <<>>
                   ELSE current.live /\ current.stack = <<>>
  /\ at # entry /\ at \in PCs /\ current.live => at \notin BranchTargets
WalkTargets == \A p \in PCs : p \in BranchTargets /\ entry <= p /\ p < at => IsLowered(p)
WalkSent == \A q \in PCs : IsLowered(q) => \A p \in Successors(q) : p \in PCs => Sent(q, p)

WalkInv ==
  /\ compiled \in {"no", "lowering", "yes", "used", "refused"}
  /\ Walked =>
     /\ WalkLowered /\ WalkSigned /\ WalkTargets /\ WalkSent
     /\ compiled = "lowering" => WalkAt
     /\ compiled # "lowering" => at \notin PCs /\ entry <= at /\ ~Subroutines
     /\ IsLowered(entry) => recorded[entry] = <<>>

LEMMA TargetsAreBranches ==
  ASSUME IsMethod(method), at \in PCs, ~Subroutines, entry <= at
  PROVE  /\ TargetsAt \subseteq BranchTargets
         /\ ~Terminates(Code[at]) /\ TargetsAt = {} /\ at + 1 \in PCs => at + 1 \notin BranchTargets
<1>. DEFINE i == Code[at]
<1>1. BranchTargetsOf(at) \subseteq BranchTargets
  BY DEF BranchTargets
<1>2. i.op \notin {"jsr", "ret"}
  BY DEF Subroutines
<1>3. CASE i.op = "if"
  BY <1>1, <1>3 DEF TargetsAt, BranchTargetsOf, Terminates
<1>4. CASE i.op = "goto"
  <2>1. Targets(i, NoState) = <<i.to>> /\ DOMAIN <<i.to>> = {1}
    BY <1>4 DEF Targets
  <2>2. {Targets(i, NoState)[j] : j \in DOMAIN Targets(i, NoState)} = {i.to}
    BY <2>1
  <2>3. TargetsAt = {Targets(i, NoState)[j] : j \in DOMAIN Targets(i, NoState)}
    BY <1>4 DEF TargetsAt, Terminates
  <2>4. BranchTargetsOf(at) = {i.to}
    BY <1>4 DEF BranchTargetsOf
  <2>. QED  BY <1>1, <1>4, <2>2, <2>3, <2>4 DEF Terminates
<1>5. CASE i.op = "switch"
  <2>1. Targets(i, NoState) = i.tos
    BY <1>5 DEF Targets
  <2>2. TargetsAt = {Targets(i, NoState)[j] : j \in DOMAIN Targets(i, NoState)}
    BY <1>5 DEF TargetsAt, Terminates
  <2>3. BranchTargetsOf(at) = SwitchTargets(i)
    BY <1>5 DEF BranchTargetsOf
  <2>. QED  BY <1>1, <1>5, <2>1, <2>2, <2>3 DEF Terminates, SwitchTargets
<1>6. CASE i.op \notin {"if", "goto", "switch"}
  BY <1>6 DEF TargetsAt, Terminates
<1>. QED  BY <1>3, <1>4, <1>5, <1>6

\* All that jump to a block bring the same stack, and nothing jumps before the entry.
LEMMA SameAtTargets ==
  ASSUME LowerOne, compiled' # "refused"
  PROVE  Lowered1 /\ \A t \in TargetsAt : t >= entry /\ signatures[t] \in {Unrecorded, StackAfter.stack}
<1>. DEFINE reached == Reaches(TargetsAt, StackAfter.stack)
<1>1. StackAfter.ok /\ reached.ok
  BY DEF LowerOne, StackAt, StackAfter, TargetsAt
<1>2. \A t \in TargetsAt : t >= entry /\ SameSignature(t, StackAfter.stack)
  BY <1>1 DEF Reaches
<1>3. Lowered1
  BY LowerOneIs
<1>. QED  BY <1>2, <1>3 DEF SameSignature

LEMMA WalkBranches ==
  ASSUME UNCHANGED <<method, vvars, entry>>
  PROVE  BranchTargets' = BranchTargets
<1>1. PCs' = PCs /\ Code' = Code
  BY OneMethod
<1>2. \A pc : BranchTargetsOf(pc)' = BranchTargetsOf(pc)
  BY <1>1 DEF BranchTargetsOf
<1>. QED  BY <1>1, <1>2 DEF BranchTargets

\* What an instruction makes of a stack depends on the method alone.
LEMMA OneMethodLowers ==
  ASSUME method' = method
  PROVE  \A i, stack : LowerOpcode(i, stack)' = LowerOpcode(i, stack)
<1>1. \A n : LocalVar(n)' = LocalVar(n)
  BY DEF LocalVar, LocalVarType, LocalVarKind, ArgSlots, InferType, InferKind, FirstStored, PCs, Code
<1>. QED  BY <1>1 DEF LowerOpcode, LowerLoad, LowerStore, LowerIinc

LEMMA TestsKept ==
  ASSUME UNCHANGED <<method, vvars>>
  PROVE  /\ Tests' = Tests /\ \A v : Word(v)' = Word(v)
         /\ \A s : Words(s)' = Words(s)
<1>1. PCs' = PCs /\ Code' = Code
  BY OneMethod
<1>2. Tests' = Tests
  BY <1>1 DEF Tests
<1>3. \A v : Word(v)' = Word(v)
  BY <1>2 DEF Word
<1>. QED  BY <1>2, <1>3 DEF Words

\* The compiler's stack after an instruction is of words.
LEMMA AfterWords ==
  ASSUME IsMethod(method), ~Subroutines, NEW q \in PCs, Words(recorded[q]), After(q).ok
  PROVE  Words(After(q).stack) /\ After(q).stack # Unrecorded
<1>1. Code[q].op \notin {"jsr", "ret"}
  BY DEF Subroutines
<1>2. Words(After(q).stack)
  BY <1>1, LowersWords DEF After
<1>. QED  BY <1>2, WordsAreRecorded

LEMMA WalkKept ==
  ASSUME WalkInv, UNCHANGED <<method, vvars, entry, osr, at, signatures, recorded>>,
         \/ compiled' = compiled /\ current' = current
         \/ compiled' = "refused"
         \/ compiled \in {"yes", "used"} /\ compiled' = "used"
  PROVE  WalkInv'
<1>1. /\ PCs' = PCs /\ Code' = Code /\ Subroutines' = Subroutines
      /\ \A pc : Successors(pc)' = Successors(pc)
  BY OneMethod
<1>2. BranchTargets' = BranchTargets
  BY WalkBranches
<1>3. \A s : Words(s)' = Words(s)
  BY TestsKept
<1>4. CASE compiled' = "refused"
  BY <1>4 DEF WalkInv, Walked
<1>5. CASE Walked /\ Walked'
  <2>1. \A pc : IsLowered(pc)' = IsLowered(pc)
    BY DEF IsLowered
  <2>2. \A q : After(q)' = After(q)
    BY <1>1, OneMethodLowers DEF After
  <2>3. \A p : NoneBefore(p)' = NoneBefore(p)
    BY <1>1, <2>1 DEF NoneBefore
  <2>4. \A p : BlockTaken(p)' = BlockTaken(p)
    BY <2>3 DEF BlockTaken
  <2>5. WalkLowered'
    BY <1>1, <1>2, <1>3, <1>5, <2>1, <2>2, <2>4 DEF WalkInv, WalkLowered
  <2>6. WalkSigned' /\ WalkTargets'
    BY <1>1, <1>2, <1>3, <1>5, <2>1 DEF WalkInv, WalkSigned, WalkTargets
  <2>7. compiled' = "lowering" => WalkAt' /\ current' = current
    BY <1>1, <1>2, <1>3, <1>5 DEF WalkInv, WalkAt
  <2>8. compiled' # "lowering" => at' \notin PCs' /\ entry' <= at' /\ ~Subroutines'
    BY <1>1, <1>5 DEF WalkInv, Walked
  <2>9. ASSUME NEW q \in PCs, NEW p \in PCs, IsLowered(q), p \in Successors(q) PROVE Sent(q, p)'
    <3>1. Sent(q, p)
      BY <1>5, <2>9 DEF WalkInv, WalkSent
    <3>2. CASE compiled' = "lowering"
      <4>1. current' = current
        BY <2>7, <3>2
      <4>. QED  BY <1>2, <2>1, <2>2, <3>1, <4>1 DEF Sent
    <3>3. CASE compiled' # "lowering"
      <4>1. compiled # "lowering"
        BY <1>5, <3>3 DEF Walked
      <4>2. p # at
        BY <1>5, <4>1 DEF WalkInv
      <4>. QED  BY <1>2, <2>1, <2>2, <3>1, <4>2 DEF Sent
    <3>. QED  BY <3>2, <3>3
  <2>10. WalkSent'
    BY <1>1, <2>1, <2>9 DEF WalkSent
  <2>11. IsLowered(entry)' => recorded'[entry'] = <<>>
    BY <1>5, <2>1 DEF WalkInv
  <2>12. (compiled \in {"no", "lowering", "yes", "used", "refused"})'
    BY DEF WalkInv
  <2>. QED  BY <2>5, <2>6, <2>7, <2>8, <2>10, <2>11, <2>12 DEF WalkInv
<1>6. CASE ~Walked'
  <2>1. (compiled \in {"no", "lowering", "yes", "used", "refused"})'
    BY DEF WalkInv
  <2>. QED  BY <1>6, <2>1 DEF WalkInv
<1>. QED  BY <1>4, <1>5, <1>6 DEF Walked

LEMMA WalkStarts ==
  ASSUME WalkInv, LoweringShape, UNCHANGED <<method, vvars>>, NEW pc \in PCs, NEW loop \in BOOLEAN,
         StartLowering(pc, loop),
         signatures' = IF loop THEN [signatures EXCEPT ![pc] = <<>>] ELSE signatures
  PROVE  WalkInv'
<1>1. /\ PCs' = PCs /\ Code' = Code /\ Subroutines' = Subroutines
      /\ \A p : Successors(p)' = Successors(p)
  BY OneMethod
<1>2. /\ compiled = "no" /\ entry' = pc /\ at' = pc /\ osr' = loop /\ recorded' = recorded
      /\ compiled' = IF Subroutines THEN "refused" ELSE "lowering"
      /\ current' = [live |-> ~loop, stack |-> <<>>]
  BY DEF StartLowering
<1>3. \A p \in PCs : recorded[p] = Unrecorded /\ signatures[p] = Unrecorded
  BY <1>2 DEF LoweringShape
<1>4. DOMAIN signatures = PCs
  BY DEF LoweringShape
<1>5. CASE Subroutines
  BY <1>2, <1>5 DEF WalkInv, Walked
<1>6. CASE ~Subroutines
  <2>1. ~Subroutines' /\ compiled' = "lowering"
    BY <1>1, <1>2, <1>6
  <2>2. \A p \in PCs : ~IsLowered(p)'
    BY <1>2, <1>3 DEF IsLowered
  <2>3. \A p \in PCs : signatures'[p] # Unrecorded => p = pc /\ signatures'[p] = <<>>
    BY <1>3, <1>4
  <2>4. Words(<<>>)'
    BY ShortWords, TestsKept
  <2>5. pc \in BranchTargets'
    BY <1>2 DEF BranchTargets
  <2>6. pc \in Nat
    BY DEF PCs
  <2>7. WalkLowered' /\ WalkSent' /\ WalkTargets'
    <3>1. WalkLowered' /\ WalkSent'
      BY <1>1, <2>2 DEF WalkLowered, WalkSent
    <3>2. \A p \in PCs : ~(pc <= p /\ p < pc)
      BY <2>6 DEF PCs
    <3>. QED  BY <1>1, <1>2, <3>1, <3>2 DEF WalkTargets
  <2>8. WalkSigned'
    <3>1. \A s : Words(s)' = Words(s)
      BY TestsKept
    <3>2. Words(<<>>)
      BY ShortWords
    <3>3. \A p \in PCs : signatures'[p] # Unrecorded => p \in BranchTargets' /\ p >= entry' /\ Words(signatures'[p])
      BY <1>2, <2>3, <2>5, <2>6, <3>2
    <3>. QED  BY <1>1, <3>1, <3>3 DEF WalkSigned
  <2>9. WalkAt'
    <3>1. loop => signatures'[pc] = <<>>
      BY <1>4
    <3>2. entry' = pc /\ at' = pc /\ osr' = loop /\ current'.live = ~loop /\ current'.stack = <<>>
      BY <1>2
    <3>3. entry' <= at'
      BY <2>6, <3>2
    <3>4. current'.live => Words(current.stack)'
      BY <3>2, <2>4 DEF Words
    <3>. QED  BY <2>1, <3>1, <3>2, <3>3, <3>4 DEF WalkAt
  <2>10. ~IsLowered(entry)'
    BY <1>2, <2>2 DEF IsLowered
  <2>. QED  BY <2>1, <2>7, <2>8, <2>9, <2>10 DEF WalkInv
<1>. QED  BY <1>5, <1>6

LEMMA WalkSkips ==
  ASSUME WalkInv, LoweringShape, UNCHANGED <<method, vvars>>, SkipDead
  PROVE  WalkInv'
<1>1. /\ PCs' = PCs /\ Code' = Code /\ Subroutines' = Subroutines
      /\ \A pc : Successors(pc)' = Successors(pc)
  BY OneMethod
<1>2. /\ compiled = "lowering" /\ ~current.live /\ at \notin BranchTargets /\ at' = at + 1
      /\ UNCHANGED <<entry, osr, current, signatures, recorded, compiled>>
  BY DEF SkipDead
<1>3. at \in Nat /\ entry \in Nat /\ entry <= at /\ ~Subroutines /\ \A p \in PCs : p \in Nat
  BY <1>2 DEF LoweringShape, WalkInv, Walked, WalkAt, PCs
<1>4. BranchTargets' = BranchTargets
  BY <1>2, WalkBranches
<1>5. \A s : Words(s)' = Words(s)
  BY TestsKept
<1>6. \A pc : IsLowered(pc)' = IsLowered(pc)
  BY <1>2 DEF IsLowered
<1>7. \A q : After(q)' = After(q)
  BY <1>1, <1>2, OneMethodLowers DEF After
<1>8. \A p : BlockTaken(p)' = BlockTaken(p)
  BY <1>1, <1>2, <1>6 DEF BlockTaken, NoneBefore
<1>9. WalkLowered /\ WalkSigned /\ WalkTargets /\ WalkSent /\ WalkAt
  BY <1>2 DEF WalkInv, Walked
<1>10. WalkLowered'
  BY <1>1, <1>2, <1>4, <1>5, <1>6, <1>7, <1>8, <1>9 DEF WalkLowered
<1>11. WalkSigned'
  BY <1>1, <1>2, <1>4, <1>5, <1>9 DEF WalkSigned
<1>12. WalkTargets'
  BY <1>1, <1>2, <1>3, <1>4, <1>6, <1>9 DEF WalkTargets
<1>13. WalkAt'
  BY <1>1, <1>2, <1>3 DEF WalkAt
<1>14. \A q, p : Sent(q, p) => Sent(q, p)'
  BY <1>2, <1>4, <1>6, <1>7 DEF Sent
<1>15. WalkSent'
  BY <1>1, <1>6, <1>9, <1>14 DEF WalkSent
<1>16. IsLowered(entry)' => recorded'[entry'] = <<>>
  BY <1>2, <1>6 DEF WalkInv, Walked
<1>17. compiled' = "lowering"
  BY <1>2
<1>. QED  BY <1>10, <1>11, <1>12, <1>13, <1>15, <1>16, <1>17 DEF WalkInv

LEMMA WalkEnds ==
  ASSUME WalkInv, LoweringShape, UNCHANGED <<method, vvars>>, FinishLowering
  PROVE  WalkInv'
<1>1. /\ PCs' = PCs /\ Code' = Code /\ Subroutines' = Subroutines
      /\ \A pc : Successors(pc)' = Successors(pc)
  BY OneMethod
<1>2. /\ compiled = "lowering" /\ at \notin PCs
      /\ compiled' = IF current.live THEN "refused" ELSE "yes"
      /\ UNCHANGED <<entry, osr, at, current, signatures, recorded>>
  BY DEF FinishLowering
<1>3. BranchTargets' = BranchTargets
  BY <1>2, WalkBranches
<1>4. \A s : Words(s)' = Words(s)
  BY TestsKept
<1>5. \A pc : IsLowered(pc)' = IsLowered(pc)
  BY <1>2 DEF IsLowered
<1>6. \A q : After(q)' = After(q)
  BY <1>1, <1>2, OneMethodLowers DEF After
<1>7. \A p : BlockTaken(p)' = BlockTaken(p)
  BY <1>1, <1>2, <1>5 DEF BlockTaken, NoneBefore
<1>8. WalkLowered /\ WalkSigned /\ WalkTargets /\ WalkSent /\ WalkAt
  BY <1>2 DEF WalkInv, Walked
<1>9. WalkLowered'
  BY <1>1, <1>2, <1>3, <1>4, <1>5, <1>6, <1>7, <1>8 DEF WalkLowered
<1>10. WalkSigned'
  BY <1>1, <1>2, <1>3, <1>4, <1>8 DEF WalkSigned
<1>11. WalkTargets'
  BY <1>1, <1>2, <1>3, <1>5, <1>8 DEF WalkTargets
<1>12. \A q, p : Sent(q, p) => Sent(q, p)'
  BY <1>2, <1>3, <1>5, <1>6 DEF Sent
<1>13. WalkSent'
  BY <1>1, <1>5, <1>8, <1>12 DEF WalkSent
<1>14. IsLowered(entry)' => recorded'[entry'] = <<>>
  BY <1>2, <1>5 DEF WalkInv, Walked
<1>15. at' \notin PCs' /\ entry' <= at' /\ ~Subroutines'
  BY <1>1, <1>2, <1>8 DEF WalkAt
<1>16. compiled' \in {"refused", "yes"}
  BY <1>2
<1>. QED  BY <1>9, <1>10, <1>11, <1>13, <1>14, <1>15, <1>16 DEF WalkInv

LEMMA WalkLowers ==
  ASSUME WalkInv, LoweringShape, IsMethod(method), UNCHANGED <<method, vvars>>, LowerOne
  PROVE  WalkInv'
<1>1. CASE compiled' = "refused"
  BY <1>1 DEF WalkInv, Walked
<1>2. CASE compiled' # "refused"
  <2>1. /\ PCs' = PCs /\ Code' = Code /\ Subroutines' = Subroutines
        /\ \A pc : Successors(pc)' = Successors(pc)
    BY OneMethod
  <2>2. /\ Lowered1 /\ compiled = "lowering" /\ compiled' = "lowering" /\ at \in PCs
        /\ UNCHANGED <<entry, osr>> /\ at' = at + 1
        /\ current' = [live |-> ~Terminates(Code[at]) /\ TargetsAt = {}, stack |-> StackAfter.stack]
    BY <1>2, LowerOneIs, SameAtTargets DEF Lowered1, LowerOne
  <2>3. StackAfter.ok /\ \A t \in TargetsAt : t >= entry /\ signatures[t] \in {Unrecorded, StackAfter.stack}
    BY <1>2, SameAtTargets DEF Lowered1
  <2>4. /\ recorded'[at] = StackAt /\ \A pc \in PCs : pc # at => recorded'[pc] = recorded[pc]
        /\ \A pc \in PCs : signatures'[pc] = IF pc \in TargetsAt THEN StackAfter.stack ELSE signatures[pc]
        /\ ~IsLowered(at) /\ at \in Nat /\ \A pc \in PCs : pc \in Nat
    BY <2>2, OneMoreLowered
  <2>5. BranchTargets' = BranchTargets
    BY <2>2, WalkBranches
  <2>6. \A s : Words(s)' = Words(s)
    BY TestsKept
  <2>7. WalkLowered /\ WalkSigned /\ WalkTargets /\ WalkSent /\ WalkAt /\ ~Subroutines /\ entry <= at /\ entry \in Nat
    BY <2>2, <2>4 DEF WalkInv, Walked, WalkAt, LoweringShape
  <2>8. /\ TargetsAt \subseteq BranchTargets
        /\ ~Terminates(Code[at]) /\ TargetsAt = {} /\ at + 1 \in PCs => at + 1 \notin BranchTargets
    BY <2>2, <2>7, TargetsAreBranches
  <2>9. \A p \in Successors(at) : p \in PCs => p \in TargetsAt \/ (p = at + 1 /\ ~Terminates(Code[at]) /\ TargetsAt = {})
    BY <2>2, <2>7, GoesOnAt
  <2>10. Words(StackAt)
    <3>1. CASE current.live
      BY <2>7, <3>1 DEF WalkAt, StackAt
    <3>2. CASE ~current.live
      BY <2>2, <2>7, <3>2, ShortWords DEF WalkSigned, StackAt, Restored
    <3>. QED  BY <3>1, <3>2
  <2>11. StackAfter = LowerOpcode(Code[at], StackAt)
    BY DEF StackAfter
  <2>12. Words(StackAfter.stack) /\ StackAfter.stack # Unrecorded /\ StackAt # Unrecorded
    <3>1. Code[at].op \notin {"jsr", "ret"}
      BY <2>2, <2>7 DEF Subroutines
    <3>2. Words(StackAfter.stack)
      BY <2>2, <2>3, <2>10, <2>11, <3>1, LowersWords
    <3>. QED  BY <2>10, <3>2, WordsAreRecorded
  <2>. HIDE DEF StackAt, StackAfter, TargetsAt, Lowered1
  <2>0. PICK a : a = at
    OBVIOUS
  <2>13. IsLowered(a)' /\ \A pc \in PCs : pc # at => (IsLowered(pc)' <=> IsLowered(pc))
    BY <2>0, <2>2, <2>4, <2>12 DEF IsLowered
  <2>14. (After(a)' = StackAfter) /\ \A q \in PCs : q # at => After(q)' = After(q)
    BY <2>0, <2>1, <2>2, <2>4, <2>11, OneMethodLowers DEF After
  <2>15. \A pc \in PCs : signatures[pc] # Unrecorded => signatures'[pc] = signatures[pc]
    BY <2>3, <2>4
  <2>16. \A q \in PCs : IsLowered(q) => q < at
    BY <2>2 DEF LoweringShape
  <2>17. ASSUME NEW q \in PCs, IsLowered(q) PROVE After(q).stack # Unrecorded /\ After(q).ok
    BY <2>2, <2>7, <2>17, AfterWords DEF WalkLowered
  <2>18. ASSUME NEW p \in PCs, p <= at, NoneBefore(p) PROVE NoneBefore(p)'
    BY <2>0, <2>1, <2>2, <2>4, <2>13, <2>18 DEF NoneBefore
  <2>19. a \in BranchTargets => BlockTaken(a)'
    <3>1. CASE current.live
      <4>1. at \in BranchTargets => at = entry /\ current.stack = <<>>
        BY <2>2, <2>7, <3>1 DEF WalkAt
      <4>2. at = entry => NoneBefore(at)
        BY <2>4, <2>7 DEF NoneBefore, WalkLowered
      <4>. QED  BY <2>0, <2>2, <2>4, <2>18, <3>1, <4>1, <4>2 DEF BlockTaken, StackAt
    <3>2. CASE ~current.live /\ signatures[at] # Unrecorded
      <4>1. StackAt = signatures[at] /\ signatures'[at] = signatures[at]
        BY <2>2, <2>15, <3>2 DEF StackAt, Restored
      <4>. QED  BY <2>0, <2>2, <2>4, <3>2, <4>1 DEF BlockTaken
    <3>3. CASE ~current.live /\ signatures[at] = Unrecorded
      <4>1. StackAt = <<>>
        BY <3>3 DEF StackAt, Restored
      <4>2. ASSUME at \in BranchTargets, NEW q \in PCs, IsLowered(q), at \in Successors(q) PROVE FALSE
        <5>1. Sent(q, at)
          BY <2>2, <2>7, <4>2 DEF WalkSent
        <5>. QED  BY <2>17, <3>3, <4>2, <5>1 DEF Sent
      <4>3. at \in BranchTargets => NoneBefore(at)
        BY <4>2 DEF NoneBefore
      <4>. QED  BY <2>0, <2>2, <2>4, <2>18, <4>1, <4>3 DEF BlockTaken
    <3>. QED  BY <3>1, <3>2, <3>3
  <2>20. ASSUME NEW p \in PCs, IsLowered(p), BlockTaken(p) PROVE BlockTaken(p)'
    <3>1. p < at /\ p # at /\ recorded'[p] = recorded[p]
      BY <2>4, <2>16, <2>20
    <3>. QED  BY <2>4, <2>15, <2>18, <2>20, <3>1 DEF BlockTaken
  <2>21. WalkLowered'
    <3>1. ASSUME NEW pc \in PCs, IsLowered(pc)'
          PROVE  /\ pc >= entry /\ Words(recorded'[pc]) /\ After(pc)'.ok
                 /\ pc \in BranchTargets => BlockTaken(pc)'
      <4>1. CASE pc = at
        BY <2>0, <2>2, <2>3, <2>4, <2>7, <2>10, <2>14, <2>19, <4>1
      <4>2. CASE pc # at
        BY <2>0, <2>4, <2>7, <2>13, <2>14, <2>20, <3>1, <4>2 DEF WalkLowered
      <4>. QED  BY <4>1, <4>2
    <3>2. \A pc : Words(recorded[pc])' = Words(recorded'[pc])
      BY <2>6 DEF Words, Word, Tests
    <3>. QED  BY <2>1, <2>2, <2>5, <3>1, <3>2 DEF WalkLowered
  <2>22. WalkSigned'
    <3>1. ASSUME NEW pc \in PCs, signatures'[pc] # Unrecorded
          PROVE  pc \in BranchTargets /\ pc >= entry /\ Words(signatures'[pc])
      <4>1. CASE pc \in TargetsAt
        BY <2>3, <2>4, <2>8, <2>12, <4>1
      <4>2. CASE pc \notin TargetsAt
        BY <2>4, <2>7, <3>1, <4>2 DEF WalkSigned
      <4>. QED  BY <4>1, <4>2
    <3>. QED  BY <2>1, <2>2, <2>5, <2>6, <3>1 DEF WalkSigned
  <2>23. WalkTargets'
    <3>1. \A p \in PCs : p < at + 1 => p < at \/ p = at
      BY <2>4
    <3>. QED  BY <2>0, <2>1, <2>2, <2>5, <2>7, <2>13, <3>1 DEF WalkTargets
  <2>24. WalkAt'
    <3>1. at + 1 # entry /\ entry <= at + 1
      BY <2>4, <2>7
    <3>. QED  BY <2>1, <2>2, <2>5, <2>6, <2>7, <2>8, <2>12, <3>1 DEF WalkAt
  <2>25. ASSUME NEW q \in PCs, NEW p \in PCs, IsLowered(q)', p \in Successors(q) PROVE Sent(q, p)'
    <3>1. CASE q = at
      <4>1. CASE p \in TargetsAt
        BY <2>0, <2>4, <2>14, <3>1, <4>1 DEF Sent
      <4>2. CASE p \notin TargetsAt
        <5>1. p = at + 1 /\ ~Terminates(Code[at]) /\ TargetsAt = {}
          BY <2>9, <2>25, <3>1, <4>2
        <5>2. p \notin BranchTargets'
          BY <2>5, <2>8, <2>25, <5>1
        <5>. QED  BY <2>0, <2>2, <2>14, <3>1, <5>1, <5>2 DEF Sent
      <4>. QED  BY <4>1, <4>2
    <3>2. CASE q # at
      <4>1. IsLowered(q) /\ After(q)' = After(q) /\ After(q).stack # Unrecorded
        BY <2>0, <2>13, <2>14, <2>17, <2>25, <3>2
      <4>2. Sent(q, p)
        BY <2>7, <2>25, <4>1 DEF WalkSent
      <4>3. CASE signatures[p] = After(q).stack
        BY <2>15, <4>1, <4>3 DEF Sent
      <4>4. CASE p \notin BranchTargets /\ IsLowered(p) /\ recorded[p] = After(q).stack
        <5>1. p # at
          BY <2>4, <4>4
        <5>. QED  BY <2>0, <2>4, <2>5, <2>13, <4>1, <4>4, <5>1 DEF Sent
      <4>5. CASE p \notin BranchTargets /\ p = at /\ current.live /\ current.stack = After(q).stack
        <5>1. recorded'[p] = After(q).stack
          BY <2>4, <4>5 DEF StackAt
        <5>. QED  BY <2>0, <2>5, <2>13, <4>1, <4>5, <5>1 DEF Sent
      <4>. QED  BY <4>2, <4>3, <4>4, <4>5 DEF Sent
    <3>. QED  BY <3>1, <3>2
  <2>26. WalkSent'
    BY <2>1, <2>25 DEF WalkSent
  <2>27. IsLowered(entry)' => recorded'[entry'] = <<>>
    <3>1. entry \in PCs /\ entry' = entry
      BY <2>2 DEF LoweringShape
    <3>2. CASE entry = at
      <4>1. StackAt = <<>>
        BY <2>2, <2>7, <2>12, <3>2 DEF WalkAt, StackAt, Restored
      <4>. QED  BY <2>4, <3>1, <3>2, <4>1
    <3>3. CASE entry # at
      <4>1. IsLowered(entry) => recorded[entry] = <<>>
        BY <2>2 DEF WalkInv, Walked
      <4>. QED  BY <2>0, <2>4, <2>13, <3>1, <3>3, <4>1 DEF IsLowered
    <3>. QED  BY <3>2, <3>3
  <2>. QED  BY <2>2, <2>21, <2>22, <2>23, <2>24, <2>26, <2>27 DEF WalkInv
<1>. QED  BY <1>1, <1>2

Compiled == compiled \in {"yes", "used"}

LEMMA AllPassed ==
  ASSUME WalkInv, LoweringShape, Compiled
  PROVE  /\ WalkLowered /\ WalkSigned /\ WalkTargets /\ WalkSent /\ ~Subroutines
         /\ at \notin PCs /\ entry \in PCs /\ \A p \in PCs : entry <= p => p < at
<1>1. WalkLowered /\ WalkSigned /\ WalkTargets /\ WalkSent /\ at \notin PCs /\ entry <= at /\ ~Subroutines
  BY DEF WalkInv, Walked, Compiled
<1>2. entry \in PCs /\ at \in Nat
  BY DEF LoweringShape, Compiled
<1>3. \A p \in PCs : p < at
  <2>1. PCs = 1 .. Len(Code)
    BY DEF PCs
  <2>2. CASE Len(Code) \in Int
    BY <1>1, <1>2, <2>1, <2>2
  <2>. QED  BY <1>1, <1>2, <2>1, <2>2
<1>. QED  BY <1>1, <1>2, <1>3

\* Compiled code flows as it was lowered: an instruction goes on to lowered ones,
\* which have its stack or were lowered before anything came to them.
LEMMA Flow ==
  ASSUME IsMethod(method), WalkInv, LoweringShape, Compiled, NEW q \in PCs, IsLowered(q),
         NEW p \in Successors(q), p \in PCs
  PROVE  /\ IsLowered(p)
         /\ recorded[p] = After(q).stack \/ (recorded[p] = <<>> /\ NoneBefore(p))
<1>1. /\ WalkLowered /\ WalkSigned /\ WalkTargets /\ WalkSent /\ ~Subroutines
      /\ at \notin PCs /\ \A x \in PCs : entry <= x => x < at
  BY AllPassed
<1>2. After(q).stack # Unrecorded
  BY <1>1, AfterWords DEF WalkLowered
<1>3. entry \in Int /\ p \in Int
  BY AllPassed DEF PCs
<1>4. CASE signatures[p] = After(q).stack
  <2>1. p \in BranchTargets /\ entry <= p /\ p < at
    BY <1>1, <1>2, <1>3, <1>4 DEF WalkSigned
  <2>2. IsLowered(p)
    BY <1>1, <2>1 DEF WalkTargets
  <2>3. BlockTaken(p)
    BY <1>1, <2>1, <2>2 DEF WalkLowered
  <2>. QED  BY <1>4, <2>2, <2>3 DEF BlockTaken
<1>5. CASE signatures[p] # After(q).stack
  BY <1>1, <1>5 DEF WalkSent, Sent
<1>. QED  BY <1>4, <1>5

LEMMA EntryLowered ==
  ASSUME WalkInv, LoweringShape, Compiled
  PROVE  IsLowered(entry) /\ recorded[entry] = <<>> /\ entry \in PCs
<1>1. WalkTargets /\ entry \in PCs /\ entry < at /\ entry \in Int
  BY AllPassed DEF PCs
<1>2. entry \in BranchTargets
  BY DEF BranchTargets
<1>3. IsLowered(entry)
  BY <1>1, <1>2 DEF WalkTargets
<1>. QED  BY <1>1, <1>3 DEF WalkInv, Walked, Compiled

\* An instruction is lowered with the whole of what the verifier found there.
Tracked(pc) == IsLowered(pc) /\ Follows(recorded[pc], states[pc].stack) /\ Len(recorded[pc]) = Len(states[pc].stack)

LEMMA TrackedOn ==
  ASSUME VerifierInv, verdict = "ok", WalkInv, LoweringShape, Compiled, ReachedInOrder,
         NEW q \in PCs, Tracked(q), states[q] # NoState, LoadAgreesAt(q),
         NEW p \in Successors(q), p \in PCs, StateBelow(Apply(method, q, states[q]), states[p]),
         Apply(method, q, states[q]) # NoState
  PROVE  Tracked(p)
<1>. DEFINE s == states[q]
            after == Apply(method, q, s)
<1>1. IsMethod(method) /\ IsState(method, s) /\ IsState(method, states[p])
  BY DEF VerifierInv
<1>2. Code[q].op \notin {"jsr", "ret", "return", "athrow"}
  <2>1. Code[q].op \notin {"jsr", "ret"}
    BY AllPassed DEF Subroutines
  <2>2. Code[q].op \in {"return", "athrow"} => Successors(q) = {}
    <3>1. Code[q].op \in {"return", "athrow"} => Targets(Code[q], NoState) = <<>>
      BY DEF Targets
    <3>2. DOMAIN <<>> = {}
      OBVIOUS
    <3>. QED  BY <3>1, <3>2 DEF Successors, Leaves
  <2>. QED  BY <2>1, <2>2
<1>3. Follows(recorded[q], s.stack) /\ Len(recorded[q]) = Len(s.stack)
  BY DEF Tracked
<1>4. Agrees(After(q), recorded[q], s.stack, after.stack)
  BY <1>1, <1>2, <1>3, LowersAsVerified DEF After
<1>5. After(q).ok
  BY AllPassed DEF WalkLowered, Tracked
<1>6. Follows(After(q).stack, after.stack) /\ Len(After(q).stack) = Len(after.stack)
  BY <1>3, <1>4, <1>5 DEF Agrees
<1>7. IsLowered(p) /\ (recorded[p] = After(q).stack \/ (recorded[p] = <<>> /\ NoneBefore(p)))
  BY <1>1, Flow DEF Tracked
<1>. HIDE DEF after, s
<1>8. /\ AllBelow(after.stack, states[p].stack) /\ IsList(states[p].stack) /\ Full(states[p].stack)
      /\ states[p] # NoState
  BY <1>1 DEF StateBelow, IsState, Full, after, s
<1>9. CASE recorded[p] = After(q).stack
  <2>1. Follows(recorded[p], states[p].stack) /\ Len(after.stack) = Len(states[p].stack)
    BY <1>6, <1>8, <1>9, FollowsBelow
  <2>. QED  BY <1>6, <1>7, <1>9, <2>1 DEF Tracked
<1>10. CASE recorded[p] = <<>> /\ NoneBefore(p)
  <2>1. states[p].stack = <<>>
    <3>1. \A x \in entry .. p - 1 : x \in PCs /\ x < p
      <4>1. entry \in PCs /\ PCs = 1 .. Len(Code) /\ p \in PCs
        BY AllPassed DEF PCs
      <4>. QED  BY <4>1
    <3>2. ~ \E x \in entry .. p - 1 : IsLowered(x) /\ p \in Successors(x)
      BY <1>10, <3>1 DEF NoneBefore
    <3>. QED  BY <1>7, <3>2 DEF ReachedInOrder
  <2>2. Follows(<<>>, states[p].stack) /\ Len(<<>>) = 0
    BY <1>8, FollowsNothing
  <2>. QED  BY <1>7, <1>10, <2>1, <2>2 DEF Tracked
<1>. QED  BY <1>7, <1>9, <1>10

-----------------------------------------------------------------------------
(* Where an instruction leads: on, or to one of its targets.                *)
Leads(i, f, o) ==
  /\ o.is # "call"
  /\ o.is = "step" =>
       /\ o.frame.m = f.m
       /\ \/ i.op \notin Leaves /\ o.frame.pc = f.pc
          \/ \E j \in 1 .. Len(Targets(i, NoState)) : o.frame.pc = Targets(i, NoState)[j]

Shaped(f) == f = [m |-> f.m, pc |-> f.pc, locals |-> f.locals, stack |-> f.stack]

LEMMA LeadsNowhere ==
  ASSUME NEW i, NEW f
  PROVE  /\ \A e : Leads(i, f, VmError(e))
         /\ \A c : Leads(i, f, Throws(c))
         /\ Leads(i, f, NPE) /\ Leads(i, f, OutOfBounds) /\ Leads(i, f, NotAnArray)
         /\ \A v : Leads(i, f, [is |-> "return", value |-> v])
BY DEF Leads, VmError, Throws, NPE, OutOfBounds, NotAnArray

LEMMA LeadsTo ==
  ASSUME NEW i, NEW f, Shaped(f), NEW n, NEW vs, NEW p,
         \/ i.op \notin Leaves /\ p = f.pc
         \/ \E j \in 1 .. Len(Targets(i, NoState)) : p = Targets(i, NoState)[j]
  PROVE  Leads(i, f, JumpTo(f, n, vs, p))
<1>1. \A x : [f EXCEPT !.pc = p, !.stack = x] = [m |-> f.m, pc |-> p, locals |-> f.locals, stack |-> x]
  BY FrameSet DEF Shaped
<1>2. \A x : [f EXCEPT !.pc = p, !.stack = x].m = f.m /\ [f EXCEPT !.pc = p, !.stack = x].pc = p
  BY <1>1
<1>3. \A g : g.m = f.m /\ g.pc = p => Leads(i, f, Step(g))
  BY DEF Leads, Step
<1>4. \A e : Leads(i, f, VmError(e))
  BY LeadsNowhere
<1>. QED  BY <1>2, <1>3, <1>4 DEF JumpTo

LEMMA LeadsOn ==
  ASSUME NEW i, i.op \notin Leaves, NEW f, Shaped(f)
  PROVE  /\ \A n, vs : Leads(i, f, Go(f, n, vs))
         /\ Leads(i, f, Step(f))
         /\ \A x, y : Leads(i, f, Step([f EXCEPT !.locals = x, !.stack = y]))
<1>1. \A n, vs : Leads(i, f, Go(f, n, vs))
  BY LeadsTo DEF Go
<1>2. \A x, y : [f EXCEPT !.locals = x, !.stack = y].m = f.m /\ [f EXCEPT !.locals = x, !.stack = y].pc = f.pc
  BY DEF Shaped
<1>3. \A g : g.m = f.m /\ g.pc = f.pc => Leads(i, f, Step(g))
  BY DEF Leads, Step
<1>. QED  BY <1>1, <1>2, <1>3

LEMMA LeadsPopping ==
  ASSUME NEW i, NEW f, NEW wants, NEW results, NEW o \in Popping(f, wants, results),
         \A r \in results : Leads(i, f, r)
  PROVE  Leads(i, f, o)
BY LeadsNowhere DEF Popping

LEMMA LeadsAll ==
  ASSUME NEW i, i.op \notin Leaves, NEW f, Shaped(f), NEW o,
         \/ \E n, vs : o = Go(f, n, vs)
         \/ \E c : o = Throws(c)
         \/ \E e : o = VmError(e)
         \/ o = Step(f)
  PROVE  Leads(i, f, o)
BY LeadsOn, LeadsNowhere

LEMMA LeadsLocals ==
  ASSUME NEW i, i.op \in {"const", "load", "store", "iinc"}, NEW f, Shaped(f), NEW o \in ExecuteOpcode(i, f)
  PROVE  Leads(i, f, o)
<1>0. i.op \notin Leaves
  BY DEF Leaves
<1>. USE DEF ExecuteOpcode, StackOps
<1>1. CASE i.op = "const"
  BY <1>0, <1>1, LeadsAll DEF Constant
<1>2. CASE i.op = "load"
  BY <1>0, <1>2, LeadsAll DEF Load
<1>3. CASE i.op = "store"
  <2>1. o \in Store(i, f)
    BY <1>3
  <2>2. \A x : Leads(i, f, Step([f EXCEPT !.locals = x, !.stack = Tail(@)]))
    BY <1>0, LeadsOn
  <2>. QED  BY <2>1, <2>2, LeadsNowhere DEF Store
<1>4. CASE i.op = "iinc"
  BY <1>0, <1>4, LeadsAll DEF Increment
<1>. QED  BY <1>1, <1>2, <1>3, <1>4

LEMMA LeadsArrays ==
  ASSUME NEW i, i.op \in {"arrayload", "arraystore"}, NEW f, Shaped(f), NEW o \in ExecuteOpcode(i, f)
  PROVE  Leads(i, f, o)
<1>0. i.op \notin Leaves
  BY DEF Leaves
<1>1. \A v, ok, results : (\A r \in results : Leads(i, f, r)) => \A r \in OnArray(v, ok, results) : Leads(i, f, r)
  BY LeadsNowhere DEF OnArray
<1>2. \A n, vs : Leads(i, f, Go(f, n, vs))
  BY <1>0, LeadsOn
<1>3. CASE i.op = "arrayload"
  <2>. DEFINE a == f.stack[2]
              results == IF i.k \in {"J", "F", "D"}
       THEN OnArray(a, {"[J", "[F", "[D"},
                    {Go(f, 2, <<TypeOf(k)>>) : k \in {x \in {"J", "F", "D"} : a = Obj(ArrayOf(x))}})
       ELSE IF i.k = "A"
       THEN OnArray(a, {"[A"}, {Go(f, 2, <<v>>) : v \in {NullT, Obj("A")}})
       ELSE OnArray(a, {"[I"}, {Go(f, 2, <<IntT>>)})
  <2>1. \A r \in results : Leads(i, f, r)
    <3>1. \A S : \A r \in {Go(f, 2, <<TypeOf(k)>>) : k \in S} : Leads(i, f, r)
      BY <1>2
    <3>2. \A S : \A r \in {Go(f, 2, <<v>>) : v \in S} : Leads(i, f, r)
      BY <1>2
    <3>3. \A r \in {Go(f, 2, <<IntT>>)} : Leads(i, f, r)
      BY <1>2
    <3>. HIDE DEF a
    <3>. QED  BY <1>1, <3>1, <3>2, <3>3
  <2>2. o \in Popping(f, <<"Int", "Reference">>, results)
    BY <1>3 DEF ExecuteOpcode, ArrayLoad, StackOps
  <2>. HIDE DEF results
  <2>. QED  BY <2>1, <2>2, LeadsPopping
<1>4. CASE i.op = "arraystore"
  <2>1. PICK wants, v, ok : o \in Popping(f, wants, OnArray(v, ok, {Go(f, 3, <<>>)}))
    <3>1. o \in ArrayStore(i, f)
      BY <1>4 DEF ExecuteOpcode, StackOps
    <3>. QED  BY <3>1 DEF ArrayStore
  <2>2. \A r \in OnArray(v, ok, {Go(f, 3, <<>>)}) : Leads(i, f, r)
    BY <1>1, <1>2
  <2>. QED  BY <2>1, <2>2, LeadsPopping
<1>. QED  BY <1>3, <1>4

LEMMA LeadsValues ==
  ASSUME NEW i, i.op \in StackOps \cup {"bin", "div", "neg", "shift", "conv", "cmp"}, NEW f, Shaped(f),
         NEW o \in ExecuteOpcode(i, f)
  PROVE  Leads(i, f, o)
<1>0. i.op \notin Leaves
  BY DEF Leaves, StackOps
<1>1. \A n, vs : Leads(i, f, Go(f, n, vs))
  BY <1>0, LeadsOn
<1>2. CASE i.op \in StackOps
  <2>1. o \in Rearrange(i, f)
    BY <1>2 DEF ExecuteOpcode, StackOps
  <2>2. o = VmError("BadStackForm") \/ \E n, vs : o = Go(f, n, vs)
    BY <2>1 DEF Rearrange
  <2>. QED  BY <1>1, <2>2, LeadsNowhere
<1>3. CASE i.op \in {"bin", "div", "neg"}
  <2>1. o \in Arithmetic(i, f)
    BY <1>3 DEF ExecuteOpcode, StackOps
  <2>. QED  BY <1>1, <1>3, <2>1, LeadsPopping, LeadsNowhere DEF Arithmetic
<1>4. CASE i.op = "shift"
  <2>1. o \in Shift(i, f)
    BY <1>4 DEF ExecuteOpcode, StackOps
  <2>. QED  BY <1>1, <2>1, LeadsPopping DEF Shift
<1>5. CASE i.op = "conv"
  <2>1. o \in Conversion(i, f)
    BY <1>5 DEF ExecuteOpcode, StackOps
  <2>. QED  BY <1>1, <2>1, LeadsPopping DEF Conversion
<1>6. CASE i.op = "cmp"
  <2>1. o \in Comparison(i, f)
    BY <1>6 DEF ExecuteOpcode, StackOps
  <2>. QED  BY <1>1, <2>1, LeadsPopping DEF Comparison
<1>. QED  BY <1>2, <1>3, <1>4, <1>5, <1>6

LEMMA LeadsJumps ==
  ASSUME NEW i, i.op \in {"if", "switch", "goto"}, IsInstruction(i), NEW f, Shaped(f), NEW o \in ExecuteOpcode(i, f)
  PROVE  Leads(i, f, o)
<1>1. CASE i.op = "if"
  <2>1. PICK wants : o \in Popping(f, wants, {JumpTo(f, i.n, <<>>, i.to), Go(f, i.n, <<>>)})
    BY <1>1 DEF ExecuteOpcode, Branch, StackOps
  <2>2. Targets(i, NoState) = <<i.to>> /\ 1 \in 1 .. Len(<<i.to>>) /\ <<i.to>>[1] = i.to
    BY <1>1 DEF Targets
  <2>3. Leads(i, f, JumpTo(f, i.n, <<>>, i.to))
    BY <2>2, LeadsTo
  <2>4. Leads(i, f, Go(f, i.n, <<>>))
    <3>1. i.op \notin Leaves
      BY <1>1 DEF Leaves
    <3>. QED  BY <3>1, LeadsOn
  <2>. QED  BY <2>1, <2>3, <2>4, LeadsPopping
<1>2. CASE i.op = "goto"
  <2>1. o = JumpTo(f, 0, <<>>, i.to)
    BY <1>2 DEF ExecuteOpcode, Jump, StackOps
  <2>2. Targets(i, NoState) = <<i.to>> /\ 1 \in 1 .. Len(<<i.to>>) /\ <<i.to>>[1] = i.to
    BY <1>2 DEF Targets
  <2>. QED  BY <2>1, <2>2, LeadsTo
<1>3. CASE i.op = "switch"
  <2>. DEFINE results == {JumpTo(f, 1, <<>>, i.tos[j]) : j \in DOMAIN i.tos}
  <2>1. o \in Popping(f, <<"Int">>, results)
    BY <1>3 DEF ExecuteOpcode, Switch, StackOps
  <2>2. Targets(i, NoState) = i.tos /\ DOMAIN i.tos = 1 .. Len(i.tos)
    BY <1>3 DEF Targets, IsInstruction, IsList
  <2>3. \A j \in DOMAIN i.tos : Leads(i, f, JumpTo(f, 1, <<>>, i.tos[j]))
    BY <2>2, LeadsTo
  <2>4. \A r \in results : Leads(i, f, r)
    BY <2>3
  <2>. HIDE DEF results
  <2>. QED  BY <2>1, <2>4, LeadsPopping
<1>. QED  BY <1>1, <1>2, <1>3

LEMMA LeadsObjects ==
  ASSUME NEW i, i.op \in Fields \cup {"new", "newarray", "arraylength", "athrow", "checkcast", "instanceof", "monitor",
                                      "return"},
         NEW f, Shaped(f), NEW o \in ExecuteOpcode(i, f)
  PROVE  Leads(i, f, o)
<1>. USE DEF ExecuteOpcode, StackOps, Fields
<1>1. ASSUME i.op \notin Leaves PROVE Leads(i, f, Step(f)) /\ \A n, vs : Leads(i, f, Go(f, n, vs))
  BY <1>1, LeadsOn
<1>2. CASE i.op \in Fields
  <2>1. o \in FieldAccess(i, f) /\ i.op \notin Leaves
    BY <1>2 DEF Leaves
  <2>2. \A n, vs : Leads(i, f, Go(f, n, vs))
    BY <1>1, <2>1
  <2>3. \A v, c, results : (\A r \in results : Leads(i, f, r)) => \A r \in OnObject(v, c, results) : Leads(i, f, r)
    BY LeadsNowhere DEF OnObject
  <2>4. CASE i.op = "getstatic"
    BY <2>1, <2>2, <2>4 DEF FieldAccess
  <2>5. CASE i.op = "putstatic"
    BY <2>1, <2>2, <2>5, LeadsPopping DEF FieldAccess
  <2>6. CASE i.op = "getfield"
    <3>. DEFINE results == {Go(f, 1, <<v>>) : v \in ValuesOf(i.t)}
    <3>1. o \in Popping(f, <<"Reference">>, OnObject(f.stack[1], i.c, results))
      BY <2>1, <2>6 DEF FieldAccess
    <3>2. \A r \in results : Leads(i, f, r)
      BY <2>2
    <3>. HIDE DEF results
    <3>. QED  BY <2>3, <3>1, <3>2, LeadsPopping
  <2>7. CASE i.op = "putfield"
    <3>1. o \in Popping(f, <<"Any", "Reference">>, OnObject(f.stack[2], i.c, {Go(f, 2, <<>>)}))
      BY <2>1, <2>7 DEF FieldAccess
    <3>. QED  BY <2>2, <2>3, <3>1, LeadsPopping
  <2>. QED  BY <1>2, <2>4, <2>5, <2>6, <2>7
<1>3. CASE i.op = "new"
  <2>1. o \in NewObject(i, f) /\ i.op \notin Leaves
    BY <1>3 DEF Leaves
  <2>. QED  BY <1>1, <2>1 DEF NewObject
<1>4. CASE i.op = "newarray"
  <2>1. o \in NewArray(i, f) /\ i.op \notin Leaves
    BY <1>4 DEF Leaves
  <2>. QED  BY <1>1, <2>1, LeadsPopping, LeadsNowhere DEF NewArray
<1>5. CASE i.op = "arraylength"
  <2>1. o \in ArrayLength(f) /\ i.op \notin Leaves
    BY <1>5 DEF Leaves
  <2>. QED  BY <1>1, <2>1, LeadsPopping, LeadsNowhere DEF ArrayLength
<1>6. CASE i.op = "athrow"
  <2>1. o \in Athrow(f)
    BY <1>6
  <2>. QED  BY <2>1, LeadsPopping, LeadsNowhere DEF Athrow
<1>7. CASE i.op \in {"checkcast", "instanceof"}
  <2>1. o \in TypeTest(i, f) /\ i.op \notin Leaves
    BY <1>7 DEF Leaves
  <2>. QED  BY <1>1, <2>1, LeadsPopping, LeadsNowhere DEF TypeTest
<1>8. CASE i.op = "monitor"
  <2>1. o \in MonitorOp(i, f) /\ i.op \notin Leaves
    BY <1>8 DEF Leaves
  <2>. DEFINE results == IF f.stack[1] = NullT THEN {NPE}
                         ELSE {Go(f, 1, <<>>)} \cup IF i.n = 0 THEN {} ELSE {Throws("IllegalMonitorStateException")}
  <2>2. \A r \in results : r \in {NPE, Go(f, 1, <<>>), Throws("IllegalMonitorStateException")}
    OBVIOUS
  <2>3. o \in Popping(f, <<"Reference">>, results)
    BY <2>1 DEF MonitorOp
  <2>4. \A r \in {NPE, Go(f, 1, <<>>), Throws("IllegalMonitorStateException")} : Leads(i, f, r)
    BY <1>1, <2>1, LeadsNowhere
  <2>. HIDE DEF results
  <2>. QED  BY <2>2, <2>3, <2>4, LeadsPopping
<1>9. CASE i.op = "return"
  <2>1. o \in Return(i, f)
    BY <1>9
  <2>2. \A v : Leads(i, f, [is |-> "return", value |-> v])
    BY LeadsNowhere
  <2>3. CASE i.k = "V"
    BY <2>1, <2>2, <2>3 DEF Return
  <2>4. CASE i.k # "V"
    <3>1. o \in Popping(f, <<"Any">>, {[is |-> "return", value |-> <<f.stack[1]>>]})
      BY <2>1, <2>4 DEF Return
    <3>2. \A r \in {[is |-> "return", value |-> <<f.stack[1]>>]} : Leads(i, f, r)
      BY <2>2
    <3>. QED  BY <3>1, <3>2, LeadsPopping
  <2>. QED  BY <2>3, <2>4
<1>. QED  BY <1>2, <1>3, <1>4, <1>5, <1>6, <1>7, <1>8, <1>9

LEMMA LeadsInvoke ==
  ASSUME NEW i, IsInstruction(i), i.op = "invoke", i.callee = "native", NEW f, Shaped(f), NEW o \in ExecuteOpcode(i, f)
  PROVE  Leads(i, f, o)
<1>0. i.op \notin Leaves
  BY DEF Leaves
<1>1. \A n, vs : Leads(i, f, Go(f, n, vs))
  BY <1>0, LeadsOn
<1>2. \A c : Leads(i, f, Throws(c))
  BY LeadsNowhere
<1>3. o \in Invoke(i, f)
  BY DEF ExecuteOpcode, StackOps
<1>4. i.mode \in {"static", "special", "init", "virtual", "interface", "dynamic"}
  BY DEF IsInstruction
<1>5. ASSUME NEW receiver, o \in Call(i, f, receiver) PROVE Leads(i, f, o)
  <2>. DEFINE n == Len(i.args) + receiver
              results == IF i.r = <<>> THEN {<<>>} ELSE {<<v>> : v \in ValuesOf(i.r[1])}
              outs == {Go(f, n, r) : r \in results} \cup {Throws("E")}
  <2>1. PICK wants : o \in Popping(f, wants, outs)
    BY <1>5 DEF Call
  <2>2. \A r \in outs : Leads(i, f, r)
    BY <1>1, <1>2
  <2>. HIDE DEF outs
  <2>. QED  BY <2>1, <2>2, LeadsPopping
<1>6. CASE i.mode = "dynamic"
  <2>. DEFINE outs == {Go(f, Len(i.args), <<v>>) : v \in ValuesOf(i.r[1])} \cup {Throws("E")}
  <2>1. PICK wants : o \in Popping(f, wants, outs)
    BY <1>3, <1>6 DEF Invoke, CallDynamic
  <2>2. \A r \in outs : Leads(i, f, r)
    BY <1>1, <1>2
  <2>. HIDE DEF outs
  <2>. QED  BY <2>1, <2>2, LeadsPopping
<1>7. CASE i.mode # "dynamic"
  <2>1. o = NPE \/ o \in Call(i, f, 0) \/ o \in Call(i, f, 1)
    BY <1>3, <1>4, <1>7 DEF Invoke, CallStatic, CallSpecial, CallVirtual, CallInterface
  <2>. QED  BY <1>5, <2>1, LeadsNowhere
<1>. QED  BY <1>6, <1>7

\* Whatever the instruction; a call is one that is run to its end.
LEMMA LeadsEach ==
  ASSUME NEW i, IsInstruction(i), i.op \notin {"jsr", "ret"}, i.op = "invoke" => i.callee = "native",
         NEW f, Shaped(f), NEW o \in ExecuteOpcode(i, f)
  PROVE  Leads(i, f, o)
<1>1. i.op \in Opcodes
  BY DEF IsInstruction
<1>2. CASE i.op \in {"const", "load", "store", "iinc"}
  BY <1>2, LeadsLocals
<1>3. CASE i.op \in {"arrayload", "arraystore"}
  BY <1>3, LeadsArrays
<1>4. CASE i.op \in StackOps \cup {"bin", "div", "neg", "shift", "conv", "cmp"}
  BY <1>4, LeadsValues
<1>5. CASE i.op \in {"if", "switch", "goto"}
  BY <1>5, LeadsJumps
<1>6. CASE i.op \in Fields \cup {"new", "newarray", "arraylength", "athrow", "checkcast", "instanceof", "monitor",
                                 "return"}
  BY <1>6, LeadsObjects
<1>7. CASE i.op = "invoke"
  BY <1>7, LeadsInvoke
<1>. QED  BY <1>1, <1>2, <1>3, <1>4, <1>5, <1>6, <1>7 DEF Opcodes

-----------------------------------------------------------------------------
(* What the verifier finds in a slot was stored there or came as an argument; *)
(* return addresses are found nowhere, since there are no subroutines.       *)
StoredKinds(n) ==
  {LoweredKind(Code[pc].k) : pc \in {x \in PCs : Code[x].op = "store" /\ Code[x].n = n}}
    \cup {Lowered(t) : t \in {InitialLocals(method)[n + 1]} \ {Unset}}

Plain(t) == t \in Kinds \cup {Unset} \/ RefLike(t)
StoredType(t, j) == t = Unset \/ (Plain(t) /\ Lowered(t) \in StoredKinds(j - 1))
PlainTypes(ts) == IsList(ts) /\ \A j \in 1 .. Len(ts) : Plain(ts[j])
StoredTypes(ts) == IsList(ts) /\ \A j \in 1 .. Len(ts) : StoredType(ts[j], j)
StoredState(s) == s = NoState \/ (PlainTypes(s.stack) /\ StoredTypes(s.locals))

LEMMA PlainJoined ==
  ASSUME NEW s, NEW t, PlainTypes(s), PlainTypes(t)
  PROVE  PlainTypes(s \o t)
<1>1. IsList(s) /\ IsList(t) /\ Len(s) \in Nat /\ Len(t) \in Nat
  BY DEF PlainTypes, IsList
<1>2. IsList(s \o t) /\ Len(s \o t) = Len(s) + Len(t)
  BY <1>1, Joined
<1>3. ASSUME NEW j \in 1 .. Len(s) + Len(t) PROVE Plain((s \o t)[j])
  <2>1. CASE j <= Len(s)
    <3>1. j \in 1 .. Len(s)
      BY <1>1, <2>1
    <3>2. (s \o t)[j] = s[j]
      BY <1>1, <3>1, Joined
    <3>. QED  BY <3>1, <3>2 DEF PlainTypes
  <2>2. CASE j > Len(s)
    <3>. DEFINE k == j - Len(s)
    <3>1. k \in 1 .. Len(t) /\ j = Len(s) + k
      BY <1>1, <2>2
    <3>2. (s \o t)[Len(s) + k] = t[k]
      BY <1>1, <3>1, Joined
    <3>. QED  BY <3>1, <3>2 DEF PlainTypes
  <2>. QED  BY <1>1, <2>1, <2>2
<1>. QED  BY <1>2, <1>3 DEF PlainTypes

LEMMA PlainRest ==
  ASSUME NEW s, PlainTypes(s), NEW n \in Nat, n <= Len(s)
  PROVE  PlainTypes(Below(s, n))
<1>1. IsList(s) /\ Len(s) \in Nat
  BY DEF PlainTypes, IsList
<1>2. IsList(Below(s, n)) /\ Len(Below(s, n)) = Len(s) - n
      /\ \A j \in 1 .. Len(s) - n : Below(s, n)[j] = s[n + j]
  BY <1>1, Rest
<1>3. \A j \in 1 .. Len(s) - n : n + j \in 1 .. Len(s)
  BY <1>1
<1>. QED  BY <1>2, <1>3 DEF PlainTypes

LEMMA PlainOnes ==
  /\ PlainTypes(<<>>)
  /\ \A t : Plain(t) => PlainTypes(<<t>>)
  /\ \A k : Plain(TypeOf(k))
  /\ \A p, c : Plain(Uninit(p)) /\ Plain(Ref(c)) /\ Plain(AnyRef) /\ Plain(IntT) /\ Plain(Unset)
  /\ \A t : IsType(t) \/ t = NullT \/ RefLike(t) => Plain(t)
<1>1. PlainTypes(<<>>) /\ \A t : Plain(t) => PlainTypes(<<t>>)
  BY ShortLists DEF PlainTypes
<1>2. \A k : Plain(TypeOf(k))
  BY DEF Plain, Kinds, TypeOf
<1>3. \A p, c : Plain(Uninit(p)) /\ Plain(Ref(c)) /\ Plain(AnyRef) /\ Plain(IntT) /\ Plain(Unset)
  BY DEF Plain, Kinds, RefLike, Uninit, Ref, AnyRef
<1>4. \A t : IsType(t) \/ t = NullT \/ RefLike(t) => Plain(t)
  BY DEF Plain, Kinds, IsType, RefLike, NullT
<1>. QED  BY <1>1, <1>2, <1>3, <1>4

LEMMA StoredPushed ==
  ASSUME NEW m, NEW locals, StoredTypes(locals), NEW stack, PlainTypes(stack), NEW ts, PlainTypes(ts)
  PROVE  StoredState(Push(m, At(locals, stack), ts))
<1>1. PlainTypes(ts \o stack)
  BY PlainJoined
<1>2. Push(m, At(locals, stack), ts) \in {NoState, At(locals, ts \o stack)}
  BY DEF Push, At
<1>3. At(locals, ts \o stack).locals = locals /\ At(locals, ts \o stack).stack = ts \o stack
  BY DEF At
<1>. QED  BY <1>1, <1>2, <1>3 DEF StoredState

LEMMA StateParts ==
  ASSUME NEW m, NEW s, IsState(m, s), s # NoState, StoredState(s)
  PROVE  /\ PlainTypes(s.stack) /\ StoredTypes(s.locals) /\ s = At(s.locals, s.stack)
         /\ IsList(s.stack) /\ IsList(s.locals) /\ Len(s.stack) \in Nat /\ Len(s.locals) \in Nat
         /\ Len(s.locals) = m.max_locals
BY DEF IsState, StoredState, IsList

LEMMA LoadStored ==
  ASSUME NEW m, NEW i, NEW s, IsState(m, s), s # NoState, StoredState(s)
  PROVE  StoredState(ApplyLoad(m, i, s))
<1>1. PlainTypes(s.stack) /\ StoredTypes(s.locals) /\ s = At(s.locals, s.stack)
  BY StateParts
<1>2. RefLike(LoadLocal(i, s)) \/ LoadLocal(i, s) = TypeOf(i.k) => PlainTypes(<<LoadLocal(i, s)>>)
  BY PlainOnes
<1>3. PlainTypes(<<LoadLocal(i, s)>>) => StoredState(Push(m, s, <<LoadLocal(i, s)>>))
  BY <1>1, StoredPushed
<1>. QED  BY <1>2, <1>3 DEF ApplyLoad, StoredState

LEMMA StoreStored ==
  ASSUME NEW pc \in PCs, Code[pc].op = "store", Code[pc].n \in Nat,
         NEW s, IsState(method, s), s # NoState, StoredState(s)
  PROVE  StoredState(ApplyStore(Code[pc], s))
<1>. DEFINE i == Code[pc]
            t == s.stack[1]
            stored == StoreSlot(s.locals, i.n, t, Unset)
<1>1. /\ PlainTypes(s.stack) /\ StoredTypes(s.locals) /\ IsList(s.stack) /\ IsList(s.locals)
      /\ Len(s.stack) \in Nat /\ Len(s.locals) \in Nat
  BY StateParts
<1>2. CASE Len(s.stack) # 0 /\ (IF i.k = "A" THEN RefLike(t) \/ t[1] = "Ret" ELSE t = TypeOf(i.k))
  <2>1. Plain(t)
    <3>1. 1 \in 1 .. Len(s.stack)
      BY <1>1, <1>2
    <3>. QED  BY <1>1, <3>1 DEF PlainTypes
  <2>2. Lowered(t) = LoweredKind(i.k)
    <3>1. CASE i.k = "A"
      <4>1. RefLike(t)
        BY <1>2, <2>1, <3>1 DEF Plain, Kinds, Unset, IntT, LongT, FloatT, DoubleT
      <4>. QED  BY <3>1, <4>1, StandsForReference DEF LoweredKind
    <3>2. CASE i.k # "A"
      BY <1>2, <3>2 DEF LoweredKind
    <3>. QED  BY <3>1, <3>2
  <2>3. LoweredKind(i.k) \in StoredKinds(i.n)
    BY DEF StoredKinds
  <2>4. IsList(stored.locals) /\ Len(stored.locals) = Len(s.locals)
    BY <1>1, StoreSlotLists
  <2>5. ASSUME NEW j \in 1 .. Len(s.locals) PROVE StoredType(stored.locals[j], j)
    <3>1. stored.locals[j] \in {s.locals[j], Unset} \/ (j = i.n + 1 /\ stored.locals[j] = t)
      <4>. HIDE DEF i, t
      <4>. QED  BY DEF StoreSlot
    <3>2. StoredType(s.locals[j], j) /\ StoredType(Unset, j)
      BY <1>1 DEF StoredTypes, StoredType
    <3>3. StoredType(t, i.n + 1)
      <4>1. i.n + 1 - 1 = i.n
        OBVIOUS
      <4>. QED  BY <2>1, <2>2, <2>3, <4>1 DEF StoredType
    <3>. HIDE DEF i, t, stored
    <3>. QED  BY <3>1, <3>2, <3>3
  <2>6. StoredTypes(stored.locals)
    <3>. HIDE DEF stored
    <3>. QED  BY <2>4, <2>5 DEF StoredTypes
  <2>7. PlainTypes(Below(s.stack, 1))
    <3>1. 1 <= Len(s.stack)
      BY <1>1, <1>2
    <3>. QED  BY <1>1, <3>1, PlainRest
  <2>8. StoredState(At(stored.locals, Below(s.stack, 1)))
    <3>. HIDE DEF stored
    <3>. QED  BY <2>6, <2>7 DEF StoredState, At
  <2>. QED  BY <2>8 DEF ApplyStore, StoredState
<1>3. CASE ~(Len(s.stack) # 0 /\ (IF i.k = "A" THEN RefLike(t) \/ t[1] = "Ret" ELSE t = TypeOf(i.k)))
  <2>1. ApplyStore(i, s) = NoState
    BY <1>3 DEF ApplyStore
  <2>. QED  BY <2>1 DEF StoredState
<1>. QED  BY <1>2, <1>3

LEMMA ShuffleStored ==
  ASSUME NEW m, NEW i, NEW s, i.op \in StackOps, IsState(m, s), s # NoState, StoredState(s)
  PROVE  StoredState(Shuffle(m, i, s))
<1>. DEFINE forms == IF i.op \in {"dup2_x1", "dup2_x2"} THEN WideForms(i) ELSE Forms(i)
            match == FormsFitting(forms, s.stack)
            f == CHOOSE x \in match : TRUE
<1>1. CASE match = {}
  BY <1>1 DEF Shuffle, StoredState
<1>2. CASE match # {}
  <2>1. f \in match
    BY <1>2
  <2>2. f \in forms /\ Len(f[1]) <= Len(s.stack)
    BY <2>1 DEF FormsFitting
  <2>3. IsList(f[1]) /\ IsList(f[2]) /\ \A k \in 1 .. Len(f[2]) : f[2][k] \in 1 .. Len(f[1])
    BY <2>2, FormsPick DEF Picks
  <2>4. PlainTypes(s.stack) /\ StoredTypes(s.locals) /\ Len(s.stack) \in Nat
    BY StateParts
  <2>. Len(f[1]) \in Nat
    BY <2>3 DEF IsList
  <2>5. PlainTypes(Below(s.stack, Len(f[1])))
    BY <2>2, <2>4, PlainRest
  <2>6. PlainTypes(Permute(s.stack, f[2]))
    <3>. HIDE DEF f
    <3>1. /\ Len(f[2]) \in Nat
          /\ Permute(s.stack, f[2]) = [k \in 1 .. Len(f[2]) |-> s.stack[f[2][k]]]
      BY <2>3 DEF IsList, Permute
    <3>2. ASSUME NEW k \in 1 .. Len(f[2]) PROVE Plain(s.stack[f[2][k]])
      <4>1. f[2][k] \in 1 .. Len(f[1])
        BY <2>3
      <4>2. f[2][k] \in 1 .. Len(s.stack)
        BY <2>2, <2>4, <4>1
      <4>. QED  BY <2>4, <4>2 DEF PlainTypes
    <3>. QED  BY <3>1, <3>2 DEF IsList, PlainTypes
  <2>7. Shuffle(m, i, s) = Push(m, At(s.locals, Below(s.stack, Len(f[1]))), Permute(s.stack, f[2]))
    BY <1>2 DEF Shuffle
  <2>. QED  BY <2>4, <2>5, <2>6, <2>7, StoredPushed
<1>. QED  BY <1>1, <1>2

LEMMA PushesPlain ==
  ASSUME NEW i, NEW pc, IsInstruction(i), i.op \in Simple \ {"jsr"}
  PROVE  PlainTypes(EffectOf(i, pc).push)
<1>. USE DEF Simple, Effect, StackOps
<1>1. CASE i.op = "const"
  BY <1>1, PlainOnes DEF EffectOf, ConstantEffect, IsInstruction
<1>2. CASE i.op = "arrayload"
  BY <1>2, PlainOnes DEF EffectOf, ArrayLoadEffect
<1>3. CASE i.op = "arraystore"
  BY <1>3, PlainOnes DEF EffectOf, ArrayStoreEffect
<1>4. CASE i.op \in {"bin", "div", "neg", "shift"}
  BY <1>4, PlainOnes DEF EffectOf, ArithmeticEffect
<1>5. CASE i.op = "conv"
  BY <1>5, PlainOnes DEF EffectOf, ConversionEffect
<1>6. CASE i.op \in {"if", "cmp", "switch", "goto", "iinc", "ret"}
  BY <1>6, PlainOnes DEF EffectOf, BranchEffect
<1>7. CASE i.op \in {"getstatic", "putstatic", "getfield", "putfield"}
  <2>1. IsType(i.t)
    BY <1>7 DEF IsInstruction, Fields
  <2>. QED  BY <1>7, <2>1, PlainOnes DEF EffectOf, FieldEffect
<1>8. CASE i.op = "invoke"
  <2>1. AreTypes(i.r)
    BY <1>8 DEF IsInstruction
  <2>2. EffectOf(i, pc).push = i.r
    BY <1>8 DEF EffectOf, InvokeEffect
  <2>. QED  BY <2>1, <2>2, PlainOnes DEF AreTypes, PlainTypes
<1>9. CASE i.op = "return"
  BY <1>9, PlainOnes DEF EffectOf, ReturnEffect
<1>10. CASE i.op \in {"new", "newarray", "arraylength", "instanceof", "checkcast", "monitor", "athrow"}
  BY <1>10, PlainOnes DEF EffectOf, ObjectEffect
<1>. QED  BY <1>1, <1>2, <1>3, <1>4, <1>5, <1>6, <1>7, <1>8, <1>9, <1>10 DEF Opcodes, Fields

\* The receiver of a constructor is the last operand.
LEMMA ConstructorTakes ==
  ASSUME NEW i, NEW pc, IsInstruction(i), i.op = "invoke", i.mode = "init"
  PROVE  LET pop == EffectOf(i, pc).pop IN Len(pop) \in Nat \ {0} /\ pop[Len(pop)] = <<"Receiver">>
<1>. DEFINE args == [j \in 1 .. Len(i.args) |-> i.args[Len(i.args) + 1 - j]]
            pop == EffectOf(i, pc).pop
<1>1. IsList(args) /\ Len(args) \in Nat
  <2>1. IsList(i.args)
    BY DEF IsInstruction, AreTypes
  <2>2. IsList(args)
    BY <2>1, ArgumentsReversed
  <2>. HIDE DEF args
  <2>. QED  BY <2>2 DEF IsList
<1>2. pop = args \o <<<<"Receiver">>>>
  BY DEF EffectOf, InvokeEffect, Effect, StackOps
<1>. HIDE DEF args, pop
<1>3. Len(pop) = Len(args) + 1 /\ pop[Len(args) + 1] = <<"Receiver">>
  <2>. DEFINE who == <<<<"Receiver">>>>
  <2>1. IsList(who) /\ Len(who) = 1 /\ who[1] = <<"Receiver">> /\ 1 \in 1 .. Len(who)
    BY ShortLists
  <2>3. pop = args \o who
    BY <1>2
  <2>. HIDE DEF who
  <2>4. IsList(args) /\ IsList(who)
    BY <1>1, <2>1
  <2>2. Len(args \o who) = Len(args) + Len(who) /\ \A j \in 1 .. Len(who) : (args \o who)[Len(args) + j] = who[j]
    BY <2>4, Joined
  <2>. QED  BY <2>1, <2>2, <2>3
<1>. QED  BY <1>1, <1>3 DEF pop

LEMMA InitialisedStored ==
  ASSUME NEW from, RefLike(from), NEW c, NEW locals, StoredTypes(locals), NEW stack, PlainTypes(stack)
  PROVE  LET s == Initialised(At(locals, stack), from, c) IN StoredTypes(s.locals) /\ PlainTypes(s.stack)
<1>. DEFINE init(t) == IF t = from THEN Ref(c) ELSE t
            ls == [j \in DOMAIN locals |-> init(locals[j])]
            ss == [j \in DOMAIN stack |-> init(stack[j])]
<1>1. Initialised(At(locals, stack), from, c) = At(ls, ss)
  BY DEF Initialised, At
<1>2. Lowered(from) = I64 /\ RefLike(Ref(c)) /\ Lowered(Ref(c)) = I64 /\ Plain(Ref(c)) /\ from # Unset
  <2>1. RefLike(Ref(c)) /\ from # Unset
    BY DEF RefLike, Ref, Unset
  <2>. QED  BY <2>1, StandsForReference, PlainOnes
<1>3. StoredTypes(ls)
  <2>1. DOMAIN locals = 1 .. Len(locals) /\ Len(locals) \in Nat /\ \A j \in 1 .. Len(locals) : StoredType(locals[j], j)
    BY DEF StoredTypes, IsList
  <2>2. IsList(ls) /\ Len(ls) = Len(locals)
    BY <2>1 DEF IsList
  <2>3. \A j \in 1 .. Len(locals) : StoredType(init(locals[j]), j)
    BY <1>2, <2>1 DEF StoredType
  <2>4. \A j \in 1 .. Len(locals) : ls[j] = init(locals[j])
    BY <2>1
  <2>. HIDE DEF ls, init
  <2>. QED  BY <2>2, <2>3, <2>4 DEF StoredTypes
<1>4. PlainTypes(ss)
  <2>1. DOMAIN stack = 1 .. Len(stack) /\ Len(stack) \in Nat /\ \A j \in 1 .. Len(stack) : Plain(stack[j])
    BY DEF PlainTypes, IsList
  <2>2. IsList(ss) /\ Len(ss) = Len(stack)
    BY <2>1 DEF IsList
  <2>3. \A j \in 1 .. Len(stack) : ss[j] = init(stack[j]) /\ Plain(init(stack[j]))
    BY <1>2, <2>1
  <2>. HIDE DEF ss, init
  <2>. QED  BY <2>2, <2>3 DEF PlainTypes
<1>. HIDE DEF ls, ss
<1>. QED  BY <1>1, <1>3, <1>4 DEF At

LEMMA EffectStored ==
  ASSUME NEW m, NEW i, NEW pc, NEW s, IsInstruction(i), i.op \in Simple \ {"jsr"}, IsState(m, s), s # NoState,
         StoredState(s)
  PROVE  StoredState(ApplyEffect(m, i, pc, s))
<1>. DEFINE e == EffectOf(i, pc)
            n == Len(e.pop)
            popped == At(s.locals, Below(s.stack, n))
            after == IF i.op = "invoke" /\ i.mode = "init"
                     THEN Initialised(popped, s.stack[n], i.c) ELSE popped
            agrees == /\ n <= Len(s.stack)
                      /\ \A j \in 1 .. n : Fits(e.pop[j], s.stack[j])
                      /\ LocalAgrees(i, s)
                      /\ i.op = "return" => ReturnAgrees(m, i, s.stack)
<1>1. PlainTypes(s.stack) /\ StoredTypes(s.locals) /\ Len(s.stack) \in Nat
  BY StateParts
<1>2. IsList(e.pop) /\ PlainTypes(e.push) /\ PlainTypes(<<>>)
  BY EffectsAreLists, PushesPlain, PlainOnes
<1>3. CASE ~agrees
  BY <1>3 DEF ApplyEffect, StoredState
<1>4. CASE agrees /\ i.op \in {"athrow", "return"}
  <2>1. StoredState(At(s.locals, <<>>))
    BY <1>1, <1>2 DEF StoredState, At
  <2>. QED  BY <1>4, <2>1 DEF ApplyEffect
<1>5. CASE agrees /\ i.op \notin {"athrow", "return"}
  <2>. n \in Nat
    BY <1>2 DEF IsList
  <2>1. PlainTypes(Below(s.stack, n))
    BY <1>1, <1>5, PlainRest
  <2>2. StoredTypes(after.locals) /\ PlainTypes(after.stack) /\ after = At(after.locals, after.stack)
    <3>1. popped.locals = s.locals /\ popped.stack = Below(s.stack, n)
      BY DEF At
    <3>2. CASE i.op = "invoke" /\ i.mode = "init"
      <4>1. n \in 1 .. n /\ e.pop[n] = <<"Receiver">>
        BY <3>2, ConstructorTakes
      <4>2. Fits(<<"Receiver">>, s.stack[n])
        BY <1>5, <4>1
      <4>3. RefLike(s.stack[n])
        BY <4>2 DEF Fits
      <4>. DEFINE t == s.stack[n]
      <4>4. after = Initialised(At(s.locals, Below(s.stack, n)), t, i.c)
        BY <3>2
      <4>5. after = At(after.locals, after.stack)
        BY <4>4 DEF Initialised, At
      <4>. HIDE DEF after, t
      <4>6. RefLike(t)
        BY <4>3 DEF t
      <4>. HIDE DEF n
      <4>7. StoredTypes(after.locals) /\ PlainTypes(after.stack)
        BY <1>1, <2>1, <4>4, <4>6, InitialisedStored
      <4>. QED  BY <4>5, <4>7
    <3>3. CASE ~(i.op = "invoke" /\ i.mode = "init")
      BY <1>1, <2>1, <3>1, <3>3 DEF At
    <3>. QED  BY <3>2, <3>3
  <2>3. ApplyEffect(m, i, pc, s) = Push(m, after, e.push)
    BY <1>5 DEF ApplyEffect
  <2>. HIDE DEF after, e
  <2>4. StoredState(Push(m, At(after.locals, after.stack), e.push))
    BY <1>2, <2>2, StoredPushed
  <2>. QED  BY <2>2, <2>3, <2>4
<1>. QED  BY <1>3, <1>4, <1>5

LEMMA ApplyStored ==
  ASSUME IsMethod(method), NEW pc \in PCs, Code[pc].op # "jsr", NEW s, IsState(method, s), s # NoState, StoredState(s)
  PROVE  StoredState(Apply(method, pc, s))
<1>. DEFINE i == Code[pc]
<1>1. IsInstruction(i)
  BY DEF IsMethod, IsList, PCs, Code
<1>2. CASE i.op = "load"
  BY <1>2, LoadStored DEF Apply, StackOps, Code
<1>3. CASE i.op = "store"
  <2>1. i.n \in Nat
    BY <1>1, <1>3 DEF IsInstruction
  <2>2. StoredState(ApplyStore(Code[pc], s))
    BY <1>3, <2>1, StoreStored
  <2>. QED  BY <1>3, <2>2 DEF Apply, StackOps, Code
<1>4. CASE i.op \in StackOps
  BY <1>4, ShuffleStored DEF Apply, StackOps, Code
<1>5. CASE i.op \in Simple
  <2>1. Apply(method, pc, s) = ApplyEffect(method, i, pc, s)
    BY <1>5 DEF Apply, Simple, Code
  <2>2. i.op \in Simple \ {"jsr"}
    BY <1>5
  <2>. HIDE DEF i
  <2>. QED  BY <1>1, <2>1, <2>2, EffectStored
<1>. QED  BY <1>1, <1>2, <1>3, <1>4, <1>5 DEF IsInstruction, Simple

LEMMA MergeTypeStored ==
  ASSUME NEW a, NEW b, MergeType(a, b) # Error
  PROVE  /\ Plain(a) /\ Plain(b) => Plain(MergeType(a, b))
         /\ \A j : StoredType(a, j) /\ StoredType(b, j) => StoredType(MergeType(a, b), j)
<1>1. MergeType(a, b) \in {a, b, Unset} \/ (MergeType(a, b) = AnyRef /\ IsRef(a))
  <2>1. CASE a = b
    BY <2>1 DEF MergeType
  <2>2. CASE a # b /\ Unset \in {a, b}
    BY <2>2 DEF MergeType
  <2>. USE DEF IsRef, AnyRef, Ref, Unset, NullT
  <2>3. CASE a # b /\ Unset \notin {a, b} /\ a = NullT /\ IsRef(b)
    BY <2>3 DEF MergeType
  <2>4. CASE a # b /\ Unset \notin {a, b} /\ b = NullT /\ IsRef(a)
    BY <2>4 DEF MergeType
  <2>5. CASE a # b /\ IsRef(a) /\ IsRef(b)
    BY <2>5 DEF MergeType
  <2>6. CASE a # b /\ Unset \notin {a, b} /\ ~(a = NullT /\ IsRef(b)) /\ ~(b = NullT /\ IsRef(a))
               /\ ~(IsRef(a) /\ IsRef(b))
    BY <2>6 DEF MergeType
  <2>. QED  BY <2>1, <2>2, <2>3, <2>4, <2>5, <2>6
<1>2. Plain(Unset) /\ Plain(AnyRef)
  BY PlainOnes
<1>3. IsRef(a) => Lowered(a) = Lowered(AnyRef) /\ a # Unset
  <2>1. IsRef(a) => RefLike(a) /\ RefLike(AnyRef) /\ a # Unset
    BY DEF IsRef, RefLike, AnyRef, Ref, Unset
  <2>. QED  BY <2>1, StandsForReference
<1>4. \A j : StoredType(a, j) /\ IsRef(a) => StoredType(AnyRef, j)
  BY <1>2, <1>3 DEF StoredType
<1>5. \A j : StoredType(Unset, j)
  BY DEF StoredType
<1>. QED  BY <1>1, <1>2, <1>4, <1>5

LEMMA MergeStateStored ==
  ASSUME NEW m, NEW old, NEW new, IsState(m, old), IsState(m, new), MergeState(old, new) # Clash,
         StoredState(old), StoredState(new)
  PROVE  StoredState(MergeState(old, new))
<1>1. CASE new = NoState \/ old = NoState
  BY <1>1 DEF MergeState
<1>3. CASE new # NoState /\ old # NoState
  <2>. DEFINE locals == MergeAll(old.locals, new.locals)
              stack == MergeAll(old.stack, new.stack)
  <2>1. /\ PlainTypes(old.stack) /\ StoredTypes(old.locals) /\ PlainTypes(new.stack) /\ StoredTypes(new.locals)
        /\ Len(old.locals) = Len(new.locals) /\ Len(old.locals) \in Nat /\ Len(old.stack) \in Nat
    <3>1. PlainTypes(old.stack) /\ StoredTypes(old.locals) /\ Len(old.locals) = m.max_locals
          /\ Len(old.locals) \in Nat /\ Len(old.stack) \in Nat
      BY <1>3, StateParts
    <3>2. PlainTypes(new.stack) /\ StoredTypes(new.locals) /\ Len(new.locals) = m.max_locals
      BY <1>3, StateParts
    <3>. QED  BY <3>1, <3>2
  <2>2. Len(old.stack) = Len(new.stack)
    BY <1>3 DEF MergeState
  <2>3. /\ ~ \E s \in {locals, stack} : \E j \in DOMAIN s : s[j] = Error
        /\ MergeState(old, new) = At(locals, stack)
    BY <1>3, <2>2 DEF MergeState
  <2>4. /\ DOMAIN locals = 1 .. Len(old.locals) /\ DOMAIN stack = 1 .. Len(old.stack)
        /\ \A j \in 1 .. Len(old.locals) : locals[j] = MergeType(old.locals[j], new.locals[j])
        /\ \A j \in 1 .. Len(old.stack) : stack[j] = MergeType(old.stack[j], new.stack[j])
        /\ locals = [j \in 1 .. Len(old.locals) |-> locals[j]] /\ stack = [j \in 1 .. Len(old.stack) |-> stack[j]]
    BY DEF MergeAll
  <2>. HIDE DEF locals, stack
  <2>5. IsList(locals) /\ IsList(stack) /\ Len(locals) = Len(old.locals) /\ Len(stack) = Len(old.stack)
    BY <2>1, <2>4, ListOf
  <2>6. StoredTypes(locals)
    <3>1. ASSUME NEW j \in 1 .. Len(old.locals) PROVE StoredType(locals[j], j)
      <4>. DEFINE a == old.locals[j]
                  b == new.locals[j]
      <4>1. StoredType(a, j) /\ StoredType(b, j)
        BY <2>1 DEF StoredTypes
      <4>2. locals[j] = MergeType(a, b) /\ locals[j] # Error
        BY <2>3, <2>4
      <4>. HIDE DEF a, b
      <4>. QED  BY <4>1, <4>2, MergeTypeStored
    <3>. QED  BY <2>5, <3>1 DEF StoredTypes
  <2>7. PlainTypes(stack)
    <3>1. ASSUME NEW j \in 1 .. Len(old.stack) PROVE Plain(stack[j])
      <4>. DEFINE a == old.stack[j]
                  b == new.stack[j]
      <4>1. Plain(a) /\ Plain(b)
        BY <2>1, <2>2 DEF PlainTypes
      <4>2. stack[j] = MergeType(a, b) /\ stack[j] # Error
        BY <2>3, <2>4
      <4>. HIDE DEF a, b
      <4>. QED  BY <4>1, <4>2, MergeTypeStored
    <3>. QED  BY <2>5, <3>1 DEF PlainTypes
  <2>. QED  BY <2>3, <2>6, <2>7 DEF StoredState, At
<1>. QED  BY <1>1, <1>3

StoredStates == ~Subroutines => \A pc \in PCs : StoredState(states[pc])

\* What an instruction sends out.
LEMMA OutgoingStored ==
  ASSUME IsMethod(method), NEW pc \in PCs, Code[pc].op # "jsr", NEW s, IsState(method, s), s # NoState,
         StoredState(s), Apply(method, pc, s) # NoState
  PROVE  \A j \in 1 .. Len(Outgoing(method, pc, s)) : StoredState(Outgoing(method, pc, s)[j][2])
<1>. DEFINE i == method.code[pc]
            after == Apply(method, pc, s)
            targets == Targets(i, after)
            caught == [h \in 1 .. Len(method.handlers) |-> <<method.handlers[h].to, Caught(method, h, pc, s)>>]
            next == IF i.op \in Leaves THEN <<>> ELSE <<<<pc + 1, after>>>>
            jumps == [j \in 1 .. Len(targets) |-> <<targets[j], after>>]
<1>1. StoredState(after)
  BY ApplyStored
<1>2. IsList(caught) /\ \A j \in 1 .. Len(caught) : StoredState(caught[j][2])
  <2>1. ASSUME NEW h PROVE StoredState(Caught(method, h, pc, s))
    <3>1. StoredTypes(s.locals) /\ \A c : PlainTypes(<<Ref(c)>>)
      BY StateParts, PlainOnes
    <3>. QED  BY <3>1 DEF Caught, StoredState, At
  <2>2. IsList(caught) /\ Len(caught) = Len(method.handlers)
    BY DEF IsMethod, IsList
  <2>. QED  BY <2>1, <2>2
<1>3. IsList(next) /\ \A j \in 1 .. Len(next) : StoredState(next[j][2])
  BY <1>1, ShortLists
<1>4. IsList(jumps) /\ \A j \in 1 .. Len(jumps) : StoredState(jumps[j][2])
  <2>1. IsList(targets)
    BY TargetsAreList DEF IsMethod, PCs, Code, IsList
  <2>2. IsList(jumps) /\ Len(jumps) = Len(targets)
    BY <2>1 DEF IsList
  <2>. QED  BY <1>1, <2>2
<1>5. Outgoing(method, pc, s) = caught \o next \o jumps
  BY DEF Outgoing
<1>. HIDE DEF caught, next, jumps
<1>6. ASSUME NEW a, NEW b, IsList(a), IsList(b),
             \A j \in 1 .. Len(a) : StoredState(a[j][2]), \A j \in 1 .. Len(b) : StoredState(b[j][2])
      PROVE  IsList(a \o b) /\ \A j \in 1 .. Len(a \o b) : StoredState((a \o b)[j][2])
  <2>1. /\ IsList(a \o b) /\ Len(a \o b) = Len(a) + Len(b)
        /\ \A j \in 1 .. Len(a) : (a \o b)[j] = a[j]
        /\ \A j \in 1 .. Len(b) : (a \o b)[Len(a) + j] = b[j]
    BY <1>6, Joined
  <2>2. Len(a) \in Nat /\ Len(b) \in Nat
    BY <1>6 DEF IsList
  <2>3. ASSUME NEW j \in 1 .. Len(a \o b), j > Len(a) PROVE StoredState((a \o b)[j][2])
    <3>1. j - Len(a) \in 1 .. Len(b) /\ j = Len(a) + (j - Len(a))
      BY <2>1, <2>2, <2>3
    <3>. QED  BY <2>1, <3>1, <1>6
  <2>. QED  BY <1>6, <2>1, <2>2, <2>3
<1>7. IsList(caught \o next) /\ \A j \in 1 .. Len(caught \o next) : StoredState((caught \o next)[j][2])
  BY <1>2, <1>3, <1>6
<1>. QED  BY <1>4, <1>5, <1>6, <1>7

MergedStored(work) == work.verdict = "working" => \A p \in PCs : StoredState(work.states[p])

LEMMA MergedOneStored ==
  ASSUME NEW work, NEW out, NEW j \in Nat, Merged(work, out, j), IsState(method, out[j + 1][2]),
         MergedStored(work), StoredState(out[j + 1][2])
  PROVE  MergedStored(MergeOne(work, out[j + 1]))
<1>. DEFINE exit == out[j + 1]
            pc == exit[1]
            new == MergeState(work.states[pc], exit[2])
            next == MergeOne(work, exit)
<1>1. CASE work.verdict # "working"
  BY <1>1 DEF MergedStored, MergeOne
<1>2. CASE work.verdict = "working" /\ (pc \notin PCs \/ new = Clash)
  <2>1. next.verdict \in {"error", "panic"}
    BY <1>2 DEF MergeOne, Merged
  <2>. HIDE DEF next
  <2>2. MergedStored(next)
    BY <2>1 DEF MergedStored
  <2>. QED  BY <2>2 DEF next
<1>3. CASE work.verdict = "working" /\ pc \in PCs /\ new # Clash
  <2>1. StoredState(new)
    <3>1. IsState(method, work.states[pc]) /\ IsState(method, exit[2]) /\ StoredState(work.states[pc])
          /\ StoredState(exit[2])
      BY <1>3 DEF Merged, MergedStored
    <3>. HIDE DEF exit, pc
    <3>. QED  BY <1>3, <3>1, MergeStateStored
  <2>2. CASE new = work.states[pc]
    BY <1>3, <2>2 DEF MergeOne
  <2>3. CASE new # work.states[pc]
    <3>1. next = [work EXCEPT !.states = [@ EXCEPT ![pc] = new], !.queue = Requeued(@, pc)]
      BY <1>3, <2>3 DEF MergeOne
    <3>2. work = [states |-> work.states, queue |-> work.queue, verdict |-> work.verdict]
          /\ work.states = [p \in PCs |-> work.states[p]]
      BY <1>3 DEF Merged
    <3>3. next.states = [work.states EXCEPT ![pc] = new]
      BY <3>1, <3>2, Zenon
    <3>4. \A p \in PCs : StoredState([work.states EXCEPT ![pc] = new][p])
      <4>1. \A p \in PCs : StoredState(work.states[p])
        BY <1>3 DEF MergedStored
      <4>2. DOMAIN work.states = PCs
        BY <3>2
      <4>. HIDE DEF new, pc
      <4>. QED  BY <1>3, <2>1, <4>1, <4>2
    <3>. HIDE DEF next, new, pc
    <3>5. MergedStored(next)
      BY <3>3, <3>4 DEF MergedStored
    <3>. QED  BY <3>5 DEF next
  <2>. QED  BY <2>2, <2>3
<1>. QED  BY <1>1, <1>2, <1>3

LEMMA MergedAllStored ==
  ASSUME VerifierInv, queue # <<>>, \A p \in PCs : StoredState(states[p]), NEW out, IsList(out),
         \A j \in 1 .. Len(out) : IsState(method, out[j][2]) /\ StoredState(out[j][2])
  PROVE  MergedStored(MergeOut(out))
<1>. DEFINE first == [states |-> states, queue |-> Tail(queue), verdict |-> "working"]
<1>. Len(out) \in Nat
  BY DEF IsList
<1>1. PICK f : Merging(out, Len(out), f) /\ MergeOut(out) = f[Len(out)]
  <2>. DEFINE g == CHOOSE f : Merging(out, Len(out), f)
  <2>1. Merging(out, Len(out), g)
    BY MergingExists
  <2>2. MergeOut(out) = g[Len(out)]
    BY DEF MergeOut, Merging
  <2>. QED  BY <2>1, <2>2
<1>. DEFINE S == {n \in Nat : n <= Len(out) => Merged(f[n], out, n) /\ MergedStored(f[n])}
<1>2. 0 \in S
  <2>1. f[0] = first
    BY <1>1 DEF Merging
  <2>2. Tail(queue) \in Seq(PCs) /\ Listed(Tail(queue)) \subseteq Listed(queue)
    <3>1. queue \in Seq(PCs) /\ Len(queue) \in Nat
      BY DEF VerifierInv
    <3>. QED  BY <3>1, HeadTailProperties DEF Listed
  <2>3. Merged(first, out, 0) /\ MergedStored(first)
    <3>1. /\ first.states = states /\ first.queue = Tail(queue) /\ first.verdict = "working"
          /\ first = [states |-> first.states, queue |-> first.queue, verdict |-> first.verdict]
      OBVIOUS
    <3>2. /\ states = [pc \in PCs |-> states[pc]]
          /\ \A pc \in PCs : IsState(method, states[pc])
          /\ \A pc \in Listed(queue) : states[pc] # NoState
      BY DEF VerifierInv
    <3>3. \A k \in 1 .. 0 : Arrived(out[k], states)
      OBVIOUS
    <3>. HIDE DEF first
    <3>. QED  BY <2>2, <3>1, <3>2, <3>3, StateBelowReflexive DEF Merged, MergedStored
  <2>. QED  BY <2>1, <2>3
<1>3. ASSUME NEW n \in S PROVE n + 1 \in S
  <2>. SUFFICES ASSUME n + 1 <= Len(out) PROVE Merged(f[n + 1], out, n + 1) /\ MergedStored(f[n + 1])
    OBVIOUS
  <2>1. Merged(f[n], out, n) /\ MergedStored(f[n]) /\ IsState(method, out[n + 1][2]) /\ StoredState(out[n + 1][2])
    OBVIOUS
  <2>2. f[n + 1] = MergeOne(f[n], out[n + 1])
    <3>1. n + 1 \in 0 .. Len(out) /\ n + 1 # 0 /\ (n + 1) - 1 = n
      OBVIOUS
    <3>. QED  BY <1>1, <3>1 DEF Merging
  <2>. QED  BY <2>1, <2>2, MergedNext, MergedOneStored
<1>4. Len(out) \in S
  BY <1>2, <1>3, Counting
<1>. QED  BY <1>1, <1>4

LEMMA InitialStored ==
  ASSUME IsMethod(method)
  PROVE  StoredTypes(InitialLocals(method)) /\ PlainTypes(<<>>)
<1>. DEFINE who == CASE method.receiver = "none" -> <<>>
                     [] method.receiver = "init" -> <<UninitThis>>
                     [] OTHER -> <<Ref(method.receiver)>>
            ts == Given(method)
            locals == InitialLocals(method)
<1>1. PlainTypes(who)
  <2>1. Plain(UninitThis)
    BY DEF Plain, RefLike, UninitThis
  <2>. QED  BY <2>1, PlainOnes
<1>2. PlainTypes(method.params) /\ method.max_locals \in Nat
  <2>1. AreTypes(method.params) /\ method.max_locals \in Nat
    BY DEF IsMethod
  <2>. QED  BY <2>1, PlainOnes DEF AreTypes, PlainTypes
<1>3. ts = who \o method.params
  BY DEF Given
<1>. HIDE DEF who
<1>4. PlainTypes(ts)
  BY <1>1, <1>2, <1>3, PlainJoined
<1>5. locals = Spread(ts, method.max_locals, Unset)
  BY DEF InitialLocals
<1>6. IsList(locals) /\ Len(locals) = method.max_locals
  BY <1>2, <1>5, SpreadIsList
<1>7. ASSUME NEW j \in 1 .. method.max_locals PROVE StoredType(locals[j], j)
  <2>1. Plain(locals[j])
    <3>1. CASE \E k \in 1 .. Len(ts) : SlotOf(ts, k) = j
      <4>1. PICK k \in 1 .. Len(ts) : SlotOf(ts, k) = j
        BY <3>1
      <4>2. locals[j] = ts[k]
        BY <1>2, <1>4, <1>5, <4>1, SpreadAt DEF PlainTypes
      <4>. QED  BY <1>4, <4>1, <4>2 DEF PlainTypes
    <3>2. CASE ~ \E k \in 1 .. Len(ts) : SlotOf(ts, k) = j
      <4>1. locals[j] = Unset
        BY <1>2, <1>4, <1>5, <3>2, SpreadAt DEF PlainTypes
      <4>. QED  BY <4>1, PlainOnes
    <3>. QED  BY <3>1, <3>2
  <2>2. locals[j] # Unset => Lowered(locals[j]) \in StoredKinds(j - 1)
    <3>1. (j - 1) + 1 = j
      BY <1>2
    <3>. QED  BY <3>1 DEF StoredKinds
  <2>. HIDE DEF locals
  <2>. QED  BY <2>1, <2>2 DEF StoredType
<1>. HIDE DEF locals
<1>8. StoredTypes(locals)
  BY <1>6, <1>7 DEF StoredTypes
<1>. QED  BY <1>8, PlainOnes DEF locals

LEMMA VerifierInitStored == VerifierInit => StoredStates
<1>. SUFFICES ASSUME VerifierInit, NEW pc \in PCs PROVE StoredState(states[pc])
  BY DEF StoredStates
<1>1. StoredState(At(InitialLocals(method), <<>>))
  BY InitialStored DEF VerifierInit, StoredState, At
<1>2. StoredState(NoState)
  BY DEF StoredState
<1>. QED  BY <1>1, <1>2 DEF VerifierInit, InitVerifier

LEMMA StoredSame ==
  ASSUME UNCHANGED method, NEW s, StoredState(s)
  PROVE  StoredState(s)'
BY DEF StoredState, StoredTypes, StoredType, StoredKinds, PCs, Code

LEMMA StoredStatesKept ==
  ASSUME StoredStates, UNCHANGED <<method, states>>
  PROVE  StoredStates'
<1>1. PCs' = PCs /\ Subroutines' = Subroutines /\ states' = states
  BY DEF PCs, Code, Subroutines
<1>2. ASSUME NEW pc \in PCs, StoredState(states[pc]) PROVE StoredState(states[pc])'
  <2>1. PICK s : s = states[pc]
    OBVIOUS
  <2>2. StoredState(s)'
    BY <1>2, <2>1, StoredSame
  <2>3. states'[pc] = s
    BY <1>1, <2>1
  <2>. QED  BY <2>2, <2>3 DEF StoredState
<1>3. ~Subroutines => \A pc \in PCs : StoredState(states[pc])'
  BY <1>2 DEF StoredStates
<1>. QED  BY <1>1, <1>3 DEF StoredStates

LEMMA VerifyStored ==
  ASSUME VerifierInv, StoredStates, Propagate \/ Conclude, UNCHANGED method
  PROVE  StoredStates'
<1>1. CASE UNCHANGED states
  BY <1>1, StoredStatesKept
<1>2. CASE ~UNCHANGED states
  <2>. DEFINE pc == Head(queue)
              out == Outgoing(method, pc, states[pc])
              merged == MergeOut(out)
  <2>1. /\ queue # <<>> /\ Apply(method, pc, states[pc]) # NoState
        /\ merged.verdict = "working" /\ states' = merged.states
    BY <1>2 DEF Propagate, Conclude
  <2>2. IsMethod(method) /\ queue \in Seq(PCs) /\ DOMAIN method.code = PCs
    BY DEF VerifierInv, IsMethod, IsList, PCs, Code
  <2>3. pc \in PCs /\ pc \in Listed(queue)
    <3>1. 1 \in 1 .. Len(queue) /\ pc = queue[1]
      BY <2>1, <2>2
    <3>. QED  BY <2>2, <3>1 DEF Listed
  <2>4. IsState(method, states[pc]) /\ states[pc] # NoState
    BY <2>3 DEF VerifierInv
  <2>5. CASE Subroutines
    BY <2>5 DEF StoredStates, Subroutines, PCs, Code
  <2>6. CASE ~Subroutines
    <3>1. \A p \in PCs : StoredState(states[p])
      BY <2>6 DEF StoredStates
    <3>2. Code[pc].op # "jsr"
      BY <2>3, <2>6 DEF Subroutines
    <3>3. IsList(out) /\ \A j \in 1 .. Len(out) : IsState(method, out[j][2])
      BY <2>1, <2>2, <2>3, <2>4, OutgoingStates
    <3>4. \A j \in 1 .. Len(out) : StoredState(out[j][2])
      BY <2>1, <2>2, <2>3, <2>4, <3>1, <3>2, OutgoingStored
    <3>. HIDE DEF out
    <3>5. MergedStored(merged)
      BY <2>1, <3>1, <3>3, <3>4, MergedAllStored
    <3>. HIDE DEF merged
    <3>6. \A p \in PCs : StoredState(states'[p])
      BY <2>1, <3>5 DEF MergedStored
    <3>7. ASSUME NEW p \in PCs PROVE StoredState(states[p])'
      <4>1. PICK s : s = states'[p]
        OBVIOUS
      <4>2. StoredState(s)'
        BY <3>6, <4>1, StoredSame
      <4>. QED  BY <4>1, <4>2 DEF StoredState
    <3>8. PCs' = PCs
      BY DEF PCs, Code
    <3>. QED  BY <3>7, <3>8 DEF StoredStates
  <2>. QED  BY <2>5, <2>6
<1>. QED  BY <1>1, <1>2

-----------------------------------------------------------------------------
(* Slots that hold one kind of value are declared as that.                  *)
LEMMA SlotNext ==
  ASSUME NEW vs, NEW j \in Nat \ {0}
  PROVE  /\ SlotOf(vs, j) \in Nat /\ SlotOf(vs, j) >= j
         /\ SlotOf(vs, j + 1) = SlotOf(vs, j) + (IF Wide(vs[j]) THEN 2 ELSE 1)
<1>. DEFINE W == {k \in 1 .. j - 1 : Wide(vs[k])}
            V == {k \in 1 .. j : Wide(vs[k])}
<1>1. IsFiniteSet(W) /\ Cardinality(W) \in Nat
  <2>1. IsFiniteSet(1 .. j - 1)
    BY FS_Interval
  <2>2. IsFiniteSet(W)
    BY <2>1, FS_Subset
  <2>. QED  BY <2>2, FS_CardinalityType
<1>2. Cardinality(V) = Cardinality(W) + (IF Wide(vs[j]) THEN 1 ELSE 0)
  <2>1. j \notin W
    OBVIOUS
  <2>2. CASE Wide(vs[j])
    <3>1. V = W \cup {j}
      BY <2>2
    <3>. HIDE DEF V, W
    <3>. QED  BY <1>1, <2>1, <2>2, <3>1, FS_AddElement
  <2>3. CASE ~Wide(vs[j])
    <3>1. V = W
      BY <2>3
    <3>. HIDE DEF V, W
    <3>. QED  BY <1>1, <2>3, <3>1
  <2>. QED  BY <2>2, <2>3
<1>3. SlotOf(vs, j) = j + Cardinality(W) /\ SlotOf(vs, j + 1) = j + 1 + Cardinality(V)
  <2>1. (j + 1) - 1 = j
    OBVIOUS
  <2>. QED  BY <2>1 DEF SlotOf
<1>. HIDE DEF V, W
<1>. QED  BY <1>1, <1>2, <1>3

LEMMA FirstSlot == \A vs : SlotOf(vs, 1) = 1
<1>. TAKE vs
<1>1. {k \in 1 .. 1 - 1 : Wide(vs[k])} = {}
  OBVIOUS
<1>. QED  BY <1>1, FS_EmptySet DEF SlotOf

\* A slot among those of the arguments that none of them starts at is the second
\* of a wide one.
LEMMA SecondSlot ==
  ASSUME NEW vs, IsList(vs), Len(vs) # 0, NEW n \in Nat \ {0},
         n <= SlotOf(vs, Len(vs)) + (IF Wide(vs[Len(vs)]) THEN 1 ELSE 0),
         \A j \in 1 .. Len(vs) : SlotOf(vs, j) # n
  PROVE  \E j \in 1 .. Len(vs) : SlotOf(vs, j) = n - 1 /\ Wide(vs[j])
<1>0. Len(vs) \in Nat \ {0}
  BY DEF IsList
<1>. DEFINE T == {j \in 1 .. Len(vs) : SlotOf(vs, j) > n}
<1>1. CASE T = {}
  <2>. DEFINE l == Len(vs)
              s == SlotOf(vs, l)
  <2>1. l \in 1 .. Len(vs)
    BY <1>0
  <2>2. s \in Nat
    BY <1>0, SlotNext
  <2>3. ~(s > n) /\ s # n
    BY <1>1, <2>1
  <2>4. n <= s + (IF Wide(vs[l]) THEN 1 ELSE 0)
    OBVIOUS
  <2>. HIDE DEF s
  <2>5. s = n - 1 /\ Wide(vs[l])
    BY <2>2, <2>3, <2>4
  <2>. QED  BY <2>1, <2>5 DEF s
<1>2. CASE T # {}
  <2>1. PICK m \in T : \A k \in T : m <= k
    <3>1. T \subseteq Nat
      OBVIOUS
    <3>. QED  BY <1>2, <3>1, LeastExists
  <2>2. m # 1
    BY FirstSlot
  <2>. DEFINE l == m - 1
  <2>3. l \in 1 .. Len(vs) /\ l \in Nat \ {0} /\ l + 1 = m /\ ~(m <= l)
    BY <1>0, <2>1, <2>2
  <2>4. l \notin T
    BY <2>1, <2>3
  <2>5. SlotOf(vs, l) \in Nat /\ SlotOf(vs, m) = SlotOf(vs, l) + (IF Wide(vs[l]) THEN 2 ELSE 1)
    BY <2>3, SlotNext
  <2>6. SlotOf(vs, m) > n /\ ~(SlotOf(vs, l) > n) /\ SlotOf(vs, l) # n
    BY <2>1, <2>3, <2>4
  <2>7. \A a \in Nat : \A w \in {1, 2} : a + w > n /\ ~(a > n) /\ a # n => a = n - 1 /\ w = 2
    OBVIOUS
  <2>8. SlotOf(vs, l) = n - 1 /\ Wide(vs[l])
    BY <2>5, <2>6, <2>7
  <2>. QED  BY <2>3, <2>8
<1>. QED  BY <1>1, <1>2

LEMMA KindsArePairs ==
  /\ \A t : <<Lowered(t)[1], Lowered(t)[2]>> = Lowered(t) /\ Lowered(t) \in {I32, I64, Long64, F32, F64}
  /\ \A k : <<LoweredKind(k)[1], LoweredKind(k)[2]>> = LoweredKind(k)
  /\ <<I64[1], I64[2]>> = I64 /\ <<I32[1], I32[2]>> = I32
<1>1. \A v \in {I32, I64, Long64, F32, F64} : <<v[1], v[2]>> = v
  BY DEF I32, I64, Long64, F32, F64
<1>2. \A t : Lowered(t) \in {I32, I64, Long64, F32, F64}
  BY DEF Lowered
<1>3. \A k : LoweredKind(k) \in {I32, I64, Long64, F32, F64}
  BY <1>2 DEF LoweredKind
<1>. QED  BY <1>1, <1>2, <1>3

ArgSize ==
  LET ps == method.params
  IN IF ps = <<>> THEN 0 ELSE SlotOf(ps, Len(ps)) + (IF Wide(ps[Len(ps)]) THEN 1 ELSE 0)

LEMMA ArgsAre ==
  ASSUME IsMethod(method), method.receiver = "none"
  PROVE  /\ Given(method) = method.params /\ IsList(method.params) /\ Full(method.params)
         /\ method.max_locals \in Nat /\ ArgSize \in Nat /\ Len(ArgSlots) = ArgSize
         /\ InitialLocals(method) = Spread(method.params, method.max_locals, Unset)
         /\ \A n \in 1 .. ArgSize : ArgSlots[n] = Lowered(Spread(method.params, ArgSize, Unset)[n])
         /\ method.params # <<>> => Len(method.params) # 0
<1>1. AreTypes(method.params) /\ method.max_locals \in Nat
  BY DEF IsMethod
<1>2. IsList(method.params) /\ Full(method.params)
  BY <1>1 DEF AreTypes, IsType, Full, Unset, IntT, LongT, FloatT, DoubleT
<1>3. Given(method) = method.params
  BY <1>2, RestOfNone DEF Given
<1>4. method.params # <<>> => Len(method.params) # 0
  BY <1>2, EmptyList
<1>5. ArgSize \in Nat
  <2>1. CASE method.params = <<>>
    BY <2>1 DEF ArgSize
  <2>2. CASE method.params # <<>>
    <3>1. Len(method.params) \in Nat \ {0}
      BY <1>2, <1>4, <2>2 DEF IsList
    <3>2. SlotOf(method.params, Len(method.params)) \in Nat
      BY <3>1, SlotNext
    <3>. QED  BY <2>2, <3>2 DEF ArgSize
  <2>. QED  BY <2>1, <2>2
<1>6. ArgSlots = [n \in 1 .. ArgSize |-> Lowered(Spread(method.params, ArgSize, Unset)[n])]
  BY DEF ArgSlots, ArgSize
<1>7. Len(ArgSlots) = ArgSize
  <2>. HIDE DEF ArgSize
  <2>. QED  BY <1>5, <1>6
<1>. HIDE DEF ArgSize
<1>. QED  BY <1>1, <1>2, <1>3, <1>4, <1>5, <1>6, <1>7 DEF InitialLocals

(* What the compiler declares a slot as is a kind the slot has, unless the   *)
(* slot has none, or is the second one of an argument.                      *)
LEMMA SlotDeclared ==
  ASSUME IsMethod(method), method.receiver = "none", NEW m \in 0 .. method.max_locals - 1
  PROVE  \/ LocalVar(m) \in SlotKinds(m)
         \/ LocalVar(m) = I64 /\ StoredKinds(m) = {}
         \/ LocalVar(m) = I64 /\ m > 0 /\ \E k \in SlotKinds(m - 1) : k[2] = 2
<1>. DEFINE ps == method.params
            n == m + 1
<1>1. /\ IsList(ps) /\ Len(ps) \in Nat /\ Full(ps) /\ method.max_locals \in Nat /\ ArgSize \in Nat
      /\ Len(ArgSlots) = ArgSize /\ m \in Nat /\ n \in 1 .. method.max_locals
  BY ArgsAre DEF IsList
<1>2. InitialLocals(method) = Spread(ps, method.max_locals, Unset)
  BY ArgsAre
<1>3. \A a \in 1 .. ArgSize : ArgSlots[a] = Lowered(Spread(ps, ArgSize, Unset)[a])
  BY ArgsAre
<1>4. \A a \in 0 .. method.max_locals - 1 :
        InitialLocals(method)[a + 1] # Unset => Lowered(InitialLocals(method)[a + 1]) \in SlotKinds(a)
  BY DEF SlotKinds
<1>5. \A a \in 0 .. method.max_locals - 1 : \A j \in 1 .. Len(ps) :
        SlotOf(ps, j) = a + 1 => /\ InitialLocals(method)[a + 1] = ps[j] /\ ps[j] # Unset
                                 /\ Lowered(ps[j]) \in SlotKinds(a)
  <2>. SUFFICES ASSUME NEW a \in 0 .. method.max_locals - 1, NEW j \in 1 .. Len(ps), SlotOf(ps, j) = a + 1
                PROVE  InitialLocals(method)[a + 1] = ps[j] /\ ps[j] # Unset /\ Lowered(ps[j]) \in SlotKinds(a)
    OBVIOUS
  <2>1. a + 1 \in 1 .. method.max_locals
    BY <1>1
  <2>2. Spread(ps, method.max_locals, Unset)[a + 1] = ps[j]
    <3>. DEFINE size == method.max_locals
                b == a + 1
    <3>1. IsList(ps) /\ size \in Nat /\ b \in 1 .. size /\ SlotOf(ps, j) = b
      BY <1>1, <2>1
    <3>. HIDE DEF ps, size, b
    <3>2. Spread(ps, size, Unset)[b] = ps[j]
      BY <3>1, SpreadAt
    <3>. QED  BY <3>2 DEF size, b
  <2>3. ps[j] # Unset
    BY <1>1 DEF Full
  <2>4. InitialLocals(method)[a + 1] = ps[j]
    BY <1>2, <2>2
  <2>5. InitialLocals(method)[a + 1] # Unset => Lowered(InitialLocals(method)[a + 1]) \in SlotKinds(a)
    BY <1>4
  <2>. HIDE DEF ps
  <2>. QED  BY <2>3, <2>4, <2>5
<1>6. CASE m < ArgSize
  <2>1. n \in 1 .. ArgSize
    BY <1>1, <1>6
  <2>2. LocalVar(m) = ArgSlots[n]
    <3>1. LocalVar(m) = <<ArgSlots[n][1], ArgSlots[n][2]>>
      BY <1>1, <1>6 DEF LocalVar, LocalVarType, LocalVarKind
    <3>2. ArgSlots[n] = Lowered(Spread(ps, ArgSize, Unset)[n])
      BY <1>3, <2>1
    <3>. QED  BY <3>1, <3>2, KindsArePairs
  <2>3. CASE \E j \in 1 .. Len(ps) : SlotOf(ps, j) = n
    <3>1. PICK j \in 1 .. Len(ps) : SlotOf(ps, j) = n
      BY <2>3
    <3>2. Spread(ps, ArgSize, Unset)[n] = ps[j]
      BY <1>1, <2>1, <3>1, SpreadAt
    <3>3. Lowered(ps[j]) \in SlotKinds(m)
      BY <1>5, <3>1
    <3>. QED  BY <1>3, <2>1, <2>2, <3>2, <3>3
  <2>4. CASE \A j \in 1 .. Len(ps) : SlotOf(ps, j) # n
    <3>1. Spread(ps, ArgSize, Unset)[n] = Unset
      <4>. HIDE DEF ps, n
      <4>1. IsList(ps) /\ ArgSize \in Nat /\ n \in 1 .. ArgSize
        BY <1>1, <2>1
      <4>2. (\A j \in 1 .. Len(ps) : SlotOf(ps, j) # n) => Spread(ps, ArgSize, Unset)[n] = Unset
        BY <4>1, SpreadAt
      <4>. QED  BY <2>4, <4>2
    <3>2. LocalVar(m) = I64
      <4>1. Lowered(Unset) = I64
        BY DEF Lowered, Unset, IntT, LongT, FloatT, DoubleT
      <4>2. ArgSlots[n] = Lowered(Unset)
        BY <1>3, <2>1, <3>1
      <4>. QED  BY <2>2, <4>1, <4>2
    <3>3. ps # <<>> /\ n <= SlotOf(ps, Len(ps)) + (IF Wide(ps[Len(ps)]) THEN 1 ELSE 0)
      <4>1. ps = <<>> => ArgSize = 0
        BY DEF ArgSize
      <4>2. ps # <<>>
        BY <4>1, <1>6, <1>1
      <4>3. ArgSize = SlotOf(ps, Len(ps)) + (IF Wide(ps[Len(ps)]) THEN 1 ELSE 0)
        BY <4>2 DEF ArgSize
      <4>. QED  BY <4>2, <4>3, <2>1
    <3>4. Len(ps) # 0
      BY <3>3, ArgsAre
    <3>5. n \in Nat \ {0}
      BY <1>1
    <3>6. PICK j \in 1 .. Len(ps) : SlotOf(ps, j) = n - 1 /\ Wide(ps[j])
      BY <1>1, <2>4, <3>3, <3>4, <3>5, SecondSlot
    <3>7. SlotOf(ps, j) = m /\ SlotOf(ps, j) >= j
      BY <3>6, <1>1, SlotNext
    <3>8. m > 0 /\ m - 1 \in 0 .. method.max_locals - 1 /\ SlotOf(ps, j) = (m - 1) + 1
      BY <1>1, <3>7
    <3>9. Lowered(ps[j]) \in SlotKinds(m - 1)
      BY <1>5, <3>8
    <3>10. Lowered(ps[j])[2] = 2
      BY <3>6 DEF Wide, Lowered, Long64, F64, IntT, LongT, FloatT, DoubleT
    <3>. QED  BY <3>2, <3>8, <3>9, <3>10
  <2>. QED  BY <2>3, <2>4
<1>7. CASE ~(m < ArgSize)
  <2>1. \A j \in 1 .. Len(ps) : SlotOf(ps, j) # n
    <3>. SUFFICES ASSUME NEW j \in 1 .. Len(ps)
                  PROVE  SlotOf(ps, j) # n
      OBVIOUS
    <3>1. ps # <<>>
      BY <1>1
    <3>2. ArgSize = SlotOf(ps, Len(ps)) + (IF Wide(ps[Len(ps)]) THEN 1 ELSE 0)
      BY <3>1 DEF ArgSize
    <3>3. j \in Nat \ {0} /\ Len(ps) \in Nat \ {0}
      BY <1>1
    <3>4. j < Len(ps) => SlotOf(ps, j) <= SlotOf(ps, Len(ps))
      <4>1. j < Len(ps) => SlotOf(ps, j) + (IF Wide(ps[j]) THEN 2 ELSE 1) <= SlotOf(ps, Len(ps))
        BY <3>3, SlotsApart
      <4>2. SlotOf(ps, j) \in Nat /\ SlotOf(ps, Len(ps)) \in Nat
        BY <3>3, SlotNext
      <4>. QED  BY <4>1, <4>2
    <3>5. SlotOf(ps, j) \in Nat /\ SlotOf(ps, Len(ps)) \in Nat
      BY <3>3, SlotNext
    <3>6. SlotOf(ps, Len(ps)) <= ArgSize
      BY <3>2, <3>5
    <3>7. j = Len(ps) \/ j < Len(ps)
      BY <1>1
    <3>. QED  BY <1>1, <1>7, <3>4, <3>5, <3>6, <3>7
  <2>2. InitialLocals(method)[n] = Unset
    BY <1>1, <1>2, <2>1, SpreadAt
  <2>. DEFINE stores == {pc \in PCs : Code[pc].op \in {"store", "iinc"} /\ Code[pc].n = m}
              first == Code[CHOOSE pc \in stores : \A o \in stores : pc <= o]
  <2>3. LocalVar(m) = <<FirstStored(m)[1], FirstStored(m)[2]>>
    BY <1>1, <1>7 DEF LocalVar, LocalVarType, LocalVarKind, InferType, InferKind
  <2>4. FirstStored(m) = IF stores = {} THEN I64 ELSE IF first.op = "iinc" THEN I32 ELSE LoweredKind(first.k)
    BY DEF FirstStored
  <2>5. LocalVar(m) = FirstStored(m)
    BY <2>3, <2>4, KindsArePairs
  <2>6. CASE stores = {}
    <3>1. StoredKinds(m) = {}
      BY <2>2, <2>6 DEF StoredKinds
    <3>. QED  BY <2>4, <2>5, <2>6, <3>1
  <2>7. CASE stores # {}
    <3>1. stores \subseteq Nat
      BY DEF PCs
    <3>2. \E pc \in stores : \A o \in stores : pc <= o
      <4>. HIDE DEF stores
      <4>. QED  BY <2>7, <3>1, LeastExists
    <3>3. PICK pc \in stores : first = Code[pc]
      <4>. HIDE DEF stores
      <4>. QED  BY <3>2
    <3>4. pc \in PCs /\ Code[pc].n = m /\ (Code[pc].op = "store" \/ Code[pc].op = "iinc")
      OBVIOUS
    <3>5. CASE Code[pc].op = "iinc"
      <4>1. I32 \in SlotKinds(m)
        BY <3>4, <3>5 DEF SlotKinds
      <4>2. FirstStored(m) = I32
        BY <2>4, <2>7, <3>3, <3>5
      <4>. QED  BY <2>5, <4>1, <4>2
    <3>6. CASE Code[pc].op = "store"
      <4>1. LoweredKind(Code[pc].k) \in SlotKinds(m)
        BY <3>4, <3>6 DEF SlotKinds
      <4>2. FirstStored(m) = LoweredKind(Code[pc].k)
        BY <2>4, <2>7, <3>3, <3>6
      <4>. QED  BY <2>5, <4>1, <4>2
    <3>. QED  BY <3>4, <3>5, <3>6
  <2>. QED  BY <2>6, <2>7
<1>. QED  BY <1>6, <1>7

(* A slot of one kind is declared as that, and does not follow a wide one.   *)
LEMMA Declared ==
  ASSUME IsMethod(method), method.receiver = "none", OneKindPerSlot, NEW m \in 0 .. method.max_locals - 1,
         NEW k \in StoredKinds(m)
  PROVE  LocalVar(m) = k /\ (m > 0 => LocalVar(m - 1) \notin {Long64, F64})
<1>1. \A a : StoredKinds(a) \subseteq SlotKinds(a)
  BY DEF StoredKinds, SlotKinds
<1>2. k \in SlotKinds(m) /\ StoredKinds(m) # {}
  BY <1>1
<1>3. ~(m > 0 /\ \E l \in SlotKinds(m - 1) : l[2] = 2)
  BY <1>2 DEF OneKindPerSlot
<1>4. LocalVar(m) \in SlotKinds(m)
  BY <1>2, <1>3, SlotDeclared
<1>5. LocalVar(m) = k
  BY <1>2, <1>4 DEF OneKindPerSlot
<1>6. ASSUME m > 0
      PROVE  LocalVar(m - 1) \notin {Long64, F64}
  <2>1. m - 1 \in 0 .. method.max_locals - 1
    BY <1>6 DEF IsMethod
  <2>2. LocalVar(m - 1) \in SlotKinds(m - 1) \/ LocalVar(m - 1) = I64
    BY <2>1, SlotDeclared
  <2>3. Long64[2] = 2 /\ F64[2] = 2 /\ Long64 # I64 /\ F64 # I64
    BY DEF Long64, F64, I64
  <2>. QED  BY <1>3, <1>6, <2>2, <2>3
<1>. QED  BY <1>5, <1>6

-----------------------------------------------------------------------------
(* What the compiler's words are decoded as.                                *)
LEMMA SlotHolds ==
  ASSUME VerifierInv, StoredStates, ~Subroutines, OneKindPerSlot, method.receiver = "none",
         NEW p \in PCs, states[p] # NoState, NEW j \in 1 .. method.max_locals, states[p].locals[j] # Unset
  PROVE  LET t == states[p].locals[j]
         IN /\ Plain(t) /\ LocalVar(j - 1) = Lowered(t)
            /\ LocalKinds[j] = DeoptKind(Lowered(t))
<1>. DEFINE t == states[p].locals[j]
<1>1. IsMethod(method) /\ IsState(method, states[p]) /\ method.max_locals \in Nat
  BY DEF VerifierInv, IsMethod
<1>2. Plain(t) /\ Lowered(t) \in StoredKinds(j - 1)
  <2>1. StoredTypes(states[p].locals) /\ Len(states[p].locals) = method.max_locals
    BY <1>1, StateParts DEF StoredStates
  <2>. QED  BY <2>1 DEF StoredTypes, StoredType
<1>3. j - 1 \in 0 .. method.max_locals - 1
  BY <1>1
<1>4. LocalVar(j - 1) = Lowered(t) /\ (j - 1 > 0 => LocalVar((j - 1) - 1) \notin {Long64, F64})
  BY <1>1, <1>2, <1>3, Declared
<1>5. LocalKinds[j] = DeoptKind(Lowered(t))
  <2>1. (j - 1) - 1 = j - 2 /\ (j > 1 <=> j - 1 > 0)
    BY <1>1
  <2>2. ~(j > 1 /\ LocalVar(j - 2) \in {Long64, F64})
    BY <1>4, <2>1
  <2>. HIDE DEF t
  <2>. QED  BY <1>4, <2>2 DEF LocalKinds
<1>. QED  BY <1>2, <1>4, <1>5

LEMMA LoadsHold ==
  ASSUME VerifierInv, StoredStates, ~Subroutines, OneKindPerSlot, method.receiver = "none",
         NEW p \in PCs, states[p] # NoState, Apply(method, p, states[p]) # NoState
  PROVE  LoadAgreesAt(p)
<1>. DEFINE i == Code[p]
            s == states[p]
            t == LoadLocal(i, s)
<1>. SUFFICES ASSUME i.op = "load"
              PROVE  LocalVar(i.n) = LoweredKind(i.k)
  BY DEF LoadAgreesAt
<1>1. /\ IsMethod(method) /\ IsState(method, s) /\ method.max_locals \in Nat /\ i.n \in Nat
      /\ Len(s.locals) = method.max_locals
  BY DEF VerifierInv, IsMethod, IsInstruction, IsState, IsList, PCs, Code
<1>2. ApplyLoad(method, i, s) # NoState
  BY DEF Apply, StackOps, Code
<1>3. IF i.k = "A" THEN RefLike(t) ELSE t = TypeOf(i.k)
  BY <1>2 DEF ApplyLoad
<1>4. t # Unset
  BY <1>3 DEF RefLike, Unset, TypeOf, IntT, LongT, FloatT, DoubleT
<1>5. i.n + 1 \in 1 .. method.max_locals /\ t = s.locals[i.n + 1]
  BY <1>1, <1>4 DEF LoadLocal
<1>6. LocalVar((i.n + 1) - 1) = Lowered(s.locals[i.n + 1])
  <2>. DEFINE j == i.n + 1
  <2>1. j \in 1 .. method.max_locals /\ s.locals[j] # Unset
    BY <1>4, <1>5
  <2>2. LocalVar(j - 1) = Lowered(s.locals[j])
    <3>. HIDE DEF j, i, t
    <3>. QED  BY <2>1, SlotHolds
  <2>. QED  BY <2>2
<1>7. (i.n + 1) - 1 = i.n
  BY <1>1
<1>8. Lowered(t) = LoweredKind(i.k)
  BY <1>3, StandsForReference DEF LoweredKind
<1>. QED  BY <1>5, <1>6, <1>7, <1>8

(* A word decoded as what it was lowered from is the value.                 *)
LEMMA DecodeSame ==
  ASSUME NEW t, Plain(t), t # Unset, NEW v, Covers(t, v)
  PROVE  Decode(DeoptKind(Lowered(t)), v) = v /\ DeoptKind(Lowered(t)) # "Top"
<1>1. CASE RefLike(t)
  <2>1. Lowered(t) = I64
    BY <1>1, StandsForReference
  <2>2. DeoptKind(I64) = "Reference"
    BY DEF DeoptKind, I32, I64, F32, F64, Long64
  <2>3. IsReference(v)
    BY <1>1 DEF RefLike, Covers, Unset, IsReference
  <2>. QED  BY <2>1, <2>2, <2>3 DEF Decode
<1>2. CASE t \in Kinds
  <2>1. v = t
    BY <1>2 DEF Kinds, Covers, Unset, IntT, LongT, FloatT, DoubleT
  <2>2. /\ Lowered(IntT) = I32 /\ Lowered(LongT) = Long64 /\ Lowered(FloatT) = F32 /\ Lowered(DoubleT) = F64
    BY DEF Lowered, IntT, LongT, FloatT, DoubleT
  <2>3. DeoptKind(I32) = "Int" /\ DeoptKind(Long64) = "Long" /\ DeoptKind(F32) = "Float" /\ DeoptKind(F64) = "Double"
    BY DEF DeoptKind, I32, I64, F32, F64, Long64
  <2>4. DeoptKind(Lowered(t)) = t[1] /\ t = <<t[1]>> /\ t[1] \notin {"Top", "Reference"}
    BY <1>2, <2>2, <2>3 DEF Kinds, IntT, LongT, FloatT, DoubleT
  <2>. QED  BY <2>1, <2>4 DEF Decode
<1>. QED  BY <1>1, <1>2 DEF Plain

LEMMA WholeTop ==
  ASSUME NEW s, IsList(s)
  PROVE  Top(s, Len(s)) = s
<1>. DEFINE n == Len(s)
<1>1. n \in Nat /\ s = [j \in 1 .. n |-> s[j]]
  BY DEF IsList
<1>2. Top(s, n) = [j \in 1 .. n |-> s[j]]
  <2>1. s \in Seq({s[j] : j \in 1 .. n})
    BY ListIsSeq
  <2>. QED  BY <1>1, <2>1 DEF Top
<1>. QED  BY <1>1, <1>2

LEMMA EveryEntry ==
  ASSUME NEW n \in Nat, NEW j \in 1 .. n
  PROVE  Cardinality(1 .. n) = n /\ EntryAfter(1 .. n, j - 1) = j
<1>1. \A k \in 1 .. n : Cardinality({x \in 1 .. n : x < k}) = k - 1
  <2>. SUFFICES ASSUME NEW k \in 1 .. n PROVE Cardinality({x \in 1 .. n : x < k}) = k - 1
    OBVIOUS
  <2>1. {x \in 1 .. n : x < k} = 1 .. k - 1
    OBVIOUS
  <2>2. Cardinality(1 .. k - 1) = k - 1
    BY FS_Interval
  <2>. QED  BY <2>1, <2>2
<1>2. Cardinality(1 .. n) = n
  BY FS_Interval
<1>3. \A k \in 1 .. n : Cardinality({x \in 1 .. n : x < k}) = j - 1 <=> k = j
  BY <1>1
<1>4. EntryAfter(1 .. n, j - 1) = j
  BY <1>3 DEF EntryAfter
<1>. QED  BY <1>2, <1>4

(* A buffer that has a word for each entry is read entry by entry.           *)
LEMMA DecodedWhole ==
  ASSUME NEW kinds, IsList(kinds), \A j \in 1 .. Len(kinds) : DeoptKind(kinds[j]) # "Top",
         NEW raw, IsList(raw), Len(raw) = Len(kinds)
  PROVE  DecodedStack(kinds, raw) = [j \in 1 .. Len(kinds) |-> Decode(DeoptKind(kinds[j]), raw[j])]
<1>. DEFINE n == Len(kinds)
            word(b) == IF b <= Len(raw) THEN raw[Len(raw) + 1 - b] ELSE NoValue
            entryAt(j) == EntryAfter(1 .. n, j - 1)
<1>1. n \in Nat /\ Decoded(kinds) = 1 .. n
  BY DEF IsList, Decoded
<1>2. Cardinality(1 .. n) = n
  <2>1. \A a \in Nat : Cardinality(1 .. a) = a
    BY FS_Interval
  <2>. QED  BY <1>1, <2>1
<1>3. DecodedStack(kinds, raw) = [j \in 1 .. n |-> Decode(DeoptKind(kinds[entryAt(j)]), word(n + 1 - entryAt(j)))]
  BY <1>1, <1>2 DEF DecodedStack
<1>4. \A j \in 1 .. n : entryAt(j) = j
  BY <1>1, EveryEntry
<1>5. \A j \in 1 .. n : word(n + 1 - j) = raw[j]
  <2>. SUFFICES ASSUME NEW j \in 1 .. n PROVE word(n + 1 - j) = raw[j]
    OBVIOUS
  <2>1. n + 1 - j <= Len(raw) /\ Len(raw) + 1 - (n + 1 - j) = j
    BY <1>1
  <2>. QED  BY <2>1
<1>. HIDE DEF n, word, entryAt
<1>6. \A j \in 1 .. n :
        Decode(DeoptKind(kinds[entryAt(j)]), word(n + 1 - entryAt(j))) = Decode(DeoptKind(kinds[j]), raw[j])
  BY <1>4, <1>5
<1>7. DecodedStack(kinds, raw) = [j \in 1 .. n |-> Decode(DeoptKind(kinds[j]), raw[j])]
  BY <1>3, <1>6
<1>. QED  BY <1>7 DEF n

(* The methods of which what is rebuilt is what was there.                  *)
Rebuildable ==
  /\ VerifierInv /\ StoredStates /\ ~Subroutines
  /\ OneKindPerSlot /\ method.receiver = "none" /\ ~Tests

LEMMA StackRestored ==
  ASSUME Rebuildable, NEW f, FrameFits(f), f.m = "main", Tracked(f.pc), Words(recorded[f.pc])
  PROVE  DecodedStack(recorded[f.pc], Top(f.stack, Len(recorded[f.pc]))) = f.stack
<1>. DEFINE kinds == recorded[f.pc]
            types == states[f.pc].stack
            raw == f.stack
            n == Len(kinds)
<1>1. /\ IsList(raw) /\ AllCovered(types, raw) /\ f.pc \in PCs /\ states[f.pc] # NoState
  BY DEF FrameFits, LocalsFit, StatesOf, MethodOf, PCs, Code
<1>2. /\ IsList(kinds) /\ n \in Nat /\ n = Len(types) /\ Len(raw) = n
      /\ \A j \in 1 .. n : StandsFor(kinds[j], types[j]) /\ Covers(types[j], raw[j])
  BY <1>1 DEF Tracked, Follows, TopOf, AllCovered, IsList
<1>3. \A j \in 1 .. n : Plain(types[j]) /\ types[j] # Unset
  <2>1. IsState(method, states[f.pc]) /\ StoredState(states[f.pc])
    BY <1>1 DEF Rebuildable, VerifierInv, StoredStates
  <2>2. PlainTypes(types)
    BY <1>1, <2>1, StateParts
  <2>3. \A j \in 1 .. Len(types) : types[j] # Unset
    BY <1>1, <2>1 DEF IsState
  <2>. QED  BY <1>2, <2>2, <2>3 DEF PlainTypes
<1>4. \A j \in 1 .. n : kinds[j] = Lowered(types[j])
  <2>. SUFFICES ASSUME NEW j \in 1 .. n PROVE kinds[j] = Lowered(types[j])
    OBVIOUS
  <2>1. Word(kinds[j])
    BY <1>2 DEF Words
  <2>2. kinds[j] # I8
    BY <2>1 DEF Rebuildable, Word, I8
  <2>. QED  BY <1>2, <2>2 DEF StandsFor
<1>5. \A j \in 1 .. n : Decode(DeoptKind(kinds[j]), raw[j]) = raw[j] /\ DeoptKind(kinds[j]) # "Top"
  BY <1>2, <1>3, <1>4, DecodeSame
<1>6. Top(raw, n) = raw
  BY <1>1, <1>2, WholeTop
<1>7. DecodedStack(kinds, raw) = [j \in 1 .. n |-> Decode(DeoptKind(kinds[j]), raw[j])]
  <2>. HIDE DEF kinds, raw
  <2>1. IsList(kinds) /\ IsList(raw) /\ Len(raw) = Len(kinds) /\ \A j \in 1 .. Len(kinds) : DeoptKind(kinds[j]) # "Top"
    BY <1>1, <1>2, <1>5
  <2>. QED  BY <2>1, DecodedWhole
<1>8. raw = [j \in 1 .. n |-> raw[j]]
  BY <1>1, <1>2 DEF IsList
<1>9. DecodedStack(kinds, raw) = raw
  <2>. HIDE DEF kinds, raw, n
  <2>. QED  BY <1>5, <1>7, <1>8
<1>. QED  BY <1>6, <1>9

RestoredLocals(f) == [j \in 1 .. method.max_locals |-> Decode(LocalKinds[j], f.locals[j])]

LEMMA LocalsRestored ==
  ASSUME Rebuildable, NEW f, f.m = "main", LocalsFit(f, f.pc)
  PROVE  /\ IsList(RestoredLocals(f)) /\ Paired(RestoredLocals(f))
         /\ AllCovered(states[f.pc].locals, RestoredLocals(f))
<1>. DEFINE ls == RestoredLocals(f)
            types == states[f.pc].locals
            n == method.max_locals
<1>1. /\ f.pc \in PCs /\ states[f.pc] # NoState /\ AllCovered(types, f.locals) /\ IsList(f.locals)
  BY DEF LocalsFit, StatesOf, MethodOf, PCs, Code
<1>2. n \in Nat /\ IsList(types) /\ Len(types) = n
  BY <1>1 DEF Rebuildable, VerifierInv, IsMethod, IsState
<1>3. IsList(ls) /\ Len(ls) = n /\ \A j \in 1 .. n : ls[j] = Decode(LocalKinds[j], f.locals[j])
  <2>1. ls = [j \in 1 .. n |-> Decode(LocalKinds[j], f.locals[j])]
    BY DEF RestoredLocals
  <2>2. ls = [j \in 1 .. n |-> ls[j]] /\ \A j \in 1 .. n : ls[j] = Decode(LocalKinds[j], f.locals[j])
    BY <2>1
  <2>. HIDE DEF ls
  <2>3. IsList(ls) /\ Len(ls) = n
    BY <1>2, <2>2, ListOf
  <2>. QED  BY <2>2, <2>3
<1>4. \A j \in 1 .. n : Covers(types[j], ls[j])
  <2>. SUFFICES ASSUME NEW j \in 1 .. n PROVE Covers(types[j], ls[j])
    OBVIOUS
  <2>1. CASE types[j] = Unset
    BY <2>1 DEF Covers, Unset
  <2>2. CASE types[j] # Unset
    <3>1. Plain(types[j]) /\ LocalKinds[j] = DeoptKind(Lowered(types[j]))
      BY <1>1, <2>2, SlotHolds DEF Rebuildable
    <3>2. Covers(types[j], f.locals[j])
      BY <1>1, <1>2 DEF AllCovered
    <3>3. ls[j] = f.locals[j]
      <4>. HIDE DEF types, ls
      <4>. QED  BY <1>3, <2>2, <3>1, <3>2, DecodeSame
    <3>. QED  BY <3>2, <3>3
  <2>. QED  BY <2>1, <2>2
<1>5. Paired(ls)
  <2>. SUFFICES ASSUME NEW j \in 1 .. n - 1, Wide(ls[j]) PROVE ls[j + 1] = NoValue
    BY <1>3 DEF Paired
  <2>1. j \in 1 .. n /\ j + 1 \in 1 .. n /\ j + 1 > 1 /\ (j + 1) - 2 = j - 1
    BY <1>2
  <2>2. LocalKinds[j] \in {"Long", "Double"}
    <3>. DEFINE k == LocalKinds[j]
                raw == f.locals[j]
    <3>1. Wide(Decode(k, raw))
      BY <1>3, <2>1
    <3>2. CASE k = "Top"
      BY <3>1, <3>2 DEF Decode, Wide, NoValue, LongT, DoubleT
    <3>3. CASE k = "Reference"
      <4>1. Decode(k, raw) \in {NullT, Obj("?")} \/ (IsReference(raw) /\ Decode(k, raw) = raw)
        BY <3>3 DEF Decode
      <4>2. Decode(k, raw)[1] \in {"Null", "Obj"}
        BY <4>1 DEF IsReference, NullT, Obj
      <4>. QED  BY <3>1, <4>2 DEF Wide, LongT, DoubleT
    <3>4. CASE k \notin {"Top", "Reference"}
      <4>1. Decode(k, raw) = <<k>>
        BY <3>4 DEF Decode
      <4>. QED  BY <3>1, <4>1 DEF Wide, LongT, DoubleT
    <3>. QED  BY <3>2, <3>3, <3>4
  <2>3. LocalVar(j - 1) \in {Long64, F64}
    <3>1. DeoptKind(LocalVar(j - 1)) \in {"Long", "Double"}
      BY <2>1, <2>2 DEF LocalKinds
    <3>. QED  BY <3>1 DEF DeoptKind
  <2>4. LocalKinds[j + 1] = "Top"
    BY <2>1, <2>3 DEF LocalKinds
  <2>. QED  BY <1>3, <2>1, <2>4 DEF Decode
<1>. QED  BY <1>2, <1>3, <1>4, <1>5 DEF AllCovered

(* The frame rebuilt from the buffer of compiled code.                      *)
LEMMA FrameRestored ==
  ASSUME Rebuildable, FrameFits(jit.frame), jit.frame.m = "main", Tracked(jit.frame.pc),
         Words(recorded[jit.frame.pc]), jit.pc = jit.frame.pc,
         jit.stack = Top(jit.frame.stack, Len(recorded[jit.frame.pc]))
  PROVE  /\ FrameFits(RestoredFrame(jit.pc)) /\ LocalsFit(RestoredFrame(jit.pc + 1), jit.pc)
         /\ \A p : RestoredFrame(p).m = "main" /\ RestoredFrame(p).pc = p
<1>. DEFINE f == jit.frame
            stack == f.stack
            locals == RestoredLocals(f)
<1>1. \A p : RestoredFrame(p) = [m |-> "main", pc |-> p, stack |-> stack, locals |-> locals]
  BY StackRestored DEF RestoredFrame, RestoredLocals
<1>2. IsList(locals) /\ Paired(locals) /\ AllCovered(states[f.pc].locals, locals)
  BY LocalsRestored DEF FrameFits
<1>3. /\ IsList(stack) /\ AllCovered(states[f.pc].stack, stack) /\ f.pc \in 1 .. Len(method.code)
      /\ states[f.pc] # NoState
  BY DEF FrameFits, LocalsFit, StatesOf, MethodOf
<1>. DEFINE g(p) == RestoredFrame(p)
<1>4. \A p : /\ g(p).m = "main" /\ g(p).pc = p /\ g(p).stack = stack /\ g(p).locals = locals
             /\ g(p) = [m |-> g(p).m, pc |-> g(p).pc, locals |-> g(p).locals, stack |-> g(p).stack]
  BY <1>1
<1>5. \A p : MethodOf(g(p)) = method /\ StatesOf(g(p)) = states /\ g(p).m \in Names
  BY <1>4 DEF MethodOf, StatesOf, Names
<1>. HIDE DEF g, locals, stack
<1>6. \A p : LocalsFit(g(p), f.pc)
  BY <1>2, <1>3, <1>4, <1>5 DEF LocalsFit
<1>7. FrameFits(g(jit.pc))
  BY <1>3, <1>4, <1>5, <1>6 DEF FrameFits
<1>. QED  BY <1>4, <1>6, <1>7 DEF g

-----------------------------------------------------------------------------
(* What a helper of compiled code does is what the interpreter would, with   *)
(* the method called run to its end.                                        *)
LEMMA EndIsInstruction ==
  ASSUME NEW i, IsInstruction(i), i.op = "invoke"
  PROVE  IsInstruction(ToTheEnd(i)) /\ ToTheEnd(i).op = "invoke" /\ ToTheEnd(i).callee = "native"
<1>. DEFINE e == ToTheEnd(i)
<1>1. e.op = i.op /\ e.mode = i.mode /\ e.args = i.args /\ e.r = i.r /\ e.callee = "native"
  BY DEF ToTheEnd
<1>2. i.op \in Opcodes /\ i.op = "invoke"
  BY DEF IsInstruction
<1>3. /\ i.mode \in {"static", "special", "init", "virtual", "interface", "dynamic"}
      /\ AreTypes(i.args) /\ AreTypes(i.r) /\ Len(i.r) <= 1 /\ (i.mode = "dynamic" => i.r # <<>>)
  BY DEF IsInstruction
<1>. HIDE DEF e
<1>4. IsInstruction(e)
  BY <1>1, <1>2, <1>3 DEF IsInstruction, Fields
<1>. QED  BY <1>1, <1>2, <1>4 DEF e

LEMMA NativeCallFits ==
  ASSUME NEW f, Ready(f), InstrOf(f).op = "invoke", InstrOf(f).mode # "dynamic",
         NEW o \in Call(ToTheEnd(InstrOf(f)), Past(f), ReceiversOf(InstrOf(f)))
  PROVE  OutcomeFits(f, o)
<1>. DEFINE i == InstrOf(f)
            e == ToTheEnd(i)
            k == ReceiversOf(i)
            n == Len(i.args) + k
            wants == [j \in 1 .. n |-> IF j = n /\ k = 1 THEN "Reference" ELSE "Any"]
            results == IF i.r = <<>> THEN {<<>>} ELSE {<<v>> : v \in ValuesOf(i.r[1])}
            all == {Go(Past(f), n, r) : r \in results} \cup {Throws("E")}
<1>1. i.op \in Simple \ Leaves
  BY DEF Simple, Opcodes, StackOps, Leaves
<1>2. \A r : Popping(Past(f), wants, r) = r
  BY CallPops
<1>3. IsInstruction(i)
  BY ReadyFacts
<1>4. \A r \in results : IsList(r) /\ AllCovered(i.r, r)
  BY <1>3, ResultsCovered DEF IsInstruction
<1>5. EffectAt(f).push = i.r /\ Len(EffectAt(f).pop) = n
  BY InvokePops
<1>6. e.args = i.args /\ e.r = i.r /\ e.callee = "native"
  BY DEF ToTheEnd
<1>7. o \in all
  <2>1. Call(e, Past(f), k) = Popping(Past(f), wants, all)
    BY <1>6 DEF Call
  <2>. HIDE DEF all, wants
  <2>. QED  BY <1>2, <2>1 DEF all
<1>8. ASSUME NEW r \in results PROVE OutcomeFits(f, Go(Past(f), n, r))
  BY <1>1, <1>4, <1>5, Goes
<1>. HIDE DEF results
<1>. QED  BY <1>7, <1>8, OtherOutcomes

LEMMA HelperFits ==
  ASSUME NEW f, Ready(f), NEW o \in HelperOutcomes(InstrOf(f), Past(f))
  PROVE  OutcomeFits(f, o)
<1>. DEFINE i == InstrOf(f)
            e == ToTheEnd(i)
<1>1. CASE i.op # "invoke"
  <2>1. o \in ExecuteOpcode(i, Past(f))
    BY <1>1 DEF HelperOutcomes
  <2>. QED  BY <2>1, ExecuteOpcodeFits
<1>2. CASE i.op = "invoke" /\ NullReceiver(i, Past(f))
  <2>1. o = NPE
    BY <1>2 DEF HelperOutcomes
  <2>. QED  BY <2>1, OtherOutcomes
<1>3. CASE i.op = "invoke" /\ ~NullReceiver(i, Past(f))
  <2>1. o \in ExecuteOpcode(e, Past(f))
    BY <1>3 DEF HelperOutcomes
  <2>2. e.op = "invoke" /\ e.mode = i.mode /\ e.args = i.args /\ e.r = i.r /\ e.callee = "native"
    BY <1>3 DEF ToTheEnd
  <2>3. o \in Invoke(e, Past(f))
    <3>. HIDE DEF e
    <3>. QED  BY <2>1, <2>2 DEF ExecuteOpcode, StackOps
  <2>4. i.mode \in {"static", "special", "init", "virtual", "interface", "dynamic"}
    BY <1>3, ReadyFacts DEF IsInstruction
  <2>5. CASE i.mode = "dynamic"
    <3>1. o \in CallDynamic(e, Past(f))
      BY <2>2, <2>3, <2>5 DEF Invoke
    <3>2. CallDynamic(e, Past(f)) = CallDynamic(i, Past(f))
      BY <2>2 DEF CallDynamic
    <3>. QED  BY <1>3, <2>5, <3>1, <3>2, DynamicFits
  <2>6. CASE i.mode # "dynamic"
    <3>1. o \in Call(e, Past(f), ReceiversOf(i)) \/ o = NPE
      BY <2>2, <2>3, <2>4, <2>6 DEF Invoke, CallStatic, CallSpecial, CallVirtual, CallInterface, ReceiversOf
    <3>. QED  BY <1>3, <2>6, <3>1, NativeCallFits, OtherOutcomes
  <2>. QED  BY <2>5, <2>6
<1>. QED  BY <1>1, <1>2, <1>3

(* It goes on at the next instruction or at a target.                       *)
LEMMA HelperLeads ==
  ASSUME NEW f, Ready(f), InstrOf(f).op \notin {"jsr", "ret"}, NEW o \in HelperOutcomes(InstrOf(f), Past(f))
  PROVE  Leads(InstrOf(f), Past(f), o)
<1>. DEFINE i == InstrOf(f)
            e == ToTheEnd(i)
            g == Past(f)
<1>1. IsInstruction(i)
  BY ReadyFacts
<1>2. Shaped(g)
  BY PastOf DEF Shaped
<1>3. CASE i.op # "invoke"
  <2>1. o \in ExecuteOpcode(i, g)
    BY <1>3 DEF HelperOutcomes
  <2>. HIDE DEF i, g
  <2>2. Leads(i, g, o)
    BY <1>1, <1>2, <1>3, <2>1, LeadsEach DEF i
  <2>. QED  BY <2>2 DEF i, g
<1>4. CASE i.op = "invoke" /\ NullReceiver(i, g)
  <2>1. o = NPE
    BY <1>4 DEF HelperOutcomes
  <2>. QED  BY <2>1, LeadsNowhere
<1>5. CASE i.op = "invoke" /\ ~NullReceiver(i, g)
  <2>1. o \in ExecuteOpcode(e, g)
    BY <1>5 DEF HelperOutcomes
  <2>2. IsInstruction(e) /\ e.op = "invoke" /\ e.callee = "native"
    BY <1>1, <1>5, EndIsInstruction
  <2>3. Leads(e, g, o)
    <3>. HIDE DEF e, g
    <3>. QED  BY <1>2, <2>1, <2>2, LeadsEach
  <2>4. Targets(e, NoState) = Targets(i, NoState) /\ (e.op \notin Leaves <=> i.op \notin Leaves)
    <3>. HIDE DEF e
    <3>. QED  BY <1>5, <2>2 DEF Targets
  <2>. HIDE DEF e, g
  <2>5. Leads(i, g, o)
    BY <2>3, <2>4 DEF Leads
  <2>. QED  BY <2>5 DEF g
<1>. QED  BY <1>3, <1>4, <1>5

-----------------------------------------------------------------------------
(* The frame compiled code computes on is one the verifier saw, and the      *)
(* compiler's stack is the whole of its.                                    *)
Held(f) == FrameFits(f) /\ f.m = "main" /\ Tracked(f.pc)

(* The methods ResumedAsVerified speaks of.                                 *)
Restorable == OneKindPerSlot /\ ReachedInOrder /\ method.receiver = "none" /\ ~Tests

(* What was compiled to the end.                                            *)
CompiledWhole ==
  /\ VerifierInv /\ Supported(method) /\ verdict = "ok" /\ StoredStates
  /\ WalkInv /\ LoweringShape /\ Compiled

LEMMA WholeFacts ==
  ASSUME CompiledWhole, Restorable
  PROVE  /\ Rebuildable /\ Certified(method, states) /\ ~Subroutines
         /\ \A pc \in PCs : IsLowered(pc) => Words(recorded[pc])
<1>1. ~Subroutines /\ WalkLowered
  BY AllPassed DEF CompiledWhole
<1>2. Certified(method, states)
  BY AcceptedCertified DEF CompiledWhole
<1>. QED  BY <1>1, <1>2 DEF CompiledWhole, Restorable, Rebuildable, WalkLowered

LEMMA HeldReady ==
  ASSUME Certified(method, states), NEW f, Held(f)
  PROVE  /\ Ready(f) /\ f.pc \in PCs /\ states[f.pc] # NoState /\ MethodOf(f) = method /\ StatesOf(f) = states
         /\ InstrOf(f) = Code[f.pc] /\ IsList(f.stack)
         /\ f = [m |-> f.m, pc |-> f.pc, locals |-> f.locals, stack |-> f.stack]
<1>1. MethodOf(f) = method /\ StatesOf(f) = states
  BY DEF Held, MethodOf, StatesOf
<1>. QED  BY <1>1 DEF Held, Ready, FrameFits, LocalsFit, PCs, Code, InstrOf

LEMMA HeldOn ==
  ASSUME CompiledWhole, Restorable, NEW f, Held(f), NEW o \in HelperOutcomes(Code[f.pc], Past(f)), o.is = "step"
  PROVE  Held(o.frame)
<1>. DEFINE i == Code[f.pc]
            p == o.frame.pc
<1>1. Rebuildable /\ Certified(method, states) /\ ~Subroutines
  BY WholeFacts
<1>2. /\ Ready(f) /\ f.pc \in PCs /\ states[f.pc] # NoState /\ MethodOf(f) = method /\ StatesOf(f) = states
      /\ InstrOf(f) = i
  BY <1>1, HeldReady
<1>3. i.op \notin {"jsr", "ret"}
  BY <1>1, <1>2 DEF Subroutines
<1>4. FrameFits(o.frame) /\ o.frame.m = "main"
  <2>1. OutcomeFits(f, o)
    BY <1>2, HelperFits
  <2>. QED  BY <2>1 DEF OutcomeFits, Held
<1>5. Leads(i, Past(f), o)
  BY <1>2, <1>3, HelperLeads
<1>6. AfterOf(f) = Apply(method, f.pc, states[f.pc]) /\ AfterOf(f) # NoState
  BY <1>2, ReadyFacts DEF AfterOf, StateOf
<1>7. /\ p \in Successors(f.pc)
      /\ p \in PCs /\ StateBelow(AfterOf(f), states[p])
  <2>1. Past(f).pc = f.pc + 1
    BY <1>2, PastOf
  <2>2. CASE i.op \notin Leaves /\ p = f.pc + 1
    <3>1. GoesTo(f, f.pc + 1)
      BY <1>2, <2>2, ReadyFacts
    <3>2. p \in PCs /\ StateBelow(AfterOf(f), states[p])
      BY <1>2, <2>2, <3>1 DEF GoesTo, PCs, Code
    <3>3. p \in Successors(f.pc)
      BY <2>2 DEF Successors
    <3>. QED  BY <3>2, <3>3
  <2>3. CASE \E j \in 1 .. Len(Targets(i, NoState)) : p = Targets(i, NoState)[j]
    <3>1. PICK j \in 1 .. Len(Targets(i, NoState)) : p = Targets(i, NoState)[j]
      BY <2>3
    <3>2. Targets(i, AfterOf(f)) = Targets(i, NoState)
      BY <1>3 DEF Targets
    <3>3. GoesTo(f, p)
      BY <1>2, <3>1, <3>2, ReadyFacts
    <3>4. p \in PCs /\ StateBelow(AfterOf(f), states[p])
      BY <1>2, <3>3 DEF GoesTo, PCs, Code
    <3>5. p \in Successors(f.pc)
      <4>1. IsList(Targets(i, NoState))
        BY <1>2, <3>2, ReadyFacts
      <4>2. DOMAIN Targets(i, NoState) = 1 .. Len(Targets(i, NoState))
        BY <4>1 DEF IsList
      <4>. QED  BY <3>1, <4>2 DEF Successors
    <3>. QED  BY <3>4, <3>5
  <2>. QED  BY <1>5, <2>1, <2>2, <2>3 DEF Leads
<1>8. LoadAgreesAt(f.pc)
  BY <1>1, <1>2, <1>6, LoadsHold DEF Rebuildable
<1>9. Tracked(p)
  <2>1. Tracked(f.pc) /\ ReachedInOrder
    BY DEF Held, Restorable
  <2>2. VerifierInv /\ verdict = "ok" /\ WalkInv /\ LoweringShape /\ Compiled
    BY DEF CompiledWhole
  <2>. QED  BY <1>2, <1>6, <1>7, <1>8, <2>1, <2>2, TrackedOn
<1>. QED  BY <1>4, <1>9 DEF Held

-----------------------------------------------------------------------------
(* Compiled code at work.                                                   *)
JitShape ==
  jit = [is |-> jit.is, frame |-> jit.frame, value |-> jit.value, pc |-> jit.pc, stack |-> jit.stack,
         reason |-> jit.reason, exception |-> jit.exception, late |-> jit.late]

LEMMA JitWithReason ==
  ASSUME NEW i, NEW f, NEW v, NEW p, NEW s, NEW r, NEW e, NEW l, NEW a, NEW b
  PROVE  [[is |-> i, frame |-> f, value |-> v, pc |-> p, stack |-> s, reason |-> r, exception |-> e, late |-> l]
            EXCEPT !.reason = a, !.exception = b] =
         [is |-> i, frame |-> f, value |-> v, pc |-> p, stack |-> s, reason |-> a, exception |-> b, late |-> l]
<1>. DEFINE j == [is |-> i, frame |-> f, value |-> v, pc |-> p, stack |-> s, reason |-> r, exception |-> e, late |-> l]
            k1 == [j EXCEPT !.reason = a]
            k2 == [k1 EXCEPT !.exception = b]
<1>1. [j EXCEPT !.reason = a, !.exception = b] = k2
  OBVIOUS
<1>2. k1 = [is |-> i, frame |-> f, value |-> v, pc |-> p, stack |-> s, reason |-> a, exception |-> e, late |-> l]
  OBVIOUS
<1>3. k2 = [is |-> i, frame |-> f, value |-> v, pc |-> p, stack |-> s, reason |-> a, exception |-> b, late |-> l]
  <2>. HIDE DEF k1
  <2>. QED  BY <1>2
<1>. QED  BY <1>1, <1>3

(* Before a helper has asked for something the frame is the verifier's; once *)
(* one has, and the code has looked, the buffer holds that frame.            *)
Working(j) == j.reason = NoRequest => j.exception = <<>> /\ (j.is = "in" => Held(j.frame))
Buffered(j) ==
  j.reason # NoRequest /\ j.is = "left" =>
    Held(j.frame) /\ j.pc = j.frame.pc /\ j.stack = Top(j.frame.stack, Len(recorded[j.frame.pc]))
Yields(j) == AllCovered(method.returns, j.value)

LEMMA HelpersAsk == \A i, f, o : HelperAsks(i, f, o).reason # NoRequest
<1>. SUFFICES ASSUME NEW i, NEW f, NEW o PROVE HelperAsks(i, f, o).reason # NoRequest
  OBVIOUS
<1>1. (\A c : Raised(c).reason # NoRequest) /\ OnError(o).reason # NoRequest
  BY DEF Raised, OnError, Again, NoRequest
<1>2. \A r \in {"NullCheck", "AllocationFailure", "ClassCast", "MonitorFailure"} : Again(r).reason # NoRequest
  BY DEF Again, NoRequest
<1>. USE DEF StaticFieldHelper, InstanceFieldHelper, StaticCallHelper, DynamicCallHelper, InstanceCallHelper,
             AllocationHelper, CheckcastHelper, MonitorHelper, AthrowHelper, ReferenceElementHelper,
             TypedElementHelper, ArrayLengthHelper
<1>3. CASE i.op \in {"getstatic", "putstatic", "getfield", "putfield"}
  BY <1>1, <1>2, <1>3 DEF HelperAsks
<1>4. CASE i.op = "invoke"
  BY <1>1, <1>2, <1>4 DEF HelperAsks
<1>5. CASE i.op \in {"new", "newarray", "checkcast", "monitor", "athrow", "arraylength"}
  BY <1>1, <1>2, <1>5 DEF HelperAsks
<1>6. CASE i.op \in {"arrayload", "arraystore"}
  BY <1>1, <1>2, <1>6 DEF HelperAsks
<1>7. CASE i.op \notin {"getstatic", "putstatic", "getfield", "putfield", "invoke", "new", "newarray", "checkcast",
                       "monitor", "athrow", "arraylength", "arrayload", "arraystore"}
  BY <1>1, <1>7 DEF HelperAsks
<1>. QED  BY <1>3, <1>4, <1>5, <1>6, <1>7

LEMMA ZerosCovered ==
  ASSUME IsMethod(method)
  PROVE  AllCovered(method.returns, [j \in 1 .. Len(method.returns) |-> ZeroOf(method.returns[j])])
<1>. DEFINE ts == method.returns
            zs == [j \in 1 .. Len(ts) |-> ZeroOf(ts[j])]
<1>1. IsList(ts) /\ Len(ts) \in Nat /\ \A j \in 1 .. Len(ts) : IsType(ts[j])
  BY DEF IsMethod, AreTypes, IsList
<1>2. zs = [j \in 1 .. Len(ts) |-> zs[j]] /\ \A j \in 1 .. Len(ts) : zs[j] = ZeroOf(ts[j])
  OBVIOUS
<1>3. \A t : IsType(t) => Covers(t, ZeroOf(t))
  <2>1. \A t \in {IntT, LongT, FloatT, DoubleT} : ZeroOf(t) = t /\ Covers(t, t)
    BY KindCovered DEF Kinds, ZeroOf, IntT, LongT, FloatT, DoubleT
  <2>2. ASSUME NEW t, t[1] = "Ref" PROVE Covers(t, ZeroOf(t))
    <3>1. ZeroOf(t) = NullT
      BY <2>2 DEF ZeroOf
    <3>. QED  BY <2>2, <3>1 DEF Covers, IsReference, NullT, Unset
  <2>. QED  BY <2>1, <2>2 DEF IsType
<1>. HIDE DEF zs
<1>4. Len(zs) = Len(ts)
  BY <1>1, <1>2, ListOf
<1>5. AllCovered(ts, zs)
  BY <1>1, <1>2, <1>3, <1>4 DEF AllCovered
<1>. QED  BY <1>5 DEF zs

LEMMA EnterHolds ==
  ASSUME CompiledWhole, Running, RunsAt(frames, outcome), Len(frames) = 1, Head(frames).stack = <<>>,
         Head(frames).pc = entry, EnterJit
  PROVE  JitShape' /\ Yields(jit') /\ Working(jit') /\ Buffered(jit') /\ jit'.is = "in" /\ compiled' = "used"
<1>. DEFINE f == Head(frames)
            zs == [j \in 1 .. Len(method.returns) |-> ZeroOf(method.returns[j])]
<1>1. /\ jit' = [is |-> "in", frame |-> f, value |-> zs, pc |-> 0, stack |-> <<>>, reason |-> NoRequest,
                 exception |-> <<>>, late |-> FALSE]
      /\ compiled' = "used"
  BY DEF EnterJit, JitOff
<1>2. f = frames[1] /\ FrameFits(f) /\ f.m = "main"
  BY TailOf DEF RunsAt, Stacked, Running
<1>3. Tracked(f.pc)
  <2>1. IsLowered(entry) /\ recorded[entry] = <<>> /\ entry \in PCs
    BY EntryLowered DEF CompiledWhole
  <2>2. /\ AllCovered(states[entry].stack, <<>>) /\ states[entry] # NoState
    BY <1>2 DEF FrameFits, LocalsFit, StatesOf
  <2>3. IsList(states[entry].stack)
    BY <2>1, <2>2 DEF CompiledWhole, VerifierInv, IsState
  <2>4. Follows(<<>>, states[entry].stack) /\ Len(<<>>) = Len(states[entry].stack)
    BY <2>2, <2>3, FollowsNothing DEF AllCovered
  <2>. QED  BY <2>1, <2>4 DEF Tracked
<1>4. AllCovered(method.returns, zs)
  BY ZerosCovered DEF CompiledWhole, VerifierInv
<1>. HIDE DEF f, zs
<1>5. Held(f)
  BY <1>2, <1>3 DEF Held
<1>. QED  BY <1>1, <1>4, <1>5 DEF JitShape, Yields, Working, Buffered, NoRequest

(* One instruction of it, field by field.                                   *)
JitRecord(is, frame, value, pc, stack, reason, exception, late) ==
  [is |-> is, frame |-> frame, value |-> value, pc |-> pc, stack |-> stack, reason |-> reason,
   exception |-> exception, late |-> late]

BufferStack == Top(jit.frame.stack, Len(recorded[jit.frame.pc]))
BufferPc == IF jit.reason # NoRequest THEN jit.pc ELSE jit.frame.pc
WasLate == jit.late \/ jit.reason # NoRequest
RaisedBy(q) == IF q.exception = <<>> THEN jit.exception ELSE q.exception

RunsTo(o) ==
  LET f == jit.frame
      i == Code[f.pc]
      q == HelperAsks(i, Past(f), o)
  IN \/ /\ o.is = "step"
        /\ jit' = JitRecord("in", o.frame, jit.value, BufferPc, BufferStack, jit.reason, jit.exception, WasLate)
     \/ /\ o.is = "return"
        /\ jit' = JitRecord("left", f, o.value, BufferPc, BufferStack, jit.reason, jit.exception, WasLate)
     \/ jit' = JitRecord("in", GoesOn(i, Past(f)), jit.value, BufferPc, BufferStack, q.reason, RaisedBy(q), WasLate)
     \/ jit' = JitRecord("left", f, jit.value, BufferPc, BufferStack, q.reason, RaisedBy(q), WasLate)

LEMMA RunIs ==
  ASSUME JitShape, RunCompiled
  PROVE  jit.is = "in" /\ \E o \in HelperOutcomes(Code[jit.frame.pc], Past(jit.frame)) : RunsTo(o)
<1>. DEFINE f == jit.frame
            i == Code[f.pc]
            next == Past(f)
            state == DeoptState(f)
<1>1. jit.is = "in" /\ next = [f EXCEPT !.pc = @ + 1]
  BY DEF RunCompiled, Past
<1>2. PICK o \in HelperOutcomes(i, next) :
        jit' = CASE o.is = "step" -> [state EXCEPT !.frame = o.frame]
                 [] o.is = "return" -> [state EXCEPT !.is = "left", !.value = o.value]
                 [] o.is \in {"throw", "error"} /\ i.op = "invoke" ->
                      [Marked(state, HelperAsks(i, next, o)) EXCEPT !.frame = GoesOn(i, next)]
                 [] OTHER -> [Marked(state, HelperAsks(i, next, o)) EXCEPT !.is = "left"]
  BY <1>1 DEF RunCompiled
<1>. DEFINE q == HelperAsks(i, next, o)
            g == GoesOn(i, next)
            stack == BufferStack
            late == WasLate
            pc == BufferPc
            raised == RaisedBy(q)
<1>3. state = [is |-> "in", frame |-> f, value |-> jit.value, pc |-> pc, stack |-> stack,
               reason |-> jit.reason, exception |-> jit.exception, late |-> late]
  <2>. DEFINE all == [is |-> "in", frame |-> f, value |-> jit.value, pc |-> jit.pc, stack |-> jit.stack,
                      reason |-> jit.reason, exception |-> jit.exception, late |-> jit.late]
  <2>1. jit = all
    BY <1>1 DEF JitShape
  <2>2. state = [jit EXCEPT !.pc = pc, !.stack = stack, !.late = late]
    BY DEF DeoptState, BufferStack, WasLate, BufferPc
  <2>. HIDE DEF state, pc, stack, late, f
  <2>3. [all EXCEPT !.pc = pc, !.stack = stack, !.late = late] =
          [is |-> "in", frame |-> f, value |-> jit.value, pc |-> pc, stack |-> stack,
           reason |-> jit.reason, exception |-> jit.exception, late |-> late]
    <3>. DEFINE v == jit.value  p == jit.pc  s == jit.stack  r == jit.reason  e == jit.exception  l == jit.late
    <3>1. all = [is |-> "in", frame |-> f, value |-> v, pc |-> p, stack |-> s, reason |-> r, exception |-> e, late |-> l]
      OBVIOUS
    <3>. HIDE DEF v, p, s, r, e, l, all
    <3>2. [all EXCEPT !.pc = pc, !.stack = stack, !.late = late] =
            [is |-> "in", frame |-> f, value |-> v, pc |-> pc, stack |-> stack, reason |-> r, exception |-> e,
             late |-> late]
      <4>. DEFINE j1 == [all EXCEPT !.pc = pc]
                  j2 == [j1 EXCEPT !.stack = stack]
                  j3 == [j2 EXCEPT !.late = late]
      <4>1. [all EXCEPT !.pc = pc, !.stack = stack, !.late = late] = j3
        OBVIOUS
      <4>2. j1 = [is |-> "in", frame |-> f, value |-> v, pc |-> pc, stack |-> s, reason |-> r, exception |-> e,
                  late |-> l]
        BY <3>1
      <4>3. j3 = [is |-> "in", frame |-> f, value |-> v, pc |-> pc, stack |-> stack, reason |-> r, exception |-> e,
                  late |-> late]
        <5>. HIDE DEF j1
        <5>1. j2 = [is |-> "in", frame |-> f, value |-> v, pc |-> pc, stack |-> stack, reason |-> r, exception |-> e,
                    late |-> l]
          BY <4>2
        <5>. HIDE DEF j2
        <5>. QED  BY <5>1
      <4>. QED  BY <4>1, <4>3
    <3>. QED  BY <3>2 DEF v, r, e
  <2>. HIDE DEF all
  <2>. QED  BY <2>1, <2>2, <2>3
<1>4. Marked(state, q) = [is |-> "in", frame |-> f, value |-> jit.value, pc |-> pc, stack |-> stack,
                          reason |-> q.reason, exception |-> raised, late |-> late]
  <2>. HIDE DEF q, state, stack, late, pc, f
  <2>1. state.exception = jit.exception
    BY <1>3
  <2>2. raised = IF q.exception = <<>> THEN state.exception ELSE q.exception
    BY <2>1 DEF RaisedBy
  <2>3. Marked(state, q) = [state EXCEPT !.reason = q.reason,
                                         !.exception = IF q.exception = <<>> THEN @ ELSE q.exception]
    BY DEF Marked
  <2>. HIDE DEF raised
  <2>4. Marked(state, q) = [state EXCEPT !.reason = q.reason, !.exception = raised]
    BY <2>2, <2>3
  <2>. QED  BY <1>3, <2>4, JitWithReason
<1>. HIDE DEF next, state, stack, late, pc, raised, q, g
<1>5. CASE o.is = "step"
  <2>1. jit' = [state EXCEPT !.frame = o.frame]
    BY <1>2, <1>5
  <2>2. jit' = JitRecord("in", o.frame, jit.value, pc, stack, jit.reason, jit.exception, late)
    BY <1>3, <2>1 DEF JitRecord
  <2>. QED  BY <1>1, <1>5, <2>2 DEF RunsTo, pc, stack, late, next
<1>6. CASE o.is = "return"
  <2>1. jit' = [state EXCEPT !.is = "left", !.value = o.value]
    BY <1>2, <1>6
  <2>2. jit' = JitRecord("left", f, o.value, pc, stack, jit.reason, jit.exception, late)
    BY <1>3, <2>1 DEF JitRecord
  <2>. QED  BY <1>1, <1>6, <2>2 DEF RunsTo, pc, stack, late, next
<1>7. CASE o.is \in {"throw", "error"} /\ i.op = "invoke"
  <2>1. jit' = [Marked(state, q) EXCEPT !.frame = g]
    BY <1>2, <1>7 DEF q, g
  <2>2. jit' = JitRecord("in", g, jit.value, pc, stack, q.reason, raised, late)
    BY <1>4, <2>1 DEF JitRecord
  <2>. QED  BY <1>1, <2>2 DEF RunsTo, pc, stack, late, next, q, g, raised
<1>8. CASE ~(o.is = "step") /\ ~(o.is = "return") /\ ~(o.is \in {"throw", "error"} /\ i.op = "invoke")
  <2>1. jit' = [Marked(state, q) EXCEPT !.is = "left"]
    BY <1>2, <1>8 DEF q
  <2>2. jit' = JitRecord("left", f, jit.value, pc, stack, q.reason, raised, late)
    BY <1>4, <2>1 DEF JitRecord
  <2>. QED  BY <1>1, <2>2 DEF RunsTo, pc, stack, late, next, q, raised
<1>. QED  BY <1>5, <1>6, <1>7, <1>8

LEMMA RunShape ==
  ASSUME JitShape, RunCompiled
  PROVE  JitShape' /\ jit'.is \in {"in", "left"} /\ (jit.late => jit'.late)
<1>1. PICK o : RunsTo(o)
  BY RunIs
<1>2. \E is \in {"in", "left"} : \E f, v, p, st, r, e : jit' = JitRecord(is, f, v, p, st, r, e, WasLate)
  BY <1>1, Zenon DEF RunsTo
<1>3. PICK is \in {"in", "left"} : \E f, v, p, st, r, e : jit' = JitRecord(is, f, v, p, st, r, e, WasLate)
  BY <1>2
<1>4. PICK f, v, p, st, r, e : jit' = JitRecord(is, f, v, p, st, r, e, WasLate)
  BY <1>3
<1>5. JitShape'
  BY <1>4 DEF JitShape, JitRecord
<1>6. jit'.is = is /\ jit'.late = WasLate
  BY <1>4 DEF JitRecord
<1>. QED  BY <1>5, <1>6 DEF WasLate

LEMMA RunHolds ==
  ASSUME CompiledWhole, Restorable, JitShape, Yields(jit), Working(jit), RunCompiled, ~jit'.late
  PROVE  Yields(jit') /\ Working(jit') /\ Buffered(jit')
<1>. DEFINE f == jit.frame
            i == Code[f.pc]
            next == Past(f)
<1>1. PICK o \in HelperOutcomes(i, next) : RunsTo(o)
  BY RunIs
<1>. DEFINE q == HelperAsks(i, next, o)
<1>2. jit.is = "in"
  BY RunIs
<1>3. ~WasLate
  BY <1>1 DEF RunsTo, JitRecord
<1>4. jit.reason = NoRequest /\ Held(f) /\ jit.exception = <<>> /\ BufferPc = f.pc
  BY <1>2, <1>3 DEF WasLate, Working, BufferPc
<1>5. q.reason # NoRequest
  BY HelpersAsk
<1>. HIDE DEF next, q, i
<1>6. CASE /\ o.is = "step"
           /\ jit' = JitRecord("in", o.frame, jit.value, BufferPc, BufferStack, jit.reason, jit.exception, WasLate)
  <2>1. Held(o.frame)
    BY <1>4, <1>6, HeldOn DEF next, i
  <2>. QED  BY <1>4, <1>6, <2>1 DEF Yields, Working, Buffered, JitRecord
<1>7. CASE /\ o.is = "return"
           /\ jit' = JitRecord("left", f, o.value, BufferPc, BufferStack, jit.reason, jit.exception, WasLate)
  <2>1. Certified(method, states)
    BY WholeFacts
  <2>2. Ready(f) /\ InstrOf(f) = i /\ MethodOf(f) = method
    BY <1>4, <2>1, HeldReady DEF i
  <2>3. OutcomeFits(f, o)
    BY <2>2, HelperFits DEF next
  <2>4. AllCovered(method.returns, o.value)
    BY <1>7, <2>2, <2>3 DEF OutcomeFits
  <2>. QED  BY <1>4, <1>7, <2>4 DEF Yields, Working, Buffered, JitRecord
<1>8. CASE jit' = JitRecord("in", GoesOn(i, next), jit.value, BufferPc, BufferStack, q.reason, RaisedBy(q), WasLate)
  BY <1>5, <1>8 DEF Yields, Working, Buffered, JitRecord
<1>9. CASE jit' = JitRecord("left", f, jit.value, BufferPc, BufferStack, q.reason, RaisedBy(q), WasLate)
  BY <1>4, <1>5, <1>9 DEF Yields, Working, Buffered, JitRecord, BufferStack
<1>. QED  BY <1>1, <1>6, <1>7, <1>8, <1>9 DEF RunsTo, next, i, q

(* Left for the interpreter, and back from it.                              *)
LEMMA CompleteRuns ==
  ASSUME CompiledWhole, Restorable, JitShape, Yields(jit), Working(jit), Buffered(jit), Complete
  PROVE  RunsAt(frames', outcome')
<1>. DEFINE g(p) == RestoredFrame(p)
<1>1. /\ jit.is = "left"
      /\ frames' = <<RestoredFrame(IF jit.exception = <<>> THEN jit.pc ELSE jit.pc + 1)>>
      /\ outcome' = IF jit.exception # <<>>
                    THEN [is |-> IF method.handlers = <<>> THEN "unhandled" ELSE "throwing",
                          what |-> jit.exception]
                    ELSE IF jit.reason # NoRequest THEN Continue
                    ELSE [is |-> "returned", what |-> jit.value]
  BY DEF Complete
<1>2. \A p : Stacked(<<RestoredFrame(p)>>) /\ <<RestoredFrame(p)>>[1] = RestoredFrame(p)
  <2>. SUFFICES ASSUME NEW p
                PROVE  Stacked(<<RestoredFrame(p)>>) /\ <<RestoredFrame(p)>>[1] = RestoredFrame(p)
    OBVIOUS
  <2>1. RestoredFrame(p).m = "main"
    BY DEF RestoredFrame
  <2>2. /\ IsList(<<RestoredFrame(p)>>) /\ Len(<<RestoredFrame(p)>>) = 1
        /\ <<RestoredFrame(p)>>[1] = RestoredFrame(p)
    BY ShortLists
  <2>. QED  BY <2>1, <2>2 DEF Stacked
<1>3. ASSUME jit.reason # NoRequest
      PROVE  /\ FrameFits(RestoredFrame(jit.pc)) /\ LocalsFit(RestoredFrame(jit.pc + 1), jit.pc)
             /\ RestoredFrame(jit.pc + 1).pc - 1 = jit.pc
  <2>1. Held(jit.frame) /\ jit.pc = jit.frame.pc /\ jit.stack = Top(jit.frame.stack, Len(recorded[jit.frame.pc]))
    BY <1>1, <1>3 DEF Buffered
  <2>2. Rebuildable /\ Certified(method, states) /\ \A pc \in PCs : IsLowered(pc) => Words(recorded[pc])
    BY WholeFacts
  <2>3. jit.pc \in PCs
    BY <2>1, <2>2, HeldReady
  <2>4. Words(recorded[jit.frame.pc])
    BY <2>1, <2>2, <2>3 DEF Held, Tracked
  <2>5. /\ FrameFits(RestoredFrame(jit.pc)) /\ LocalsFit(RestoredFrame(jit.pc + 1), jit.pc)
        /\ RestoredFrame(jit.pc + 1).pc = jit.pc + 1
    BY <2>1, <2>2, <2>4, FrameRestored DEF Held
  <2>. QED  BY <2>3, <2>5 DEF PCs
<1>4. CASE jit.exception # <<>>
  <2>1. jit.reason # NoRequest
    BY <1>4 DEF Working
  <2>2. frames' = <<RestoredFrame(jit.pc + 1)>>
    BY <1>1, <1>4
  <2>3. PICK is \in {"unhandled", "throwing"} : outcome' = [is |-> is, what |-> jit.exception]
    BY <1>1, <1>4
  <2>. QED  BY <1>2, <1>3, <2>1, <2>2, <2>3 DEF RunsAt
<1>5. CASE jit.exception = <<>> /\ jit.reason # NoRequest
  <2>1. frames' = <<RestoredFrame(jit.pc)>> /\ outcome' = Continue
    BY <1>1, <1>5
  <2>. QED  BY <1>2, <1>3, <1>5, <2>1 DEF RunsAt, Continue
<1>6. CASE jit.exception = <<>> /\ jit.reason = NoRequest
  <2>1. frames' = <<RestoredFrame(jit.pc)>> /\ outcome' = [is |-> "returned", what |-> jit.value]
    BY <1>1, <1>6
  <2>. QED  BY <1>2, <2>1 DEF RunsAt, Yields
<1>. QED  BY <1>4, <1>5, <1>6

LEMMA ForgetRuns ==
  ASSUME RunsAt(frames, outcome), Yields(jit), Forget
  PROVE  RunsAt(frames', outcome')
<1>1. Stacked(frames') /\ AllCovered(method.returns, jit.value)
  BY DEF Forget, RunsAt, Yields
<1>2. CASE outcome' = [is |-> "unhandled", what |-> jit.exception]
  BY <1>1, <1>2 DEF RunsAt
<1>3. CASE outcome' = [is |-> "returned", what |-> jit.value]
  BY <1>1, <1>3 DEF RunsAt
<1>. QED  BY <1>2, <1>3 DEF Forget

LEMMA JitIsSet ==
  ASSUME JitShape, NEW is, jit' = [jit EXCEPT !.is = is]
  PROVE  /\ JitShape' /\ jit'.is = is /\ jit'.value = jit.value /\ jit'.late = jit.late
         /\ Yields(jit) => Yields(jit')
<1>1. /\ jit' = [is |-> is, frame |-> jit.frame, value |-> jit.value, pc |-> jit.pc, stack |-> jit.stack,
                 reason |-> jit.reason, exception |-> jit.exception, late |-> jit.late]
  BY DEF JitShape
<1>2. JitShape'
  BY <1>1 DEF JitShape
<1>. QED  BY <1>1, <1>2 DEF Yields

-----------------------------------------------------------------------------
(* The same of the next state.                                              *)
LEMMA HeldKept ==
  ASSUME UNCHANGED <<method, states, recorded>>
  PROVE  /\ Yields(jit') => Yields(jit)'
         /\ Working(jit') => Working(jit)'
         /\ Buffered(jit') => Buffered(jit)'
<1>. DEFINE MethodIn(m, f) == IF f.m = "main" THEN m ELSE Callees[f.m]
            StatesIn(S, f) == IF f.m = "main" THEN S ELSE Certificate[f.m]
            LocalsIn(m, S, f, pc) ==
              /\ f.m \in Names
              /\ f = [m |-> f.m, pc |-> f.pc, locals |-> f.locals, stack |-> f.stack]
              /\ pc \in 1 .. Len(MethodIn(m, f).code)
              /\ StatesIn(S, f)[pc] # NoState
              /\ IsList(f.locals) /\ Paired(f.locals)
              /\ AllCovered(StatesIn(S, f)[pc].locals, f.locals)
            FrameIn(m, S, f) ==
              /\ LocalsIn(m, S, f, f.pc)
              /\ IsList(f.stack) /\ AllCovered(StatesIn(S, f)[f.pc].stack, f.stack)
            HeldIn(m, S, R, f) ==
              /\ FrameIn(m, S, f) /\ f.m = "main"
              /\ R[f.pc] # Unrecorded /\ Follows(R[f.pc], S[f.pc].stack) /\ Len(R[f.pc]) = Len(S[f.pc].stack)
            WorkingIn(m, S, R, j) ==
              j.reason = NoRequest => j.exception = <<>> /\ (j.is = "in" => HeldIn(m, S, R, j.frame))
            BufferedIn(m, S, R, j) ==
              j.reason # NoRequest /\ j.is = "left" =>
                HeldIn(m, S, R, j.frame) /\ j.pc = j.frame.pc /\ j.stack = Top(j.frame.stack, Len(R[j.frame.pc]))
<1>. USE DEF Held, Tracked, IsLowered, FrameFits, LocalsFit, StatesOf, MethodOf
<1>1. /\ Working(jit') <=> WorkingIn(method, states, recorded, jit')
      /\ Working(jit)' <=> WorkingIn(method', states', recorded', jit')
  BY DEF Working
<1>2. /\ Buffered(jit') <=> BufferedIn(method, states, recorded, jit')
      /\ Buffered(jit)' <=> BufferedIn(method', states', recorded', jit')
  BY DEF Buffered
<1>3. Yields(jit') => Yields(jit)'
  BY DEF Yields
<1>. HIDE DEF WorkingIn, BufferedIn
<1>. QED  BY <1>1, <1>2, <1>3

LEMMA RestorableKept ==
  ASSUME UNCHANGED <<method, vvars, entry, recorded>>
  PROVE  Restorable' <=> Restorable
<1>1. /\ PCs' = PCs /\ Code' = Code /\ \A pc : Successors(pc)' = Successors(pc)
  BY OneMethod
<1>2. Tests' = Tests
  BY TestsKept
<1>3. \A n : SlotKinds(n)' = SlotKinds(n)
  BY <1>1 DEF SlotKinds
<1>4. OneKindPerSlot' <=> OneKindPerSlot
  BY <1>3 DEF OneKindPerSlot
<1>5. ReachedInOrder' <=> ReachedInOrder
  BY <1>1 DEF ReachedInOrder, IsLowered, vvars
<1>. QED  BY <1>2, <1>4, <1>5 DEF Restorable
-----------------------------------------------------------------------------
(* The invariant.  While the compiler works and until its code is entered    *)
(* the frame waits at the entry; compiled code holds a frame the verifier    *)
(* saw; and the interpreter, once it has it back, runs as after a start.     *)
JitPhases ==
  /\ JitShape
  /\ compiled \in {"lowering", "yes"} =>
       phase = "run" /\ Running /\ Len(frames) = 1 /\ Head(frames).stack = <<>> /\ Head(frames).pc = entry
  /\ phase = "compiled" => compiled = "used" /\ jit.is \in {"in", "left"}
  /\ phase = "resumed" => compiled = "used" /\ jit.is \in {"back", "forgot"}

JitHolds ==
  /\ phase \in {"compiled", "resumed"} => Yields(jit)
  /\ phase = "compiled" => Working(jit) /\ Buffered(jit)
  /\ phase = "resumed" => RunsAt(frames, outcome)

ResumeInv ==
  /\ CompiledInv /\ WalkInv /\ StoredStates
  /\ JitPhases
  /\ Restorable /\ ~jit.late => JitHolds

LEMMA ResumeInitInv == CompiledInit => ResumeInv
<1>. SUFFICES ASSUME CompiledInit PROVE ResumeInv
  OBVIOUS
<1>1. phase = "verify" /\ compiled = "no" /\ jit = JitOff /\ VerifierInit
  BY DEF CompiledInit, ExecutionInit, InitLowering
<1>2. CompiledInv /\ StoredStates
  BY <1>1, CompiledInitInv, VerifierInitStored
<1>3. WalkInv
  BY <1>1 DEF WalkInv, Walked
<1>4. JitPhases /\ JitHolds
  BY <1>1 DEF JitPhases, JitShape, JitOff, JitHolds
<1>. QED  BY <1>2, <1>3, <1>4 DEF ResumeInv

LEMMA WholeAtWork ==
  ASSUME ResumeInv, Compiled, phase # "verify"
  PROVE  CompiledWhole
BY DEF ResumeInv, CompiledInv, CompiledWhole, LoweringInv

\* The steps that leave compiled code alone.
LEMMA JitRests ==
  ASSUME ResumeInv, UNCHANGED <<method, vvars, entry, recorded, phase, jit, frames, outcome>>
  PROVE  Restorable' /\ ~jit'.late => JitHolds'
<1>. SUFFICES ASSUME Restorable', ~jit'.late PROVE JitHolds'
  OBVIOUS
<1>1. Restorable
  BY RestorableKept
<1>2. JitHolds
  BY <1>1 DEF ResumeInv
<1>3. UNCHANGED <<method, states, recorded>>
  BY DEF vvars
<1>4. /\ Yields(jit) => Yields(jit')
      /\ Working(jit) => Working(jit')
      /\ Buffered(jit) => Buffered(jit')
      /\ RunsAt(frames, outcome) => RunsAt(frames', outcome')
  OBVIOUS
<1>5. /\ Yields(jit) => Yields(jit)'
      /\ Working(jit) => Working(jit)'
      /\ Buffered(jit) => Buffered(jit)'
  BY <1>3, <1>4, HeldKept
<1>6. RunsAt(frames, outcome) => RunsAt(frames, outcome)'
  BY <1>3, <1>4, RunKept
<1>. QED  BY <1>2, <1>5, <1>6 DEF JitHolds

LEMMA VerifyOrStartHolds ==
  ASSUME ResumeInv, Verify \/ Start, UNCHANGED <<lvars, jit>>
  PROVE  ResumeInv'
<1>1. /\ phase = "verify" /\ compiled = "no" /\ compiled' = "no" /\ method' = method /\ jit' = jit
      /\ phase' \in {"verify", "run"} /\ VerifierInv /\ StoredStates
  BY DEF ResumeInv, CompiledInv, Verify, Start, lvars
<1>2. CompiledInv'
  BY VerifyOrStartKeeps DEF ResumeInv
<1>3. StoredStates'
  <2>1. CASE Verify
    BY <1>1, <2>1, VerifyStored DEF Verify
  <2>2. CASE Start
    BY <1>1, <2>2, StoredStatesKept DEF Start, vvars
  <2>. QED  BY <2>1, <2>2
<1>4. WalkInv'
  BY <1>1 DEF WalkInv, Walked
<1>5. JitPhases' /\ JitHolds'
  BY <1>1 DEF ResumeInv, JitPhases, JitShape, JitHolds
<1>. QED  BY <1>2, <1>3, <1>4, <1>5 DEF ResumeInv

LEMMA CompileHolds ==
  ASSUME ResumeInv, Compile
  PROVE  ResumeInv'
<1>. DEFINE f == Head(frames)
<1>1. /\ phase = "run" /\ phase' = phase /\ Running /\ Len(frames) = 1 /\ f.stack = <<>>
      /\ UNCHANGED <<method, vvars>> /\ UNCHANGED <<frames, outcome, jit>> /\ UNCHANGED <<method, states>>
      /\ \/ f.pc = 1 /\ method.receiver = "none" /\ StartMethod
         \/ f.pc \in LoopHeads /\ StartLoop(f.pc)
  BY DEF Compile, ivars, vvars
<1>2. CompiledInv' /\ StoredStates'
  BY <1>1, CompileStep, StoredStatesKept DEF ResumeInv
<1>3. WalkInv /\ LoweringShape /\ 1 \in PCs
  BY DEF ResumeInv, CompiledInv, LoweringInv, VerifierInv, IsMethod, IsList, PCs, Code
<1>4. WalkInv' /\ entry' = f.pc
  <2>1. CASE f.pc = 1 /\ StartMethod
    <3>1. StartLowering(1, FALSE) /\ signatures' = signatures
      BY <2>1 DEF StartMethod
    <3>. QED  BY <1>1, <1>3, <2>1, <3>1, WalkStarts DEF StartLowering
  <2>2. CASE f.pc \in LoopHeads /\ StartLoop(f.pc)
    <3>1. StartLowering(f.pc, TRUE) /\ signatures' = [signatures EXCEPT ![f.pc] = <<>>] /\ f.pc \in PCs
      BY <2>2 DEF StartLoop, LoopHeads
    <3>. QED  BY <1>1, <1>3, <3>1, WalkStarts DEF StartLowering
  <2>. QED  BY <1>1, <2>1, <2>2
<1>5. JitPhases' /\ JitHolds'
  BY <1>1, <1>4 DEF ResumeInv, JitPhases, JitShape, JitHolds, Running
<1>. QED  BY <1>2, <1>4, <1>5 DEF ResumeInv

LEMMA LowerHolds ==
  ASSUME ResumeInv, Lower
  PROVE  ResumeInv'
<1>1. /\ UNCHANGED <<method, vvars>> /\ UNCHANGED <<frames, outcome, jit>> /\ UNCHANGED <<method, states>>
      /\ phase' = phase /\ (SkipDead \/ LowerOne \/ FinishLowering)
  BY DEF Lower, ivars, vvars
<1>2. compiled = "lowering" /\ compiled' \in {"lowering", "yes", "refused"} /\ entry' = entry
  BY <1>1 DEF SkipDead, LowerOne, FinishLowering
<1>3. CompiledInv' /\ StoredStates'
  BY <1>1, LowerStep, StoredStatesKept DEF ResumeInv
<1>4. WalkInv /\ LoweringShape /\ IsMethod(method)
  BY DEF ResumeInv, CompiledInv, LoweringInv, VerifierInv
<1>5. WalkInv'
  BY <1>1, <1>4, WalkSkips, WalkLowers, WalkEnds
<1>6. phase = "run"
  BY <1>2 DEF ResumeInv, JitPhases
<1>7. JitPhases' /\ JitHolds'
  BY <1>1, <1>2, <1>6 DEF ResumeInv, JitPhases, JitShape, JitHolds, Running
<1>. QED  BY <1>3, <1>5, <1>7 DEF ResumeInv

LEMMA InterpretedHolds ==
  ASSUME ResumeInv, RunInterpreted
  PROVE  ResumeInv'
<1>1. /\ compiled \notin {"lowering", "yes"} /\ UNCHANGED lvars /\ jit' = jit /\ phase' = phase
      /\ UNCHANGED <<method, vvars>> /\ UNCHANGED <<method, states>> /\ UNCHANGED <<method, states, recorded>>
      /\ UNCHANGED <<method, vvars, entry, osr, at, signatures, recorded>>
      /\ UNCHANGED <<method, vvars, entry, recorded>>
      /\ compiled' = compiled /\ current' = current
      /\ \/ phase = "run"
         \/ phase = "resumed" /\ (Execute \/ Unwind)
  BY DEF RunInterpreted, Interpret, lvars, vvars
<1>2. CompiledInv' /\ StoredStates' /\ WalkInv'
  BY <1>1, InterpretedStep, StoredStatesKept, WalkKept DEF ResumeInv
<1>3. JitPhases'
  BY <1>1 DEF ResumeInv, JitPhases, JitShape
<1>4. CASE phase = "run"
  <2>1. JitHolds'
    BY <1>1, <1>4 DEF JitHolds
  <2>. QED  BY <1>2, <1>3, <2>1 DEF ResumeInv
<1>5. CASE phase = "resumed" /\ (Execute \/ Unwind)
  <2>1. ASSUME Restorable', ~jit'.late PROVE JitHolds'
    <3>1. Restorable /\ ~jit.late
      BY <1>1, <2>1, RestorableKept
    <3>2. RunsAt(frames, outcome) /\ Yields(jit)
      BY <1>5, <3>1 DEF ResumeInv, JitHolds
    <3>3. Certified(method, states)
      BY <1>5, AcceptedCertified DEF ResumeInv, CompiledInv
    <3>4. RunsAt(frames', outcome')
      BY <1>5, <3>2, <3>3, ExecuteRuns, UnwindRuns
    <3>5. RunsAt(frames, outcome)'
      BY <1>1, <3>4, RunKept
    <3>6. Yields(jit)'
      <4>1. Yields(jit')
        BY <1>1, <3>2
      <4>. QED  BY <1>1, <4>1, HeldKept
    <3>. QED  BY <1>1, <1>5, <3>5, <3>6 DEF JitHolds
  <2>. QED  BY <1>2, <1>3, <2>1 DEF ResumeInv
<1>. QED  BY <1>1, <1>4, <1>5

LEMMA EnterStep ==
  ASSUME ResumeInv, EnterJit, phase' = "compiled", UNCHANGED <<method, vvars>>
  PROVE  JitPhases' /\ (Restorable' /\ ~jit'.late => JitHolds')
<1>1. compiled = "yes" /\ UNCHANGED <<method, states, recorded>>
  BY DEF EnterJit, vvars
<1>2. phase = "run" /\ Running /\ Len(frames) = 1 /\ Head(frames).stack = <<>> /\ Head(frames).pc = entry
  BY <1>1 DEF ResumeInv, JitPhases
<1>3. CompiledWhole /\ RunsAt(frames, outcome)
  BY <1>1, <1>2, WholeAtWork DEF Compiled, ResumeInv, CompiledInv, ExecutionInv
<1>4. JitShape' /\ Yields(jit') /\ Working(jit') /\ Buffered(jit') /\ jit'.is = "in" /\ compiled' = "used"
  BY <1>2, <1>3, EnterHolds
<1>5. Yields(jit)' /\ Working(jit)' /\ Buffered(jit)'
  BY <1>1, <1>4, HeldKept
<1>. QED  BY <1>4, <1>5 DEF JitPhases, JitHolds

LEMMA RunStep ==
  ASSUME ResumeInv, RunCompiled, phase' = phase, UNCHANGED <<method, vvars>>
  PROVE  JitPhases' /\ (Restorable' /\ ~jit'.late => JitHolds')
<1>1. /\ jit.is = "in" /\ UNCHANGED lvars /\ UNCHANGED <<method, states, recorded>>
      /\ UNCHANGED <<method, vvars, entry, recorded>> /\ compiled' = compiled
  BY DEF RunCompiled, lvars, vvars
<1>2. phase = "compiled" /\ compiled = "used" /\ JitShape
  BY <1>1 DEF ResumeInv, CompiledInv, JitPhases
<1>3. CompiledWhole
  BY <1>2, WholeAtWork DEF Compiled
<1>4. JitShape' /\ jit'.is \in {"in", "left"} /\ (jit.late => jit'.late)
  BY <1>2, RunShape
<1>5. ASSUME Restorable', ~jit'.late PROVE JitHolds'
  <2>1. Restorable /\ ~jit.late
    BY <1>1, <1>4, <1>5, RestorableKept
  <2>2. Yields(jit) /\ Working(jit)
    BY <1>2, <2>1 DEF ResumeInv, JitHolds
  <2>3. Yields(jit') /\ Working(jit') /\ Buffered(jit')
    BY <1>2, <1>3, <1>5, <2>1, <2>2, RunHolds
  <2>4. Yields(jit)' /\ Working(jit)' /\ Buffered(jit)'
    BY <1>1, <2>3, HeldKept
  <2>. QED  BY <1>2, <2>4 DEF JitHolds
<1>. QED  BY <1>1, <1>2, <1>4, <1>5 DEF JitPhases

LEMMA CompleteStep ==
  ASSUME ResumeInv, Complete, phase' = "resumed", UNCHANGED <<method, vvars>>
  PROVE  JitPhases' /\ (Restorable' /\ ~jit'.late => JitHolds')
<1>1. /\ jit.is = "left" /\ UNCHANGED lvars /\ UNCHANGED <<method, states, recorded>> /\ UNCHANGED <<method, states>>
      /\ UNCHANGED <<method, vvars, entry, recorded>> /\ compiled' = compiled
      /\ jit' = [jit EXCEPT !.is = "back"]
  BY DEF Complete, lvars, vvars
<1>2. phase = "compiled" /\ compiled = "used" /\ JitShape
  BY <1>1 DEF ResumeInv, CompiledInv, JitPhases
<1>3. CompiledWhole
  BY <1>2, WholeAtWork DEF Compiled
<1>4. /\ JitShape' /\ jit'.is = "back" /\ jit'.late = jit.late
      /\ Yields(jit) => Yields(jit')
  BY <1>1, <1>2, JitIsSet
<1>5. ASSUME Restorable', ~jit'.late PROVE JitHolds'
  <2>1. Restorable /\ ~jit.late
    BY <1>1, <1>4, <1>5, RestorableKept
  <2>2. Yields(jit) /\ Working(jit) /\ Buffered(jit)
    BY <1>2, <2>1 DEF ResumeInv, JitHolds
  <2>3. RunsAt(frames', outcome')
    BY <1>2, <1>3, <2>1, <2>2, CompleteRuns
  <2>4. RunsAt(frames, outcome)'
    BY <1>1, <2>3, RunKept
  <2>5. Yields(jit)'
    BY <1>1, <1>4, <2>2, HeldKept
  <2>. QED  BY <2>4, <2>5 DEF JitHolds
<1>. QED  BY <1>1, <1>2, <1>4, <1>5 DEF JitPhases

LEMMA ForgetStep ==
  ASSUME ResumeInv, Forget, phase' = phase, UNCHANGED <<method, vvars>>
  PROVE  JitPhases' /\ (Restorable' /\ ~jit'.late => JitHolds')
<1>1. /\ jit.is = "back" /\ UNCHANGED lvars /\ UNCHANGED <<method, states, recorded>> /\ UNCHANGED <<method, states>>
      /\ UNCHANGED <<method, vvars, entry, recorded>> /\ compiled' = compiled
      /\ jit' = [jit EXCEPT !.is = "forgot"]
  BY DEF Forget, lvars, vvars
<1>2. phase = "resumed" /\ compiled = "used" /\ JitShape
  BY <1>1 DEF ResumeInv, CompiledInv, JitPhases
<1>3. /\ JitShape' /\ jit'.is = "forgot" /\ jit'.late = jit.late
      /\ Yields(jit) => Yields(jit')
  BY <1>1, <1>2, JitIsSet
<1>4. ASSUME Restorable', ~jit'.late PROVE JitHolds'
  <2>1. Restorable /\ ~jit.late
    BY <1>1, <1>3, <1>4, RestorableKept
  <2>2. Yields(jit) /\ RunsAt(frames, outcome)
    BY <1>2, <2>1 DEF ResumeInv, JitHolds
  <2>3. RunsAt(frames', outcome')
    BY <2>2, ForgetRuns
  <2>4. RunsAt(frames, outcome)'
    BY <1>1, <2>3, RunKept
  <2>5. Yields(jit)'
    BY <1>1, <1>3, <2>2, HeldKept
  <2>. QED  BY <1>2, <2>4, <2>5 DEF JitHolds
<1>. QED  BY <1>1, <1>2, <1>3, <1>4 DEF JitPhases

LEMMA JitStepHolds ==
  ASSUME ResumeInv, RunJit
  PROVE  ResumeInv'
<1>1. UNCHANGED <<method, vvars>> /\ UNCHANGED <<method, states>>
  BY DEF RunJit, vvars
<1>2. CompiledInv' /\ StoredStates'
  BY <1>1, JitStep, StoredStatesKept DEF ResumeInv
<1>3. WalkInv'
  <2>1. /\ UNCHANGED <<entry, osr, at, signatures, recorded>>
        /\ \/ compiled' = compiled /\ current' = current
           \/ compiled \in {"yes", "used"} /\ compiled' = "used"
    BY DEF RunJit, EnterJit, RunCompiled, Complete, Forget, lvars
  <2>2. UNCHANGED <<method, vvars, entry, osr, at, signatures, recorded>>
    BY <1>1, <2>1
  <2>. QED  BY <2>1, <2>2, WalkKept DEF ResumeInv
<1>4. JitPhases' /\ (Restorable' /\ ~jit'.late => JitHolds')
  BY <1>1, EnterStep, RunStep, CompleteStep, ForgetStep DEF RunJit
<1>. QED  BY <1>2, <1>3, <1>4 DEF ResumeInv

LEMMA ResumeInvariant == CompiledSpec => []ResumeInv
<1>1. ResumeInv /\ [CompiledNext]_vars => ResumeInv'
  <2>1. ResumeInv /\ UNCHANGED vars => ResumeInv'
    <3>. SUFFICES ASSUME ResumeInv, UNCHANGED vars PROVE ResumeInv'
      OBVIOUS
    <3>1. /\ UNCHANGED <<method, vvars>> /\ UNCHANGED <<method, states>>
          /\ UNCHANGED <<method, vvars, entry, osr, at, signatures, recorded>>
          /\ compiled' = compiled /\ current' = current /\ phase' = phase /\ frames' = frames
          /\ outcome' = outcome /\ jit' = jit
          /\ UNCHANGED <<method, vvars, entry, recorded, phase, jit, frames, outcome>>
      BY DEF vars, xvars, lvars, vvars, ivars
    <3>2. CompiledInv'
      <4>1. CompiledInv /\ UNCHANGED vars => CompiledInv'
        BY CompiledStutters
      <4>. QED  BY <4>1 DEF ResumeInv
    <3>3. StoredStates' /\ WalkInv'
      BY <3>1, StoredStatesKept, WalkKept DEF ResumeInv
    <3>4. JitPhases'
      BY <3>1 DEF ResumeInv, JitPhases, JitShape, Running
    <3>. QED  BY <3>1, <3>2, <3>3, <3>4, JitRests DEF ResumeInv
  <2>. QED
    BY <2>1, VerifyOrStartHolds, CompileHolds, LowerHolds, InterpretedHolds, JitStepHolds DEF CompiledNext
<1>. QED  BY <1>1, ResumeInitInv, PTL DEF CompiledSpec

LEMMA ResumedIsCovered == ResumeInv => ResumedAsVerified
<1>. SUFFICES ASSUME ResumeInv, phase = "resumed", ~Misrestored
              PROVE  /\ outcome.is = "running" => FrameCovered(Head(frames))
                     /\ SafeOutcome
  BY DEF ResumedAsVerified
<1>1. Restorable /\ ~jit.late
  BY DEF Misrestored, Restorable, Tests
<1>2. RunsAt(frames, outcome)
  BY <1>1 DEF ResumeInv, JitHolds
<1>3. Certified(method, states)
  BY AcceptedCertified DEF ResumeInv, CompiledInv
<1>. QED  BY <1>2, <1>3, CoveredWhenRunning, SafeWhenRunning

(* Back in the interpreter a method runs as a verified one does: the frame   *)
(* rebuilt from the buffer of compiled code, and every frame it leads to,    *)
(* is covered by what the verifier merged, and the method ends with no error *)
(* of the VM but those verification does not look for; for every method      *)
(* that is none of the shapes Misrestored names, compiled from its start or  *)
(* from a loop, whichever helper asked to leave (mod.rs 859-991 with         *)
(* runtime.rs and verify.rs 50-116).                                         *)
THEOREM ResumedAsVerifiedCorrect == CompiledSpec => []ResumedAsVerified
BY ResumedIsCovered, ResumeInvariant, PTL

(* Nothing of the stack is lost on the way: when a helper has made compiled  *)
(* code leave, what decode_deopt_stack reads from the buffer, by the kinds   *)
(* the compiler recorded for the instruction, is the operand stack the code  *)
(* had (mod.rs 859-883 with compiler.rs 197-244, 551-609).                   *)
StackHandedOver ==
  phase = "compiled" /\ jit.is = "left" /\ jit.reason # NoRequest /\ ~Misrestored =>
    DecodedStack(recorded[jit.pc], jit.stack) = jit.frame.stack

THEOREM StackHandedOverCorrect == CompiledSpec => []StackHandedOver
<1>1. ResumeInv => StackHandedOver
  <2>. SUFFICES ASSUME ResumeInv, phase = "compiled", jit.is = "left", jit.reason # NoRequest, ~Misrestored
                PROVE  DecodedStack(recorded[jit.pc], jit.stack) = jit.frame.stack
    BY DEF StackHandedOver
  <2>1. Restorable /\ ~jit.late
    BY DEF Misrestored, Restorable, Tests
  <2>2. CompiledWhole
    BY WholeAtWork DEF ResumeInv, JitPhases, Compiled
  <2>3. Held(jit.frame) /\ jit.pc = jit.frame.pc /\ jit.stack = Top(jit.frame.stack, Len(recorded[jit.frame.pc]))
    BY <2>1 DEF ResumeInv, JitHolds, Buffered
  <2>4. Rebuildable /\ Certified(method, states) /\ \A pc \in PCs : IsLowered(pc) => Words(recorded[pc])
    BY <2>1, <2>2, WholeFacts
  <2>5. Words(recorded[jit.frame.pc])
    BY <2>3, <2>4, HeldReady DEF Held, Tracked
  <2>. QED  BY <2>3, <2>4, <2>5, StackRestored DEF Held
<1>. QED  BY <1>1, ResumeInvariant, PTL

(* Compiled code is closed: it begins at an instruction that was lowered     *)
(* with an empty stack, and an instruction goes on only to lowered ones,     *)
(* each of which has the stack it leaves or was lowered with none (compiler. *)
(* rs 197-244, 551-609); for every method compiled to its end.               *)
CompiledIsClosed ==
  compiled \in {"yes", "used"} =>
    /\ entry \in PCs /\ IsLowered(entry) /\ recorded[entry] = <<>>
    /\ \A q \in PCs : IsLowered(q) =>
         \A p \in Successors(q) : p \in PCs =>
           IsLowered(p) /\ recorded[p] \in {LowerOpcode(Code[q], recorded[q]).stack, <<>>}

THEOREM CompiledIsClosedCorrect == CompiledSpec => []CompiledIsClosed
<1>1. ResumeInv => CompiledIsClosed
  <2>. SUFFICES ASSUME ResumeInv, Compiled PROVE CompiledIsClosed
    BY DEF CompiledIsClosed, Compiled
  <2>1. IsMethod(method) /\ WalkInv /\ LoweringShape
    BY DEF ResumeInv, CompiledInv, VerifierInv, LoweringInv
  <2>2. IsLowered(entry) /\ recorded[entry] = <<>> /\ entry \in PCs
    BY <2>1, EntryLowered
  <2>3. ASSUME NEW q \in PCs, IsLowered(q), NEW p \in Successors(q), p \in PCs
        PROVE  IsLowered(p) /\ recorded[p] \in {LowerOpcode(Code[q], recorded[q]).stack, <<>>}
    BY <2>1, <2>3, Flow DEF After
  <2>. QED  BY <2>2, <2>3 DEF CompiledIsClosed
<1>. QED  BY <1>1, ResumeInvariant, PTL
=============================================================================
