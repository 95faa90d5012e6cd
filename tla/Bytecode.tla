------------------------------ MODULE Bytecode ------------------------------
(***************************************************************************)
(* What the verifier, the interpreter and the JIT lowering all read: the   *)
(* instructions of one method (bytecode.rs) and the words for them.        *)
(*                                                                         *)
(* An instruction is a record whose field op names a family of opcodes     *)
(* that the code treats alike; k is a kind letter (I, J, F, D, A, and      *)
(* Z B C S for array elements), n a local, to a target, c a class, t and r *)
(* verification types, args a sequence of them.  A program counter is the  *)
(* index of an instruction: operand bytes and offsets are left out, and    *)
(* the width of an instruction is the subject of module Decoding.          *)
(***************************************************************************)
EXTENDS Integers, Sequences, FiniteSets

CONSTANTS Class,      \* names of classes
          IsA         \* is_instance_of as a set of pairs <<class, target>>

ASSUME IsAAssumption == \A c \in Class : <<c, c>> \in IsA

VARIABLE method       \* the method that is verified, lowered and executed

IntT == <<"Int">>
LongT == <<"Long">>
FloatT == <<"Float">>
DoubleT == <<"Double">>
NullT == <<"Null">>

Wide(v) == v \in {LongT, DoubleT}

\* The value type of a kind letter; booleans, bytes, chars and shorts are ints.
TypeOf(k) == CASE k = "J" -> LongT [] k = "F" -> FloatT [] k = "D" -> DoubleT
               [] OTHER -> IntT

Code == method.code
PCs == 1 .. Len(Code)

\* A method as the class file parser leaves it: the instructions are known ones
\* and their operands of the right kind.
IsList(s) == Len(s) \in Nat /\ s = [j \in 1 .. Len(s) |-> s[j]]
IsType(t) == t \in {IntT, LongT, FloatT, DoubleT} \/ t[1] = "Ref"
AreTypes(ts) == IsList(ts) /\ \A j \in 1 .. Len(ts) : IsType(ts[j])
StackOps == {"pop", "pop2", "dup", "dup_x1", "dup_x2", "dup2", "swap",
             "dup2_x1", "dup2_x2"}
Fields == {"getstatic", "putstatic", "getfield", "putfield"}
Opcodes ==
  StackOps \cup Fields \cup
  {"const", "load", "store", "iinc", "arrayload", "arraystore", "bin", "div", "neg", "shift",
   "conv", "cmp", "if", "switch", "goto", "jsr", "ret", "invoke", "return", "new", "newarray",
   "arraylength", "instanceof", "checkcast", "monitor", "athrow"}
IsInstruction(i) ==
  /\ i.op \in Opcodes
  /\ i.op = "const" => IsType(i.t) \/ i.t = NullT
  /\ i.op \in {"load", "store", "iinc", "ret", "if", "newarray"} => i.n \in Nat
  /\ i.op = "switch" => IsList(i.tos)
  /\ i.op \in {"bin", "neg"} => i.k \in {"I", "J", "F", "D"}
  /\ i.op \in {"div", "shift"} => i.k \in {"I", "J"}
  /\ i.op = "conv" => i.to \in {"I", "J", "F", "D", "B", "C", "S"}
  /\ i.op \in Fields => IsType(i.t)
  /\ i.op = "invoke" => /\ i.mode \in {"static", "special", "init", "virtual", "interface", "dynamic"}
                        /\ AreTypes(i.args)
                        /\ AreTypes(i.r) /\ Len(i.r) <= 1
                        /\ i.mode = "dynamic" => i.r # <<>>
IsMethod(m) ==
  /\ IsList(m.code) /\ m.code # <<>> /\ \A pc \in DOMAIN m.code : IsInstruction(m.code[pc])
  /\ IsList(m.handlers)
  /\ AreTypes(m.params) /\ AreTypes(m.returns) /\ Len(m.returns) <= 1
  /\ m.max_locals \in Nat /\ m.max_stack \in Nat

\* Operand stacks are written top first.
Top(s, n) == SubSeq(s, 1, n)
Below(s, n) == SubSeq(s, n + 1, Len(s))
Permute(s, perm) == [j \in 1 .. Len(perm) |-> s[perm[j]]]

\* A local takes one slot, a long or double two; a store that overlaps half of
\* a wide value destroys it.  FALSE in ok when the index is out of bounds.
StoreSlot(locals, n, v, unset) ==
  LET len == Len(locals)
      \* the value before n loses its second half, the one at n its other slot
      cleared == [j \in 1 .. len |->
                    IF \/ j = n /\ Wide(locals[j])
                       \/ j = n + 2 /\ Wide(locals[n + 1])
                    THEN unset ELSE locals[j]]
      placed == [j \in 1 .. len |->
                   IF j = n + 1 THEN v
                   ELSE IF j = n + 2 /\ Wide(v) THEN unset ELSE cleared[j]]
  IN [ok |-> n + (IF Wide(v) THEN 2 ELSE 1) <= len, locals |-> placed]

\* Values or types in the slots of a frame of this size: each takes the slots
\* after those before it, and the second slot of a wide one is unset.
SlotOf(vs, j) == j + Cardinality({k \in 1 .. j - 1 : Wide(vs[k])})
Spread(vs, size, unset) ==
  [n \in 1 .. size |->
     IF \E j \in 1 .. Len(vs) : SlotOf(vs, j) = n
     THEN vs[CHOOSE j \in 1 .. Len(vs) : SlotOf(vs, j) = n] ELSE unset]

\* The instructions after which the next one is not reached.
Leaves == {"goto", "jsr", "switch", "ret", "return", "athrow"}

Handlers(m, pc) == {h \in 1 .. Len(m.handlers) :
                      m.handlers[h].start <= pc /\ pc < m.handlers[h].end}
=============================================================================
