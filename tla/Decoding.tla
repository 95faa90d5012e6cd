------------------------------ MODULE Decoding ------------------------------
(***************************************************************************)
(* How long an instruction is, for each part of the program that walks     *)
(* over bytecode: the verifier, the interpreter, the compiler, and the     *)
(* pass that refuses methods before they are compiled.  An instruction is  *)
(* its opcode byte, the one inside it when it is wide, the address modulo  *)
(* four and, for a switch, how many entries it has.                        *)
(***************************************************************************)
EXTENDS Integers

CONSTANT MaxEntries   \* of a switch

ASSUME MaxEntriesAssumption == MaxEntries \in Nat

(* The opcodes, group by group as the enumeration lists them.              *)
Constants == 1 .. 20
Loads == 21 .. 53
Stores == 54 .. 86
StackOps == 87 .. 95
Arithmetic == 96 .. 131
Iinc == 132
Conversions == 133 .. 147
Comparisons == 148 .. 152
Control == 153 .. 177
ReferenceOps == 178 .. 195
Extended == 196 .. 201
\* from_byte: nop, 0, is no opcode.
FromByte == Constants \cup Loads \cup Stores \cup StackOps \cup Arithmetic \cup {Iinc}
              \cup Conversions \cup Comparisons \cup Control \cup ReferenceOps \cup Extended

Wide == 196
TableSwitch == 170
LookupSwitch == 171
Ret == 169

Instructions ==
  [op : FromByte \ {Wide, TableSwitch, LookupSwitch}, inner : {0}, at : 0 .. 3, n : {0}]
  \cup [op : {Wide}, inner : FromByte, at : 0 .. 3, n : {0}]
  \cup [op : {TableSwitch, LookupSwitch}, inner : {0}, at : 0 .. 3, n : 0 .. MaxEntries]

-----------------------------------------------------------------------------
(* The verifier: the address after the instruction, from that of it.       *)

ByteOperand == {16, 18, 188, Ret} \cup 21 .. 25 \cup 54 .. 58
ShortOperand == {17, 19, 20} \cup 153 .. 168 \cup {198, 199} \cup 178 .. 184
                  \cup {187, 189, 192, 193}
IntOperand == {185, 186, 200, 201}

Padding(pos) == (4 - (pos % 4)) % 4
SwitchTable(i) == IF i.op = TableSwitch THEN 12 + 4 * i.n ELSE 8 + 8 * i.n

VerifierLength(i) ==
  CASE i.op \in ByteOperand -> 2
    [] i.op \in ShortOperand \cup {Iinc} -> 3
    [] i.op \in IntOperand -> 5
    [] i.op = 197 -> 4
    [] i.op \in {TableSwitch, LookupSwitch} -> 1 + Padding(i.at + 1) + SwitchTable(i)
    [] i.op = Wide -> IF i.inner = Iinc THEN 6 ELSE 4
    [] OTHER -> 1

(* The interpreter: a byte for the opcode and those its arm reads; a wide  *)
(* opcode is a load, a store, iinc or ret.                                 *)

u8 == 1
u16 == 2
i32 == 4

WideReads(i) == u8 + u16 + (IF i.inner = Iinc THEN u16 ELSE 0)
Executable(i) == i.op = Wide => i.inner \in 21 .. 25 \cup 54 .. 58 \cup {Iinc, Ret}
SwitchReads(i) ==
  Padding(i.at + 1) + (IF i.op = TableSwitch THEN i32 + i32 + i32 + i.n * i32
                       ELSE i32 + i32 + i.n * (i32 + i32))
Reads(i) ==
  CASE i.op \in {16, 18, 188, Ret} \cup 21 .. 25 \cup 54 .. 58 -> u8
    [] i.op \in {17, 19, 20} \cup 153 .. 168 \cup {198, 199} -> u16
    [] i.op = Iinc -> u8 + u8
    [] i.op \in {200, 201} -> i32
    [] i.op \in 178 .. 184 \cup {187, 189, 192, 193} -> u16
    [] i.op \in {185, 186} -> u16 + u8 + u8
    [] i.op = 197 -> u16 + u8
    [] i.op \in {TableSwitch, LookupSwitch} -> SwitchReads(i)
    [] i.op = Wide -> WideReads(i)
    [] OTHER -> 0
InterpreterLength(i) == 1 + Reads(i)

(* The compiler.                                                           *)

Aligned(pos) == 4 * (pos \div 4)
NextPcWithoutWideIinc(i) == 
  CASE i.op = Wide -> 4
    [] i.op \in {TableSwitch, LookupSwitch} -> Aligned(i.at + 4) - i.at + SwitchTable(i)
    [] OTHER -> VerifierLength(i)
CompilerLength(i) ==
  CASE i.op \in {16, 18, Ret, 188} \cup 21 .. 25 \cup 54 .. 58 -> 2
    [] i.op \in {17, 19, 20, Iinc} \cup 153 .. 168 \cup {198, 199} -> 3
    [] i.op = Wide -> IF i.inner = Iinc THEN 6 ELSE 4
    [] i.op \in {200, 201, 185, 186} -> 5
    [] i.op \in 178 .. 184 \cup {187, 189, 192, 193} -> 3
    [] i.op = 197 -> 4
    [] i.op = TableSwitch -> Aligned(i.at + 4) - i.at + 4 + 4 + 4 + i.n * 4
    [] i.op = LookupSwitch -> Aligned(i.at + 4) - i.at + 4 + 4 + i.n * 8
    [] OTHER -> 1

(* The pass that refuses methods before they are compiled.                 *)

RefusalLength(i) ==
  CASE i.op \in {16, 18, Ret, 188} -> 2
    [] i.op \in {17, 19, 20, Iinc} \cup 153 .. 168 \cup {198, 199} -> 3
    [] i.op = Wide -> IF i.inner = Iinc THEN 6 ELSE 4
    [] i.op \in {200, 201, 185, 186} -> 5
    [] i.op \in 178 .. 184 \cup {187, 189, 190, 192, 193} -> 3
    [] i.op = 197 -> 4
    [] i.op = TableSwitch -> Aligned(i.at + 4) - i.at + 4 + 4 + 4 + i.n * 4
    [] i.op = LookupSwitch -> Aligned(i.at + 4) - i.at + 4 + 4 + i.n * 8
    [] OTHER -> 1
\* Where it loses its place: the loads and stores with an index are one byte to
\* it, arraylength is three.
LosesItsPlace(i) == i.op \in 21 .. 25 \cup 54 .. 58 \cup {190}

-----------------------------------------------------------------------------

VARIABLE instruction

DecodingInit == instruction \in Instructions
DecodingSpec == DecodingInit /\ [][UNCHANGED instruction]_instruction

\* The verifier, the interpreter and the compiler find the same instructions in
\* a method, so what was verified is what runs, interpreted or compiled; so does
\* the pass that refuses methods, up to the first instruction where it is known
\* to lose its place.
LengthsAgree ==
  Executable(instruction) =>
    /\ InterpreterLength(instruction) = VerifierLength(instruction)
    /\ CompilerLength(instruction) = VerifierLength(instruction)
    /\ LosesItsPlace(instruction) # (RefusalLength(instruction) = VerifierLength(instruction))
=============================================================================
