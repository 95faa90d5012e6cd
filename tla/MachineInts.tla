----------------------------- MODULE MachineInts -----------------------------
(***************************************************************************)
(* Two's complement integers of the two widths the virtual machine has,    *)
(* "I" (i32) and "J" (i64), with as few bits as an instance gives them.    *)
(***************************************************************************)
EXTENDS Integers

CONSTANTS IntBits, LongBits   \* the widths an instance uses; 32 and 64 in the program
ASSUME WidthsAssumption == IntBits \in Nat \ {0} /\ LongBits \in Nat \ {0}

Width(k) == IF k = "I" THEN IntBits ELSE LongBits
MinOf(k) == -(2 ^ (Width(k) - 1))
MaxOf(k) == 2 ^ (Width(k) - 1) - 1
IntsOf(k) == MinOf(k) .. MaxOf(k)

Unsigned(k, n) == n % (2 ^ Width(k))
Wrap(k, n) == LET u == Unsigned(k, n) IN IF u > MaxOf(k) THEN u - 2 ^ Width(k) ELSE u

\* The bits of a two's complement integer that are one, and the integer they make.
Ones(k, n) == {j \in 0 .. Width(k) - 1 : (n \div 2 ^ j) % 2 = 1}
OfOnes(k, ones) ==
  LET upTo[j \in 0 .. Width(k)] ==
        IF j = 0 THEN 0 ELSE upTo[j - 1] + (IF j - 1 \in ones THEN 2 ^ (j - 1) ELSE 0)
  IN Wrap(k, upTo[Width(k)])

AndOf(k, a, b) == OfOnes(k, Ones(k, a) \cap Ones(k, b))
OrOf(k, a, b) == OfOnes(k, Ones(k, a) \cup Ones(k, b))
XorOf(k, a, b) == OfOnes(k, (Ones(k, a) \cup Ones(k, b)) \ (Ones(k, a) \cap Ones(k, b)))
=============================================================================
