--------------------------- MODULE HomeProcessor ----------------------------
(***************************************************************************)
(* Which node is the home of a block: findHomeProcessor of                 *)
(* d_coherence/protocol.c, which masks the block number to the low         *)
(* log2(processorCount) bits.  A machine word is the set of its bits.      *)
(***************************************************************************)
EXTENDS Integers

CONSTANTS
  WordBits,       \* 64 in the code
  processorCount  \* at least 2: with 1, bitMask would shift by -1

Bits == 0 .. WordBits - 1

(* Shifts of a word; both keep to the width, and the mask shifted right    *)
(* has a sign bit of 0.                                                    *)
ShiftLeft(w, n)  == {b + n : b \in {x \in w : x + n < WordBits}}
ShiftRight(w, n) == {b - n : b \in {x \in w : x >= n}}

mylog[x \in 0 .. processorCount] == IF x <= 1 THEN 0 ELSE 1 + mylog[x \div 2]

bitMask(highbit, lowbit) ==
  LET mask1 == Bits \ {WordBits - 1}
      hmask == ShiftRight(mask1, WordBits - 1 - highbit) \cup ShiftLeft({0}, highbit)
      lmask == ShiftLeft(Bits, lowbit)
  IN  hmask \cap lmask

(* A number and its word.                                                  *)
WordOf(n) == {b \in Bits : (n \div 2 ^ b) % 2 = 1}

NumberOf(w) ==
  LET low[k \in 0 .. WordBits] ==     \* of the k low bits
        IF k = 0 THEN 0 ELSE low[k - 1] + (IF k - 1 \in w THEN 2 ^ (k - 1) ELSE 0)
  IN  low[WordBits]

findHomeProcessor(block) ==
  NumberOf(bitMask(mylog[processorCount] - 1, 0) \cap WordOf(block))

=============================================================================
