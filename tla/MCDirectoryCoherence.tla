----------------------- MODULE MCDirectoryCoherence -------------------------
(* Small instances of DirectoryCoherence, with the homes the code computes *)
(* in words of 16 bits.                                                    *)
EXTENDS DirectoryCoherence

CONSTANT N       \* processorCount

HP == INSTANCE HomeProcessor WITH processorCount <- N, WordBits <- 16

MCProc == 0 .. N - 1
MCHome == CHOOSE home \in [Line -> MCProc] :
            \A l \in Line : home[l] = HP!findHomeProcessor(l)

(* bitMask has the bits from lowbit to highbit, and every block has a home *)
(* among the processors, each of the first 2^mylog of them its share.      *)
ASSUME MaskAssumption ==
  \A h \in HP!Bits : \A l \in 0 .. h : HP!bitMask(h, l) = l .. h
ASSUME SpreadAssumption ==
  \A block \in 0 .. 99 : HP!findHomeProcessor(block) = block % 2 ^ HP!mylog[N]
=============================================================================
