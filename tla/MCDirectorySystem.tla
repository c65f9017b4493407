------------------------- MODULE MCDirectorySystem --------------------------
(* Small instances of DirectorySystem, with the homes the code computes.   *)
EXTENDS DirectorySystem

CONSTANT N       \* processorCount

HP == INSTANCE HomeProcessor WITH processorCount <- N, WordBits <- 16

MCProc == 0 .. N - 1
MCHome == CHOOSE home \in [Line -> MCProc] :
            \A l \in Line : home[l] = HP!findHomeProcessor(l)
=============================================================================
