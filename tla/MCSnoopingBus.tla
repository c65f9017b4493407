--------------------------- MODULE MCSnoopingBus ----------------------------
(* A small instance of SnoopingBus: every processor reads and writes line  *)
(* 0, and some write line 1, so that the bus serves requests for different *)
(* lines.                                                                  *)
EXTENDS SnoopingBus

CONSTANT Writers  \* the processors that write line 1

MCAccesses == (Proc \X BOOLEAN \X {0}) \cup (Writers \X {FALSE} \X {1})
=============================================================================
