---------------------------- MODULE MCOutOfOrder ----------------------------
(* A small instance of OutOfOrder: a register that every operation reads   *)
(* or writes, and one operation for every way through the pipeline.        *)
EXTENDS OutOfOrder

CONSTANT r1

MCReg == {r1}
MCOp  == {[op |-> "ALU_LONG",  src |-> {r1}, dest |-> r1],
          [op |-> "MEM_STORE", src |-> {},   dest |-> r1],
          [op |-> "MEM_LOAD",  src |-> {r1}, dest |-> NoReg],
          [op |-> "BRANCH",    src |-> {r1}, dest |-> NoReg]}
=============================================================================
