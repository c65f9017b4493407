-------------------------- MODULE MCInOrderMachine ---------------------------
(* A small instance of InOrderMachine: two sets of two lines of two        *)
(* sub-blocks of two bytes.  The loads and stores use three tags of set 0, *)
(* and cross from one block to the next and from one sub-block to the      *)
(* next; one has no size.                                                  *)
EXTENDS InOrderMachine

Load(a, n)      == [op |-> "MEM_LOAD", addr |-> a, size |-> n]
Store(a, n)     == [op |-> "MEM_STORE", addr |-> a, size |-> n]
Branching(a, n) == [op |-> "BRANCH", pc |-> a, next |-> n]

Memory   == <<{Load(0, 2), Store(8, 1), Store(3, 2), Load(18, 3)}, {}>>
Shared   == <<{Load(0, 1)}, {Store(2, 1), Load(8, 0)}>>
Branches == <<{Branching(8, 24), Branching(8, 12), Branching(24, 8)},
              {Load(2, 1), Branching(16, 20)}>>

OfProc(traces) == [p \in Proc |-> traces[p + 1]]

MCSetups ==
  [version : {"cache_impl", "cache_impl_final"}, use_RRIP : {FALSE},
   ptype : {"PERFECT"}, program : {OfProc(Memory)}]
  \cup
  [version : {"cache_impl"}, use_RRIP : {TRUE},
   ptype : {"PERFECT"}, program : {OfProc(Memory)}]
  \cup
  [version : {"cache_impl_final"}, use_RRIP : {FALSE},
   ptype : {"PERFECT"}, program : {OfProc(Shared)}]
  \cup
  [version : {"cache_impl_final"}, use_RRIP : {FALSE},
   ptype : {"SMITH", "GSHARE"}, program : {OfProc(Branches)}]

MCStale == {<<0, 0>>, <<0, 1>>}
=============================================================================
