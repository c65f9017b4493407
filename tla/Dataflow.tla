------------------------------ MODULE Dataflow ------------------------------
(***************************************************************************)
(* What the pipeline of processor_impl/ promises: an instruction executes  *)
(* once, and not before the results it reads are there.  These are the     *)
(* results of the instructions before it that wrote its operands last.     *)
(***************************************************************************)
EXTENDS Naturals, Sequences

CONSTANT Instruction  \* records with at least the fields src and dest

VARIABLES
  ins,       \* the program so far
  executed,  \* the instructions that execute or have executed
  done       \* those whose result is there

dataflowVars == <<ins, executed, done>>

Producers(t) == {u \in 1 .. t - 1 :
                   /\ ins[u].dest \in ins[t].src
                   /\ \A v \in u + 1 .. t - 1 : ins[v].dest # ins[u].dest}

DataflowInit == ins = <<>> /\ executed = {} /\ done = {}

FetchNext ==
  /\ \E i \in Instruction : ins' = Append(ins, i)
  /\ UNCHANGED <<executed, done>>

Start ==
  /\ \E S \in SUBSET ((1 .. Len(ins)) \ executed) :
       /\ \A t \in S : Producers(t) \subseteq done
       /\ executed' = executed \cup S
  /\ UNCHANGED <<ins, done>>

Finish ==
  /\ \E S \in SUBSET (executed \ done) : done' = done \cup S
  /\ UNCHANGED <<ins, executed>>

DataflowNext == FetchNext \/ Start \/ Finish

DataflowSpec == DataflowInit /\ [][DataflowNext]_dataflowVars
=============================================================================
