--------------------------- MODULE BranchPredictor ---------------------------
(***************************************************************************)
(* The predictors of branch_impl/: a table of two-bit counters and         *)
(* targets, indexed by the program counter (Smith) or by it and the        *)
(* history of outcomes (gshare).  And that of branch/, which is told the   *)
(* outcome.                                                                *)
(***************************************************************************)
EXTENDS Integers

CONSTANTS
  sBits,     \* option -s: the table has 2^sBits entries
  bBits,     \* option -b: bits of history
  Target     \* the addresses branches lie at and lead to

(* Entries and history are masks of bitMask(bits - 1, 0), which shifts by  *)
(* -1 for no bits.                                                         *)
ASSUME BitsAssumption == sBits \in Nat \ {0} /\ bBits \in Nat \ {0}
ASSUME TargetAssumption == Target \subseteq Nat \ {0}

VARIABLES
  ptype,   \* "SMITH", "GSHARE", or "PERFECT" for branch/, fixed at the start
  BTB,     \* BTB[idx]: the counter and the target
  BHR      \* the outcomes of the last branches

branchVars == <<ptype, BTB, BHR>>

Index == 0 .. 2 ^ sBits - 1

init_predict ==
  /\ BTB = [idx \in Index |-> [pred_addr |-> 0, predictor |-> 1]]
  /\ BHR = 0

-----------------------------------------------------------------------------
(* Exclusive or of two numbers of n bits.                                  *)
Bit(x, i) == (x \div 2 ^ i) % 2
Xor[x \in Nat, y \in Nat, n \in Nat] ==
  IF n = 0 THEN 0
  ELSE Xor[x, y, n - 1] + (IF Bit(x, n - 1) # Bit(y, n - 1) THEN 2 ^ (n - 1) ELSE 0)

Taken(pc, next) == next # pc + 4

Predicted(idx, pc) ==
  IF BTB[idx].predictor > 1 THEN BTB[idx].pred_addr ELSE pc + 4

(* Mutants: the counter has no upper end; a target is only recorded once   *)
(* the counter predicts taken.                                             *)
LearnBeyond(idx, pc, next) ==
  BTB' = [BTB EXCEPT ![idx] =
            IF Taken(pc, next)
              THEN [pred_addr |-> next, predictor |-> @.predictor + 1]
              ELSE [pred_addr |-> @.pred_addr,
                    predictor |-> IF @.predictor = 0 THEN 0 ELSE @.predictor - 1]]

LearnLate(idx, pc, next) ==
  BTB' = [BTB EXCEPT ![idx] =
            IF Taken(pc, next)
              THEN [pred_addr |-> IF @.predictor > 1 THEN next ELSE @.pred_addr,
                    predictor |-> IF @.predictor = 3 THEN 3 ELSE @.predictor + 1]
              ELSE [pred_addr |-> @.pred_addr,
                    predictor |-> IF @.predictor = 0 THEN 0 ELSE @.predictor - 1]]

(* The counter moves towards the outcome and stays within two bits; a      *)
(* taken branch leaves its target.                                         *)
Learn(idx, pc, next) ==
  BTB' = [BTB EXCEPT ![idx] =
            IF Taken(pc, next)
              THEN [pred_addr |-> next,
                    predictor |-> IF @.predictor = 3 THEN 3 ELSE @.predictor + 1]
              ELSE [pred_addr |-> @.pred_addr,
                    predictor |-> IF @.predictor = 0 THEN 0 ELSE @.predictor - 1]]

SmithIndex(pc)  == (pc \div 8) % 2 ^ sBits
GshareIndex(pc) == Xor[(pc \div 8) % 2 ^ sBits, BHR % 2 ^ sBits, sBits]

smith_counter(pc, next) == Learn(SmithIndex(pc), pc, next) /\ UNCHANGED BHR

gshare(pc, next) ==
  /\ Learn(GshareIndex(pc), pc, next)
  /\ BHR' = (2 * BHR + (IF Taken(pc, next) THEN 1 ELSE 0)) % 2 ^ bBits

(* branchRequest of branch_impl and of branch, and what it answers.        *)
Prediction(pc, next) ==
  IF ptype = "GSHARE" THEN Predicted(GshareIndex(pc), pc)
  ELSE IF ptype = "SMITH" THEN Predicted(SmithIndex(pc), pc)
  ELSE next

PredictSmith(pc, next)   == ptype = "SMITH" /\ smith_counter(pc, next) /\ UNCHANGED ptype
PredictGshare(pc, next)  == ptype = "GSHARE" /\ gshare(pc, next) /\ UNCHANGED ptype
PredictPerfect(pc, next) == ptype = "PERFECT" /\ UNCHANGED branchVars

branchRequest(pc, next) ==
  PredictSmith(pc, next) \/ PredictGshare(pc, next) \/ PredictPerfect(pc, next)

=============================================================================
