------------------------------ MODULE LRUSets -------------------------------
(***************************************************************************)
(* What a set-associative cache with LRU replacement promises: each set    *)
(* holds at most Ways blocks, and in which order they were last used; of   *)
(* each it knows the sub-blocks it holds and whether it was written.  An   *)
(* access costs a hit or a miss for every sub-block it touches, and a      *)
(* write-back when it makes a written block leave.                         *)
(***************************************************************************)
EXTENDS Integers, FiniteSets

CONSTANTS Sets, Tags, Pieces, Ways, HitDelay, MissDelay, WriteBackDelay

VARIABLES
  held,     \* held[st][t]: the sub-blocks of block t in set st; none if it is not there
  written,  \* written[st]: the blocks there that were written
  older,    \* <<x, y>> \in older[st]: block x there was last used before block y
  result    \* the delay of the access under way

Init ==
  /\ held = [st \in Sets |-> [t \in Tags |-> {}]]
  /\ written = [st \in Sets |-> {}]
  /\ older = [st \in Sets |-> {}]
  /\ result = 0

Others(st, t) == {x \in Tags \ {t} : held[st][x] # {}}

(* What has to leave for block t: the oldest of the others if they are as  *)
(* many as there are ways.                                                 *)
Leaves(st, t) ==
  {x \in Others(st, t) : /\ Cardinality(Others(st, t)) = Ways
                         /\ \A y \in Others(st, t) \ {x} : <<x, y>> \in older[st]}

Touch(st, t, subs, isStore) ==
  LET stay == Others(st, t) \ Leaves(st, t) IN
  /\ held' = [held EXCEPT ![st] =
                [x \in Tags |-> IF x = t THEN @[t] \cup subs
                                ELSE IF x \in stay THEN @[x] ELSE {}]]
  /\ written' = [written EXCEPT ![st] = (@ \ Leaves(st, t)) \cup (IF isStore THEN {t} ELSE {})]
  /\ older' = [older EXCEPT ![st] = (@ \cap (stay \X stay)) \cup (stay \X {t})]
  /\ result' = result
       + HitDelay * Cardinality(subs \cap held[st][t])
       + MissDelay * Cardinality(subs \ held[st][t])
       + (IF Leaves(st, t) \cap written[st] # {} THEN WriteBackDelay ELSE 0)

Answer == result' = 0 /\ UNCHANGED <<held, written, older>>

Next ==
  \/ \E st \in Sets, t \in Tags, subs \in (SUBSET Pieces) \ {{}}, isStore \in BOOLEAN :
       Touch(st, t, subs, isStore)
  \/ Answer

Spec == Init /\ [][Next]_<<held, written, older, result>>
=============================================================================
