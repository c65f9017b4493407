----------------------------- MODULE OrderedMap ------------------------------
(***************************************************************************)
(* What the coherence components take a tree_t for: a map from keys to     *)
(* records with the calls of stree.h.  A call takes effect at once at some *)
(* moment between its beginning and its end.                               *)
(***************************************************************************)
EXTENDS Integers

CONSTANTS Key, Record, NoRecord, NoCall

VARIABLES
  map,      \* map[k]: the record of key k, or NoRecord
  call,     \* the call under way: <<function, key, record>>, or NoCall
  answer    \* what it will return, once it has taken effect

Present == {k \in Key : map[k] # NoRecord}

(* The record of the greatest key that is not above k.                     *)
Nearest(k) ==
  LET below == {j \in Present : j <= k}
  IN  IF below = {} THEN NoRecord
      ELSE map[CHOOSE j \in below : \A i \in below : i <= j]

Init == map = [k \in Key |-> NoRecord] /\ call = NoCall /\ answer = NoCall

Begin ==
  /\ call = NoCall
  /\ \/ \E k \in Key, r \in Record : call' = <<"tree_insert", k, r>>
     \/ \E f \in {"tree_find", "tree_find_nearest", "tree_remove"}, k \in Key :
          call' = <<f, k, NoRecord>>
  /\ UNCHANGED <<map, answer>>

Effect ==
  /\ call # NoCall
  /\ answer = NoCall
  /\ LET k == call[2] IN
     \/ /\ call[1] = "tree_insert"
        /\ map' = [map EXCEPT ![k] = call[3]]
        /\ answer' = TRUE
     \/ /\ call[1] = "tree_find"
        /\ answer' = <<map[k]>>
        /\ UNCHANGED map
     \/ /\ call[1] = "tree_find_nearest"
        /\ answer' = <<Nearest(k)>>
        /\ UNCHANGED map
     \/ /\ call[1] = "tree_remove"
        /\ answer' = <<map[k]>>
        /\ map' = [map EXCEPT ![k] = NoRecord]
  /\ UNCHANGED call

Return ==
  /\ answer # NoCall
  /\ call' = NoCall
  /\ answer' = NoCall
  /\ UNCHANGED map

Next == Begin \/ Effect \/ Return

Spec == Init /\ [][Next]_<<map, call, answer>>
=============================================================================
