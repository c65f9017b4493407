------------------------------ MODULE SplayTree ------------------------------
(***************************************************************************)
(* The splay trees of stree.c, in which the coherence components and the   *)
(* directory keep the states of their blocks (the copies in d_coherence,   *)
(* directory, coherence and coherence_impl_final are the same).  A node is *)
(* named by its key.  A step is one round of a loop of the code: one node  *)
(* of a walk, one round of splay().                                        *)
(***************************************************************************)
EXTENDS Integers, FiniteSets

CONSTANTS
  Key,       \* the keys used
  Record,    \* what is filed under them
  NoRecord,  \* NULL, as a record
  Null,      \* NULL, as a node
  NoCall

ASSUME KeyAssumption == Key \subseteq Int /\ IsFiniteSet(Key) /\ Null \notin Key
ASSUME RecordAssumption == NoRecord \notin Record
ASSUME NoCallAssumption ==   \* it is neither an answer nor a call
  /\ NoCall # TRUE
  /\ \A r \in Record \cup {NoRecord} : NoCall # <<r>>
  /\ \A f \in {"tree_insert", "tree_find", "tree_find_nearest", "tree_remove"},
        k \in Key, r \in Record \cup {NoRecord} : NoCall # <<f, k, r>>

VARIABLES
  root, left, right, parent, record, node_count,   \* the tree
  call,      \* the call under way: <<function, key, record>>
  at,        \* the loop it is in
  z,         \* the node the loop has come to
  p,         \* the node before it, or the nearest so far
  answer     \* what the call will return

links    == <<root, left, right, parent>>
contents == <<record, node_count>>
vars     == <<links, contents, call, at, z, p, answer>>

NoLinks == [k \in Key |-> Null]

tree_new ==
  /\ root = Null
  /\ left = NoLinks /\ right = NoLinks /\ parent = NoLinks
  /\ record = [k \in Key |-> NoRecord]
  /\ node_count = 0

Init ==
  /\ tree_new
  /\ call = NoCall /\ answer = NoCall
  /\ at = "idle" /\ z = Null /\ p = Null

-----------------------------------------------------------------------------
(* The links as a value, for the helpers that are called in a row.         *)
Tree == [root |-> root, left |-> left, right |-> right, parent |-> parent]

SetTree(t) ==
  root' = t.root /\ left' = t.left /\ right' = t.right /\ parent' = t.parent

(* Mutant: the subtree that changes sides keeps its old parent.            *)
left_rotate_unlinked(t, x) ==
  LET y == t.right[x]
      q == t.parent[x]
  IN  [root   |-> IF q = Null THEN y ELSE t.root,
       left   |-> [n \in Key |-> IF n = y THEN x
                                 ELSE IF n = q /\ t.left[q] = x THEN y ELSE t.left[n]],
       right  |-> [n \in Key |-> IF n = x THEN t.left[y]
                                 ELSE IF n = q /\ t.left[q] # x THEN y ELSE t.right[n]],
       parent |-> [n \in Key |-> IF n = x THEN y ELSE IF n = y THEN q ELSE t.parent[n]]]

(* The right child y of x takes its place.                                 *)
left_rotate(t, x) ==
  LET y == t.right[x]
      q == t.parent[x]
      m == IF y = Null THEN Null ELSE t.left[y]
  IN  [root   |-> IF q = Null THEN y ELSE t.root,
       left   |-> [n \in Key |-> IF n = y THEN x
                                 ELSE IF n = q /\ t.left[q] = x THEN y ELSE t.left[n]],
       right  |-> [n \in Key |-> IF n = x THEN m
                                 ELSE IF n = q /\ t.left[q] # x THEN y ELSE t.right[n]],
       parent |-> [n \in Key |-> IF n = x THEN y
                                 ELSE IF n = y THEN q
                                 ELSE IF n = m THEN x ELSE t.parent[n]]]

right_rotate(t, x) ==
  LET y == t.left[x]
      q == t.parent[x]
      m == IF y = Null THEN Null ELSE t.right[y]
  IN  [root   |-> IF q = Null THEN y ELSE t.root,
       left   |-> [n \in Key |-> IF n = x THEN m
                                 ELSE IF n = q /\ t.left[q] = x THEN y ELSE t.left[n]],
       right  |-> [n \in Key |-> IF n = y THEN x
                                 ELSE IF n = q /\ t.left[q] # x THEN y ELSE t.right[n]],
       parent |-> [n \in Key |-> IF n = x THEN y
                                 ELSE IF n = y THEN q
                                 ELSE IF n = m THEN x ELSE t.parent[n]]]

(* One round of splay().                                                   *)
splayed(t, x) ==
  LET f == t.parent[x]
      g == t.parent[f]
      isLeft(n) == t.left[t.parent[n]] = n
  IN  IF g = Null
        THEN IF isLeft(x) THEN right_rotate(t, f) ELSE left_rotate(t, f)
      ELSE IF isLeft(x) /\ isLeft(f)
        THEN LET u == right_rotate(t, g) IN right_rotate(u, u.parent[x])
      ELSE IF ~isLeft(x) /\ ~isLeft(f)
        THEN LET u == left_rotate(t, g) IN left_rotate(u, u.parent[x])
      ELSE IF isLeft(x)
        THEN LET u == right_rotate(t, f) IN left_rotate(u, u.parent[x])
      ELSE LET u == left_rotate(t, f) IN right_rotate(u, u.parent[x])

(* Node v (or nothing) takes the place of u.                               *)
replace(t, u, v) ==
  LET q == t.parent[u]
  IN  [t EXCEPT
        !.root   = IF q = Null THEN v ELSE @,
        !.left   = [n \in Key |-> IF n = q /\ @[q] = u THEN v ELSE @[n]],
        !.right  = [n \in Key |-> IF n = q /\ t.left[q] # u THEN v ELSE @[n]],
        !.parent = [n \in Key |-> IF n = v THEN q ELSE @[n]]]

(* Node n and what is reached from it along a link.                        *)
Closed(link, S)  == \A n \in S : link[n] # Null => link[n] \in S
Reached(link, n) == {k \in Key : \A S \in SUBSET Key : n \in S /\ Closed(link, S) => k \in S}

(* The end of the walk down the left links.                                *)
subtree_minimum(t, x) == CHOOSE n \in Reached(t.left, x) : t.left[n] = Null

(* Node x is cut out, when it is at the root.                              *)
Cut(t, x) ==
  IF t.left[x] = Null THEN replace(t, x, t.right[x])
  ELSE IF t.right[x] = Null THEN replace(t, x, t.left[x])
  ELSE LET y == subtree_minimum(t, t.right[x])
           a == replace(t, y, t.right[y])
           b == IF t.parent[y] = x THEN t
                ELSE [a EXCEPT !.right[y] = a.right[x], !.parent[a.right[x]] = y]
           d == replace(b, x, y)
       IN  [d EXCEPT !.left[y] = d.left[x], !.parent[d.left[x]] = y]

(* The node is freed.                                                      *)
Freed(t, x) ==
  [t EXCEPT !.left[x] = Null, !.right[x] = Null, !.parent[x] = Null]

-----------------------------------------------------------------------------
Begin ==
  /\ at = "idle"
  /\ \/ \E k \in Key, r \in Record : call' = <<"tree_insert", k, r>>
     \/ \E f \in {"tree_find", "tree_find_nearest", "tree_remove"}, k \in Key :
          call' = <<f, k, NoRecord>>
  /\ at' = "walk"
  /\ z' = root
  /\ p' = Null
  /\ UNCHANGED <<links, contents, answer>>

key == call[2]

(* A walk goes down one link.  tree_find_nearest remembers the last node   *)
(* it went right at, tree_insert the last node.                            *)
Walk ==
  /\ at = "walk"
  /\ z # Null
  /\ z # key
  /\ z' = IF key > z THEN right[z] ELSE left[z]
  /\ p' = IF call[1] = "tree_find_nearest" /\ key < z THEN p ELSE z
  /\ UNCHANGED <<links, contents, call, at, answer>>

Found(f)  == at = "walk" /\ call[1] = f /\ z = key
Missed(f) == at = "walk" /\ call[1] = f /\ z = Null

FindFound ==
  /\ Found("tree_find") \/ Found("tree_find_nearest")
  /\ answer' = <<record[z]>>
  /\ at' = "return"
  /\ UNCHANGED <<links, contents, call, z, p>>

FindMissed ==
  /\ Missed("tree_find")
  /\ answer' = <<NoRecord>>
  /\ at' = "return"
  /\ UNCHANGED <<links, contents, call, z, p>>

(* Mutant: the nearest node is forgotten on the way, and the root's record *)
(* is returned.                                                            *)
NearestMissedLast ==
  /\ Missed("tree_find_nearest")
  /\ answer' = <<IF root = Null THEN NoRecord ELSE record[root]>>
  /\ at' = "return"
  /\ UNCHANGED <<links, contents, call, z, p>>

NearestMissed ==
  /\ Missed("tree_find_nearest")
  /\ answer' = <<IF p = Null THEN NoRecord ELSE record[p]>>
  /\ at' = "return"
  /\ UNCHANGED <<links, contents, call, z, p>>

(* A key that is there gets the new record, and is not splayed.            *)
InsertFound ==
  /\ Found("tree_insert")
  /\ record' = [record EXCEPT ![z] = call[3]]
  /\ answer' = TRUE
  /\ at' = "return"
  /\ UNCHANGED <<links, node_count, call, z, p>>

InsertMissed ==
  /\ Missed("tree_insert")
  /\ record' = [record EXCEPT ![key] = call[3]]
  /\ parent' = [parent EXCEPT ![key] = p]
  /\ left'   = [n \in Key |-> IF n = p /\ key < p THEN key
                              ELSE IF n = key THEN Null ELSE left[n]]
  /\ right'  = [n \in Key |-> IF n = p /\ p < key THEN key
                              ELSE IF n = key THEN Null ELSE right[n]]
  /\ root' = IF p = Null THEN key ELSE root
  /\ z' = key
  /\ answer' = TRUE
  /\ at' = "splay"
  /\ UNCHANGED <<node_count, call, p>>

RemoveFound ==
  /\ Found("tree_remove")
  /\ at' = "splay"
  /\ UNCHANGED <<links, contents, call, z, p, answer>>

RemoveMissed ==
  /\ Missed("tree_remove")
  /\ answer' = <<NoRecord>>
  /\ at' = "return"
  /\ UNCHANGED <<links, contents, call, z, p>>

Splay ==
  /\ at = "splay"
  /\ parent[z] # Null
  /\ SetTree(splayed(Tree, z))
  /\ UNCHANGED <<contents, call, at, z, p, answer>>

InsertEnds ==
  /\ at = "splay"
  /\ call[1] = "tree_insert"
  /\ parent[z] = Null
  /\ node_count' = node_count + 1
  /\ at' = "return"
  /\ UNCHANGED <<links, record, call, z, p, answer>>

(* Mutant: the node is not counted off.                                    *)
RemoveEndsUncounted ==
  /\ at = "splay"
  /\ call[1] = "tree_remove"
  /\ parent[z] = Null
  /\ answer' = <<record[z]>>
  /\ SetTree(Freed(Cut(Tree, z), z))
  /\ record' = [record EXCEPT ![z] = NoRecord]
  /\ at' = "return"
  /\ UNCHANGED <<node_count, call, z, p>>

RemoveEnds ==
  /\ at = "splay"
  /\ call[1] = "tree_remove"
  /\ parent[z] = Null
  /\ answer' = <<record[z]>>
  /\ SetTree(Freed(Cut(Tree, z), z))
  /\ record' = [record EXCEPT ![z] = NoRecord]
  /\ node_count' = node_count - 1
  /\ at' = "return"
  /\ UNCHANGED <<call, z, p>>

Return ==
  /\ at = "return"
  /\ at' = "idle"
  /\ call' = NoCall /\ answer' = NoCall
  /\ z' = Null /\ p' = Null
  /\ UNCHANGED <<links, contents>>

Work ==
  \/ Walk \/ Splay \/ Return
  \/ FindFound \/ FindMissed \/ NearestMissed
  \/ InsertFound \/ InsertMissed \/ InsertEnds
  \/ RemoveFound \/ RemoveMissed \/ RemoveEnds

Next == Begin \/ Work

Spec == Init /\ [][Next]_vars

-----------------------------------------------------------------------------
Node == {k \in Key : record[k] # NoRecord}

TypeOK ==
  /\ {left, right, parent} \subseteq [Key -> Key \cup {Null}]
  /\ {root, z, p} \subseteq Key \cup {Null}
  /\ record \in [Key -> Record \cup {NoRecord}]
  /\ node_count \in 0 .. Cardinality(Key)
  /\ at \in {"idle", "walk", "splay", "return"}

(* The links are a search tree of exactly the filed keys after every round *)
(* of every loop: each node is the child of its parent on the side its key *)
(* belongs to, everything below it on that side too, and only the root has *)
(* no parent; between two calls node_count is their number.                *)
UpFrom(n) == Reached(parent, n)   \* n and its ancestors

Hangs(n) ==
  LET up == UpFrom(n)
  IN  /\ root \in up
      /\ \A a \in up \ {n} : IF n < a THEN left[a] \in up ELSE right[a] \in up

SearchTree ==
  /\ \A n \in Key \ Node : left[n] = Null /\ right[n] = Null /\ parent[n] = Null
  /\ (root = Null) <=> (Node = {})
  /\ \A n \in Node :
       /\ (parent[n] = Null) <=> (n = root)
       /\ left[n] # Null => parent[left[n]] = n
       /\ right[n] # Null => parent[right[n]] = n
       /\ parent[n] # Null => n \in {left[parent[n]], right[parent[n]]}
       /\ Hangs(n)
  /\ at \in {"idle", "walk"} => node_count = Cardinality(Node)

(* The calls implement an ordered map: splaying changes no contents, and a *)
(* call answers as if it had run at once.                                  *)
Map == INSTANCE OrderedMap WITH map <- record

ImplementsOrderedMap == Map!Spec

=============================================================================
