--------------------------- MODULE ReadersWriters ---------------------------
(***************************************************************************)
(* What a snooping protocol promises the processors: permissions.  A       *)
(* processor gets permission to write a line only while no other one holds *)
(* any permission for it, and to read it only while no other one may       *)
(* write; permissions are taken away at any time.                          *)
(***************************************************************************)
CONSTANTS Proc, Line

VARIABLE mode   \* mode[l][p]: what processor p may do to line l

Mode == {"none", "read", "write"}

TypeOK == mode \in [Line -> [Proc -> Mode]]

Init == mode = [l \in Line |-> [p \in Proc |-> "none"]]

Compatible(m, n) == m = "none" \/ n = "none" \/ (m = "read" /\ n = "read")

Acquire(l, p, m) ==
  /\ \A q \in Proc \ {p} : Compatible(m, mode[l][q])
  /\ mode' = [mode EXCEPT ![l][p] = m]

Revoke(l, S) ==
  mode' = [mode EXCEPT ![l] = [p \in Proc |-> IF p \in S THEN "none" ELSE @[p]]]

Next == \E l \in Line :
          \/ \E p \in Proc, m \in {"read", "write"} : Acquire(l, p, m)
          \/ \E S \in SUBSET Proc : Revoke(l, S)

Spec == Init /\ [][Next]_mode

(* A permission to write excludes every other one.                         *)
Exclusion == \A l \in Line : \A p \in Proc : \A q \in Proc \ {p} :
               Compatible(mode[l][p], mode[l][q])
=============================================================================
