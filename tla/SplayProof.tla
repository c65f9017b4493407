------------------------------ MODULE SplayProof ------------------------------
(***************************************************************************)
(* Proofs about SplayTree: the links are a search tree after every step,   *)
(* and the calls implement an ordered map.                                 *)
(***************************************************************************)
EXTENDS SplayTree, FiniteSetTheorems, TLAPS

(* What is said of the links t of the nodes N in terms of below, the set   *)
(* of nodes each node stands above (itself among them): a child has its    *)
(* parent's set on its side of the parent's key.  Every condition is about *)
(* one node and its neighbours, yet a node below itself would break it.    *)
Typed(t) ==
  /\ t.root \in Key \cup {Null}
  /\ t.left \in [Key -> Key \cup {Null}]
  /\ t.right \in [Key -> Key \cup {Null}]
  /\ t.parent \in [Key -> Key \cup {Null}]

Smaller(S, n) == {k \in S : k < n}
Greater(S, n) == {k \in S : n < k}

Above(t, N, below, n) ==
  /\ n \in below[n] /\ below[n] \subseteq N
  /\ IF t.left[n] = Null THEN Smaller(below[n], n) = {}
     ELSE /\ t.left[n] \in N /\ t.parent[t.left[n]] = n
          /\ below[t.left[n]] = Smaller(below[n], n)
  /\ IF t.right[n] = Null THEN Greater(below[n], n) = {}
     ELSE /\ t.right[n] \in N /\ t.parent[t.right[n]] = n
          /\ below[t.right[n]] = Greater(below[n], n)
  /\ IF t.parent[n] = Null THEN n = t.root
     ELSE /\ t.parent[n] \in N
          /\ n \in {t.left[t.parent[n]], t.right[t.parent[n]]}

Loose(t, n) == t.left[n] = Null /\ t.right[n] = Null /\ t.parent[n] = Null

Shape(t, N, below) ==
  /\ Typed(t)
  /\ N \subseteq Key
  /\ below \in [Key -> SUBSET Key]
  /\ \A n \in Key \ N : Loose(t, n)
  /\ \A n \in N : Above(t, N, below, n)
  /\ IF t.root = Null THEN N = {}
     ELSE t.root \in N /\ t.parent[t.root] = Null /\ below[t.root] = N

-----------------------------------------------------------------------------
(* Lemmas about any tree.                                                  *)

(* What the conditions say of one node.                                    *)
LEMMA NodeFacts ==
  ASSUME NEW t, NEW N, NEW below, Shape(t, N, below), NEW n \in N
  PROVE  /\ n \in Key /\ n \in Int /\ n # Null /\ N \subseteq Int /\ N \subseteq Key
         /\ n \in below[n] /\ below[n] \subseteq N
         /\ t.left[n] = Null => Smaller(below[n], n) = {} /\ \A k \in below[n] : n <= k
         /\ t.left[n] # Null => /\ t.left[n] \in N /\ t.parent[t.left[n]] = n
                                /\ t.left[n] < n /\ t.left[n] \in below[n]
                                /\ below[t.left[n]] = Smaller(below[n], n)
         /\ t.right[n] = Null => Greater(below[n], n) = {} /\ \A k \in below[n] : k <= n
         /\ t.right[n] # Null => /\ t.right[n] \in N /\ t.parent[t.right[n]] = n
                                 /\ n < t.right[n] /\ t.right[n] \in below[n]
                                 /\ below[t.right[n]] = Greater(below[n], n)
         /\ t.parent[n] # Null => /\ t.parent[n] \in N
                                  /\ n \in {t.left[t.parent[n]], t.right[t.parent[n]]}
         /\ t.parent[n] = Null <=> n = t.root
<1>1. N \subseteq Key /\ Key \subseteq Int /\ Null \notin Key /\ n \in N /\ n # Null
  BY KeyAssumption DEF Shape
<1>2. \A k \in N : Above(t, N, below, k)
  BY DEF Shape
<1>3. n \in below[n] /\ below[n] \subseteq N
  BY <1>2 DEF Above
<1>4. t.left[n] = Null => Smaller(below[n], n) = {} /\ \A k \in below[n] : n <= k
  <2> SUFFICES ASSUME t.left[n] = Null, NEW k \in below[n]
               PROVE  Smaller(below[n], n) = {} /\ n <= k
    BY <1>2 DEF Above
  <2>1. Smaller(below[n], n) = {}
    BY <1>2 DEF Above
  <2>2. k \in Int /\ n \in Int /\ k \notin Smaller(below[n], n)
    BY <1>1, <1>3, <2>1
  <2> QED BY <2>1, <2>2 DEF Smaller
<1>9. t.right[n] = Null => Greater(below[n], n) = {} /\ \A k \in below[n] : k <= n
  <2> SUFFICES ASSUME t.right[n] = Null, NEW k \in below[n]
               PROVE  Greater(below[n], n) = {} /\ k <= n
    BY <1>2 DEF Above
  <2>1. Greater(below[n], n) = {}
    BY <1>2 DEF Above
  <2>2. k \in Int /\ n \in Int /\ k \notin Greater(below[n], n)
    BY <1>1, <1>3, <2>1
  <2> QED BY <2>1, <2>2 DEF Greater
<1>5. t.left[n] # Null => /\ t.left[n] \in N /\ t.parent[t.left[n]] = n
                          /\ t.left[n] < n /\ t.left[n] \in below[n]
                          /\ below[t.left[n]] = Smaller(below[n], n)
  BY <1>1, <1>2 DEF Above, Smaller
<1>6. t.right[n] # Null => /\ t.right[n] \in N /\ t.parent[t.right[n]] = n
                           /\ n < t.right[n] /\ t.right[n] \in below[n]
                           /\ below[t.right[n]] = Greater(below[n], n)
  BY <1>1, <1>2 DEF Above, Greater
<1>7. t.parent[n] # Null => t.parent[n] \in N /\ n \in {t.left[t.parent[n]], t.right[t.parent[n]]}
  BY <1>2 DEF Above
<1>8. t.parent[n] = Null <=> n = t.root
  BY <1>1, <1>2 DEF Above, Shape
<1> QED
  BY <1>1, <1>3, <1>4, <1>5, <1>6, <1>7, <1>8, <1>9

(* What holds of a node when it holds of its children holds of all nodes.  *)
LEMMA Downward ==
  ASSUME NEW t, NEW N, NEW below, Shape(t, N, below), NEW S,
         \A k \in N : /\ t.left[k] # Null => t.left[k] \in S
                      /\ t.right[k] # Null => t.right[k] \in S
                      => k \in S
  PROVE  N \subseteq S
<1> SUFFICES ASSUME ~(N \subseteq S) PROVE FALSE
  OBVIOUS
<1> DEFINE T == {below[k] : k \in N \ S}
<1>1. T \subseteq SUBSET Key /\ T # {}
  BY DEF Shape
<1>2. IsWellFoundedOn(StrictSubsetOrdering(Key), SUBSET Key)
  BY KeyAssumption, FS_StrictSubsetOrderingWellFounded, FS_FiniteSubsetsOfFinite
<1>3. PICK B \in T : \A A \in T : ~(<<A, B>> \in StrictSubsetOrdering(Key))
  <2> HIDE DEF T
  <2> QED BY <1>1, <1>2, WFMin
<1>4. PICK k \in N \ S : B = below[k]
  OBVIOUS
<1>5. ASSUME NEW c \in N, below[c] \subseteq below[k], below[c] # below[k]
      PROVE  c \in S
  <2>1. <<below[c], below[k]>> \in StrictSubsetOrdering(Key)
    BY <1>5 DEF StrictSubsetOrdering, Shape
  <2> QED BY <2>1, <1>3, <1>4
<1>6. /\ k \in below[k]
      /\ k \notin Smaller(below[k], k) /\ k \notin Greater(below[k], k)
      /\ Smaller(below[k], k) \subseteq below[k] /\ Greater(below[k], k) \subseteq below[k]
  BY KeyAssumption DEF Shape, Above, Smaller, Greater
<1>7. t.left[k] # Null => t.left[k] \in S
  BY <1>5, <1>6 DEF Shape, Above
<1>8. t.right[k] # Null => t.right[k] \in S
  BY <1>5, <1>6 DEF Shape, Above
<1> QED
  BY <1>7, <1>8

(* What is below a node below n is below n; and so is its parent.          *)
LEMMA Laminar ==
  ASSUME NEW t, NEW N, NEW below, Shape(t, N, below),
         NEW n \in N, NEW k \in below[n]
  PROVE  /\ k \in N
         /\ below[k] \subseteq below[n]
         /\ k # n => t.parent[k] \in below[n] /\ t.parent[k] # Null
<1> DEFINE S == {m \in N : \A j \in below[m] :
                   /\ below[j] \subseteq below[m]
                   /\ j # m => t.parent[j] \in below[m] /\ t.parent[j] # Null}
<1>1. ASSUME NEW m \in N,
             t.left[m] # Null => t.left[m] \in S,
             t.right[m] # Null => t.right[m] \in S
      PROVE  m \in S
  <2> SUFFICES ASSUME NEW j \in below[m], j # m
               PROVE  /\ below[j] \subseteq below[m]
                      /\ t.parent[j] \in below[m] /\ t.parent[j] # Null
    OBVIOUS
  <2>1. j \in N /\ j \in Int /\ m \in Int /\ m \in below[m] /\ m # Null
    BY KeyAssumption DEF Shape, Above
  <2>2. CASE j < m
    <3>1. t.left[m] \in S /\ below[t.left[m]] = Smaller(below[m], m) /\ t.parent[t.left[m]] = m
      BY <1>1, <2>2 DEF Shape, Above, Smaller
    <3>2. j \in below[t.left[m]] /\ below[t.left[m]] \subseteq below[m]
      BY <2>2, <3>1 DEF Smaller
    <3> QED BY <2>1, <3>1, <3>2
  <2>3. CASE m < j
    <3>1. t.right[m] \in S /\ below[t.right[m]] = Greater(below[m], m) /\ t.parent[t.right[m]] = m
      BY <1>1, <2>3 DEF Shape, Above, Greater
    <3>2. j \in below[t.right[m]] /\ below[t.right[m]] \subseteq below[m]
      BY <2>3, <3>1 DEF Greater
    <3> QED BY <2>1, <3>1, <3>2
  <2> QED BY <2>1, <2>2, <2>3
<1>2. N \subseteq S
  <2> HIDE DEF S
  <2> QED BY <1>1, Downward
<1> QED
  BY <1>2 DEF Shape, Above

(* The way up from a node passes the nodes it is below.                    *)
LEMMA Upward ==
  ASSUME NEW t, NEW N, NEW below, Shape(t, N, below), NEW n \in N
  PROVE  Reached(t.parent, n) = {k \in N : n \in below[k]}
<1> DEFINE U == {k \in N : n \in below[k]}
<1>1. n \in U /\ U \subseteq Key /\ Null \notin Key
  BY KeyAssumption DEF Shape, Above
<1>2. Closed(t.parent, U)
  <2> SUFFICES ASSUME NEW k \in U, t.parent[k] # Null PROVE t.parent[k] \in U
    BY DEF Closed
  <2>1. t.parent[k] \in N /\ k \in {t.left[t.parent[k]], t.right[t.parent[k]]} /\ k # Null
    BY NodeFacts
  <2>2. below[k] \in {Smaller(below[t.parent[k]], t.parent[k]), Greater(below[t.parent[k]], t.parent[k])}
    BY <2>1, NodeFacts
  <2>3. below[k] \subseteq below[t.parent[k]]
    BY <2>2 DEF Smaller, Greater
  <2> QED BY <2>1, <2>3
<1>3. Reached(t.parent, n) \subseteq U
  BY <1>1, <1>2 DEF Reached
<1>4. ASSUME NEW S \in SUBSET Key, n \in S, Closed(t.parent, S)
      PROVE  U \subseteq S
  <2> DEFINE R == {k \in N : n \in below[k] => k \in S}
  <2>1. ASSUME NEW k \in N,
               t.left[k] # Null => t.left[k] \in R,
               t.right[k] # Null => t.right[k] \in R
        PROVE  k \in R
    <3> SUFFICES ASSUME n \in below[k], k # n PROVE k \in S
      BY <1>4
    <3>1. n \in Int /\ k \in Int /\ k # Null
      BY KeyAssumption DEF Shape
    <3>2. CASE n < k
      <4>1. t.left[k] # Null /\ n \in below[t.left[k]] /\ t.parent[t.left[k]] = k
        BY <3>2 DEF Shape, Above, Smaller
      <4> QED BY <2>1, <1>4, <3>1, <4>1 DEF Closed
    <3>3. CASE k < n
      <4>1. t.right[k] # Null /\ n \in below[t.right[k]] /\ t.parent[t.right[k]] = k
        BY <3>3 DEF Shape, Above, Greater
      <4> QED BY <2>1, <1>4, <3>1, <4>1 DEF Closed
    <3> QED BY <3>1, <3>2, <3>3
  <2>2. N \subseteq R
    <3> HIDE DEF R
    <3> QED BY <2>1, Downward
  <2> QED BY <2>2
<1>5. U \subseteq Reached(t.parent, n)
  BY <1>1, <1>4 DEF Reached
<1> QED
  BY <1>3, <1>5

(* The walk down the left links ends at the least node below its start.    *)
LEMMA MinimumIsLeast ==
  ASSUME NEW t, NEW N, NEW below, Shape(t, N, below), NEW n \in N
  PROVE  /\ subtree_minimum(t, n) \in below[n]
         /\ t.left[subtree_minimum(t, n)] = Null
         /\ \A j \in below[n] : subtree_minimum(t, n) <= j
<1> DEFINE R == Reached(t.left, n)
           W == {k \in below[n] : \A j \in below[n] : j < k => j \in below[k]}
<1>1. n \in W /\ W \subseteq Key /\ Null \notin Key
  BY KeyAssumption DEF Shape, Above
<1>2. Closed(t.left, W)
  <2> SUFFICES ASSUME NEW k \in W, t.left[k] # Null PROVE t.left[k] \in W
    BY DEF Closed
  <2>1. k \in N /\ below[k] \subseteq below[n]
    BY Laminar
  <2>2. t.left[k] \in N /\ below[t.left[k]] = Smaller(below[k], k) /\ t.left[k] \in below[t.left[k]]
    BY <2>1 DEF Shape, Above
  <2>3. t.left[k] \in below[n] /\ t.left[k] < k
    BY <2>1, <2>2 DEF Smaller
  <2>4. ASSUME NEW j \in below[n], j < t.left[k] PROVE j \in below[t.left[k]]
    <3>1. j \in Int /\ k \in Int /\ t.left[k] \in Int
      BY <2>1, <2>2, KeyAssumption DEF Shape
    <3>2. j < k
      BY <3>1, <2>3, <2>4
    <3> QED BY <3>2, <2>2 DEF Smaller
  <2> QED BY <2>3, <2>4
<1>3. R \subseteq W
  BY <1>1, <1>2 DEF Reached
<1>4. n \in R /\ \A k \in R : t.left[k] # Null /\ t.left[k] \in Key => t.left[k] \in R
  BY <1>1 DEF Reached, Closed
<1>5. \E m \in R : t.left[m] = Null
  <2> DEFINE S == {k \in N : k \in R => \E m \in R : t.left[m] = Null}
  <2>1. ASSUME NEW k \in N,
               t.left[k] # Null => t.left[k] \in S,
               t.right[k] # Null => t.right[k] \in S
        PROVE  k \in S
    <3>1. t.left[k] # Null => t.left[k] \in Key
      BY DEF Shape, Above
    <3> QED BY <2>1, <1>4, <3>1
  <2>2. N \subseteq S
    <3> HIDE DEF S
    <3> QED BY <2>1, Downward
  <2> QED BY <2>2, <1>4
<1> DEFINE m == subtree_minimum(t, n)
<1>6. m \in R /\ t.left[m] = Null
  BY <1>5 DEF subtree_minimum
<1>7. m \in W /\ m \in N
  BY <1>3, <1>6, Laminar
<1>8. \A j \in below[m] : m <= j
  BY <1>6, <1>7, NodeFacts
<1>9. ASSUME NEW j \in below[n] PROVE m <= j
  <2>1. m \in Int /\ j \in Int
    BY <1>7, NodeFacts
  <2>2. j < m => j \in below[m]
    BY <1>7
  <2> HIDE DEF m
  <2> QED BY <2>1, <2>2, <1>8
<1> QED
  BY <1>6, <1>7, <1>9

-----------------------------------------------------------------------------
(* Rotations.                                                              *)

(* A child's set leaves its parent out.                                    *)
LEMMA Apart ==
  ASSUME NEW t, NEW N, NEW below, Shape(t, N, below),
         NEW n \in N, t.parent[n] # Null
  PROVE  /\ t.parent[n] \in N /\ t.parent[n] # n
         /\ t.parent[n] \notin below[n]
         /\ t.left[t.parent[n]] = n  => n < t.parent[n]
         /\ t.right[t.parent[n]] = n => t.parent[n] < n
<1> DEFINE q == t.parent[n]
<1>1. q \in N /\ q \in Int /\ n \in Int /\ n \in {t.left[q], t.right[q]}
  BY KeyAssumption DEF Shape, Above
<1>2. n # Null /\ n \in below[n]
  BY KeyAssumption DEF Shape, Above
<1>3. ASSUME t.left[q] = n PROVE below[n] = Smaller(below[q], q)
  BY <1>1, <1>2, <1>3 DEF Shape, Above
<1>4. ASSUME t.right[q] = n PROVE below[n] = Greater(below[q], q)
  BY <1>1, <1>2, <1>4 DEF Shape, Above
<1>5. t.left[q] = n => n < q /\ q \notin below[n]
  BY <1>1, <1>2, <1>3 DEF Smaller
<1>6. t.right[q] = n => q < n /\ q \notin below[n]
  BY <1>1, <1>2, <1>4 DEF Greater
<1> QED
  BY <1>1, <1>5, <1>6

LEMMA LeftRotateShape ==
  ASSUME NEW t, NEW N, NEW below, Shape(t, N, below),
         NEW x \in N, t.right[x] # Null
  PROVE  \E new : Shape(left_rotate(t, x), N, new)
<1> DEFINE y == t.right[x]
           q == t.parent[x]
           m == t.left[y]
           u == left_rotate(t, x)
           new == [below EXCEPT ![y] = below[x], ![x] = Smaller(below[x], y)]
<1>1. /\ y \in N /\ t.parent[y] = x /\ below[y] = Greater(below[x], x)
      /\ y \in below[y] /\ x \in below[x] /\ x # Null /\ y # Null
  BY NodeFacts
<1>2. y # x /\ x < y /\ x \notin below[y] /\ y \in below[x]
  <2>1. x \in Int /\ x < y /\ y \in below[x]
    BY NodeFacts
  <2>2. x \notin Greater(below[x], x)
    BY <2>1 DEF Greater
  <2> QED BY <1>1, <2>1, <2>2
<1>3. q # Null => /\ q \in N /\ q # x /\ q # y
                  /\ x = t.left[q] \/ (x = t.right[q] /\ x # t.left[q])
  <2>1. q # Null => q \in N /\ q # x /\ q \notin below[x]
    BY Apart
  <2>2. q # Null => x \in {t.left[q], t.right[q]}
    BY DEF Shape, Above
  <2> QED BY <2>1, <2>2, <1>2
<1>4. m # Null => /\ m \in N /\ t.parent[m] = y /\ m # y /\ m # x /\ m # q
                  /\ m \in below[m] /\ below[m] = Smaller(below[y], y)
  <2>1. m # Null => m \in N /\ t.parent[m] = y
                    /\ m \in below[m] /\ below[m] = Smaller(below[y], y)
    BY <1>1, NodeFacts
  <2>2. m # Null => m < y /\ m \in below[y] /\ y \in Int
    BY <1>1, NodeFacts
  <2>3. m # Null => m # y /\ m # x
    BY <1>2, <2>2
  <2>4. m # Null => m # q
    <3>1. m # Null => m \in below[x]
      BY <1>1, <2>2 DEF Greater
    <3>2. q # Null => q \notin below[x]
      BY Apart
    <3> QED BY <3>1, <3>2
  <2> QED BY <2>1, <2>3, <2>4
<1>5. /\ \A n \in Key : u.left[n] = IF n = y THEN x
                                    ELSE IF n = q /\ t.left[q] = x THEN y ELSE t.left[n]
      /\ \A n \in Key : u.right[n] = IF n = x THEN m
                                     ELSE IF n = q /\ t.left[q] # x THEN y ELSE t.right[n]
      /\ \A n \in Key : u.parent[n] = IF n = x THEN y ELSE IF n = y THEN q
                                      ELSE IF n = m THEN x ELSE t.parent[n]
      /\ u.root = IF q = Null THEN y ELSE t.root
  BY <1>2 DEF left_rotate
<1>6. /\ N \subseteq Key /\ Key \subseteq Int /\ Null \notin Key
      /\ x \in N /\ y \in N /\ q \in N \cup {Null} /\ m \in N \cup {Null}
  BY <1>1, <1>3, <1>4, KeyAssumption DEF Shape
<1>7. Typed(u)
  <2>1. /\ u.left \in [Key -> Key \cup {Null}]
    BY <1>6, <1>2 DEF left_rotate, Shape, Typed
  <2>2. /\ u.right \in [Key -> Key \cup {Null}]
    BY <1>6, <1>2 DEF left_rotate, Shape, Typed
  <2>3. /\ u.parent \in [Key -> Key \cup {Null}]
    BY <1>6, <1>2 DEF left_rotate, Shape, Typed
  <2> QED BY <2>1, <2>2, <2>3, <1>5, <1>6 DEF Shape, Typed
<1>8. /\ new \in [Key -> SUBSET Key]
      /\ new[x] = Smaller(below[x], y) /\ new[y] = below[x]
      /\ \A n \in Key : n # x /\ n # y => new[n] = below[n]
  <2>1. below \in [Key -> SUBSET Key] /\ Smaller(below[x], y) \subseteq Key
    BY <1>6 DEF Shape, Smaller
  <2> QED BY <2>1, <1>2, <1>6
<1> HIDE DEF new, u, y, q, m
<1>9. ASSUME NEW n \in Key \ N PROVE Loose(u, n)
  BY <1>5, <1>6 DEF Shape, Loose
<1>10. ASSUME NEW n \in N PROVE Above(u, N, new, n)
  <2>1. CASE n = x
    <3>1. u.left[x] = t.left[x] /\ u.right[x] = m /\ u.parent[x] = y /\ u.left[y] = x
      BY <1>2, <1>3, <1>5, <1>6
    <3>2. below[x] \subseteq Int /\ below[y] \subseteq Int /\ x \in Int /\ y \in Int
      BY <1>6, NodeFacts
    <3>3. Smaller(new[x], x) = Smaller(below[x], x) /\ Greater(new[x], x) = Smaller(below[y], y)
      BY <1>1, <1>2, <1>8, <3>2 DEF Smaller, Greater
    <3>4. x \in new[x] /\ new[x] \subseteq N
      BY <1>1, <1>2, <1>8, <3>2, NodeFacts DEF Smaller
    <3>5. IF t.left[x] = Null THEN Smaller(new[x], x) = {}
          ELSE /\ t.left[x] \in N /\ u.parent[t.left[x]] = x
               /\ new[t.left[x]] = Smaller(new[x], x)
      <4>1. CASE t.left[x] = Null
        BY <4>1, <3>3, NodeFacts
      <4>2. CASE t.left[x] # Null
        <5>1. /\ t.left[x] \in N /\ t.parent[t.left[x]] = x /\ t.left[x] < x
              /\ below[t.left[x]] = Smaller(below[x], x)
          BY <4>2, NodeFacts
        <5>2. t.left[x] # x /\ t.left[x] # y /\ t.left[x] # m
          BY <1>2, <1>4, <4>2, <5>1, <3>2, <1>6
        <5> QED BY <4>2, <5>1, <5>2, <3>3, <1>5, <1>6, <1>8
      <4> QED BY <4>1, <4>2
    <3>6. IF m = Null THEN Greater(new[x], x) = {}
          ELSE /\ m \in N /\ u.parent[m] = x
               /\ new[m] = Greater(new[x], x)
      <4>1. CASE m = Null
        BY <4>1, <1>1, <3>3, NodeFacts DEF m
      <4>2. CASE m # Null
        BY <4>2, <1>4, <3>3, <1>5, <1>6, <1>8
      <4> QED BY <4>1, <4>2
    <3> QED BY <1>1, <2>1, <3>1, <3>4, <3>5, <3>6 DEF Above
  <2>2. CASE n = y
    <3>1. u.left[y] = x /\ u.right[y] = t.right[y] /\ u.parent[y] = q /\ u.parent[x] = y
      BY <1>2, <1>3, <1>5, <1>6
    <3>2. below[x] \subseteq Int /\ below[y] \subseteq Int /\ x \in Int /\ y \in Int
      BY <1>6, NodeFacts
    <3>3. Smaller(new[y], y) = new[x] /\ Greater(new[y], y) = Greater(below[y], y)
      BY <1>1, <1>2, <1>8, <3>2 DEF Smaller, Greater
    <3>4. y \in new[y] /\ new[y] \subseteq N
      BY <1>2, <1>8, NodeFacts
    <3>5. IF t.right[y] = Null THEN Greater(new[y], y) = {}
          ELSE /\ t.right[y] \in N /\ u.parent[t.right[y]] = y
               /\ new[t.right[y]] = Greater(new[y], y)
      <4>1. CASE t.right[y] = Null
        BY <4>1, <1>1, <3>3, NodeFacts
      <4>2. CASE t.right[y] # Null
        <5>1. /\ t.right[y] \in N /\ t.parent[t.right[y]] = y /\ y < t.right[y]
              /\ below[t.right[y]] = Greater(below[y], y)
          BY <4>2, <1>1, NodeFacts
        <5>2. m # Null => m < y
          BY <1>1, NodeFacts DEF m
        <5>3. t.right[y] # x /\ t.right[y] # y /\ t.right[y] # m
          BY <1>2, <4>2, <5>1, <5>2, <3>2, <1>6
        <5> QED BY <4>2, <5>1, <5>3, <3>3, <1>5, <1>6, <1>8
      <4> QED BY <4>1, <4>2
    <3>6. IF q = Null THEN y = u.root
          ELSE q \in N /\ y \in {u.left[q], u.right[q]}
      BY <1>3, <1>5, <1>6, <1>2
    <3> QED BY <1>1, <2>2, <3>1, <3>3, <3>4, <3>5, <3>6 DEF Above
  <2>3. CASE n # x /\ n # y
    <3>1. /\ n \in Key /\ n # Null /\ new[n] = below[n]
          /\ n \in new[n] /\ new[n] \subseteq N
      BY <2>3, <1>6, <1>8, NodeFacts
    <3>2. n # t.left[x] => t.parent[n] # x
      BY <2>3, NodeFacts DEF y
    <3>3. IF u.left[n] = Null THEN Smaller(new[n], n) = {}
          ELSE /\ u.left[n] \in N /\ u.parent[u.left[n]] = n
               /\ new[u.left[n]] = Smaller(new[n], n)
      <4>1. CASE n = q /\ t.left[q] = x
        <5>1. u.left[n] = y /\ u.parent[y] = n /\ new[y] = below[x]
          BY <4>1, <2>3, <1>2, <1>5, <1>6, <1>8
        <5>2. below[x] = Smaller(below[n], n)
          BY <4>1, <1>1, NodeFacts
        <5>3. new[u.left[n]] = Smaller(new[n], n)
          BY <5>1, <5>2, <3>1
        <5> QED BY <5>1, <5>3, <1>1
      <4>2. CASE ~(n = q /\ t.left[q] = x)
        <5>1. u.left[n] = t.left[n]
          BY <4>2, <2>3, <1>5, <1>6
        <5>2. CASE t.left[n] = Null
          <6>1. Smaller(below[n], n) = {}
            BY <5>2, NodeFacts
          <6> QED BY <5>1, <5>2, <6>1, <3>1
        <5>3. CASE t.left[n] # Null
          <6>1. t.left[n] \in N /\ t.parent[t.left[n]] = n /\ below[t.left[n]] = Smaller(below[n], n)
            BY <5>3, NodeFacts
          <6>2. t.left[n] # x /\ t.left[n] # y /\ t.left[n] # m
            BY <6>1, <4>2, <2>3, <1>1, <1>4, <5>3 DEF q
          <6>3. u.parent[t.left[n]] = n /\ new[t.left[n]] = below[t.left[n]]
            BY <6>1, <6>2, <1>5, <1>6, <1>8
          <6> QED BY <6>1, <6>3, <5>1, <5>3, <3>1
        <5> QED BY <5>2, <5>3
      <4> QED BY <4>1, <4>2
    <3>4. IF u.right[n] = Null THEN Greater(new[n], n) = {}
          ELSE /\ u.right[n] \in N /\ u.parent[u.right[n]] = n
               /\ new[u.right[n]] = Greater(new[n], n)
      <4>1. CASE n = q /\ t.left[q] # x
        <5>1. u.right[n] = y /\ u.parent[y] = n /\ new[y] = below[x]
          BY <4>1, <2>3, <1>2, <1>5, <1>6, <1>8
        <5>2. below[x] = Greater(below[n], n)
          BY <4>1, <1>1, <1>3, <3>1, NodeFacts
        <5>3. new[u.right[n]] = Greater(new[n], n)
          BY <5>1, <5>2, <3>1
        <5> QED BY <5>1, <5>3, <1>1
      <4>2. CASE ~(n = q /\ t.left[q] # x)
        <5>1. u.right[n] = t.right[n]
          BY <4>2, <2>3, <1>5, <1>6
        <5>2. CASE t.right[n] = Null
          <6>1. Greater(below[n], n) = {}
            BY <5>2, NodeFacts
          <6> QED BY <5>1, <5>2, <6>1, <3>1
        <5>3. CASE t.right[n] # Null
          <6>1. /\ t.right[n] \in N /\ t.parent[t.right[n]] = n
                /\ below[t.right[n]] = Greater(below[n], n) /\ n < t.right[n]
            BY <5>3, NodeFacts
          <6>2. t.left[n] = x => x < n
            BY <1>1, NodeFacts
          <6>3. x \in Int /\ n \in Int
            BY <1>6
          <6>4. t.right[n] # x
            BY <6>1, <6>2, <6>3, <4>2 DEF q
          <6>5. t.right[n] # y /\ t.right[n] # m
            BY <6>1, <2>3, <1>1, <1>4, <5>3
          <6>6. u.parent[t.right[n]] = n /\ new[t.right[n]] = below[t.right[n]]
            BY <6>1, <6>4, <6>5, <1>5, <1>6, <1>8
          <6> QED BY <6>1, <6>6, <5>1, <5>3, <3>1
        <5> QED BY <5>2, <5>3
      <4> QED BY <4>1, <4>2
    <3>5. IF u.parent[n] = Null THEN n = u.root
          ELSE u.parent[n] \in N /\ n \in {u.left[u.parent[n]], u.right[u.parent[n]]}
      <4>1. CASE n = m
        BY <4>1, <2>3, <1>2, <1>3, <1>5, <1>6, <3>1
      <4>2. CASE n # m /\ t.parent[n] = Null
        <5>1. n = t.root
          BY <4>2, NodeFacts
        <5>2. q = Null => x = t.root
          BY NodeFacts DEF q
        <5> QED BY <5>1, <5>2, <4>2, <2>3, <1>5, <1>6
      <4>3. CASE n # m /\ t.parent[n] # Null
        <5> DEFINE r == t.parent[n]
        <5>1. r \in N /\ n \in {t.left[r], t.right[r]} /\ u.parent[n] = r
          BY <4>3, <2>3, <1>5, <1>6, NodeFacts
        <5> HIDE DEF r
        <5>2. CASE r = x
          BY <5>1, <5>2, <2>3, <1>2, <1>3, <1>5, <1>6 DEF y
        <5>3. CASE r = y
          BY <5>1, <5>3, <4>3, <2>3, <1>2, <1>3, <1>5, <1>6 DEF m
        <5>4. CASE r # x /\ r # y
          BY <5>1, <5>4, <2>3, <1>3, <1>5, <1>6
        <5> QED BY <5>1, <5>2, <5>3, <5>4, <1>6
      <4> QED BY <4>1, <4>2, <4>3
    <3> QED BY <3>1, <3>3, <3>4, <3>5 DEF Above
  <2> QED BY <2>1, <2>2, <2>3
<1>11. u.root # Null /\ u.root \in N /\ u.parent[u.root] = Null /\ new[u.root] = N
  <2>1. CASE q = Null
    BY <2>1, <1>2, <1>5, <1>6, <1>8, <1>1 DEF Shape, Above, q
  <2>2. CASE q # Null
    <3>1. t.root # x /\ t.root # y /\ t.root \in N /\ t.parent[t.root] = Null /\ below[t.root] = N
      BY <2>2, <1>1, <1>2, <1>6 DEF Shape, q
    <3>2. t.root # m
      BY <3>1, <1>2, <1>4, <1>6
    <3> QED BY <2>2, <3>1, <3>2, <1>5, <1>6, <1>8
  <2> QED BY <2>1, <2>2
<1> QED
  BY <1>6, <1>7, <1>8, <1>9, <1>10, <1>11 DEF Shape, u

LEMMA RightRotateShape ==
  ASSUME NEW t, NEW N, NEW below, Shape(t, N, below),
         NEW x \in N, t.left[x] # Null
  PROVE  \E new : Shape(right_rotate(t, x), N, new)
<1> DEFINE y == t.left[x]
           q == t.parent[x]
           m == t.right[y]
           u == right_rotate(t, x)
           new == [below EXCEPT ![y] = below[x], ![x] = Greater(below[x], y)]
<1>1. /\ y \in N /\ t.parent[y] = x /\ below[y] = Smaller(below[x], x)
      /\ y \in below[y] /\ x \in below[x] /\ x # Null /\ y # Null
  BY NodeFacts
<1>2. y # x /\ y < x /\ x \notin below[y] /\ y \in below[x]
  <2>1. x \in Int /\ y < x /\ y \in below[x]
    BY NodeFacts
  <2>2. x \notin Smaller(below[x], x)
    BY <2>1 DEF Smaller
  <2> QED BY <1>1, <2>1, <2>2
<1>3. q # Null => /\ q \in N /\ q # x /\ q # y
                  /\ x = t.left[q] \/ (x = t.right[q] /\ x # t.left[q])
  <2>1. q # Null => q \in N /\ q # x /\ q \notin below[x]
    BY Apart
  <2>2. q # Null => x \in {t.right[q], t.left[q]}
    BY DEF Shape, Above
  <2> QED BY <2>1, <2>2, <1>2
<1>4. m # Null => /\ m \in N /\ t.parent[m] = y /\ m # y /\ m # x /\ m # q
                  /\ m \in below[m] /\ below[m] = Greater(below[y], y)
  <2>1. m # Null => m \in N /\ t.parent[m] = y
                    /\ m \in below[m] /\ below[m] = Greater(below[y], y)
    BY <1>1, NodeFacts
  <2>2. m # Null => y < m /\ m \in below[y] /\ y \in Int
    BY <1>1, NodeFacts
  <2>3. m # Null => m # y /\ m # x
    BY <1>2, <2>2
  <2>4. m # Null => m # q
    <3>1. m # Null => m \in below[x]
      BY <1>1, <2>2 DEF Smaller
    <3>2. q # Null => q \notin below[x]
      BY Apart
    <3> QED BY <3>1, <3>2
  <2> QED BY <2>1, <2>3, <2>4
<1>5. /\ \A n \in Key : u.right[n] = IF n = y THEN x
                                    ELSE IF n = q /\ t.left[q] # x THEN y ELSE t.right[n]
      /\ \A n \in Key : u.left[n] = IF n = x THEN m
                                     ELSE IF n = q /\ t.left[q] = x THEN y ELSE t.left[n]
      /\ \A n \in Key : u.parent[n] = IF n = x THEN y ELSE IF n = y THEN q
                                      ELSE IF n = m THEN x ELSE t.parent[n]
      /\ u.root = IF q = Null THEN y ELSE t.root
  BY <1>2 DEF right_rotate
<1>6. /\ N \subseteq Key /\ Key \subseteq Int /\ Null \notin Key
      /\ x \in N /\ y \in N /\ q \in N \cup {Null} /\ m \in N \cup {Null}
  BY <1>1, <1>3, <1>4, KeyAssumption DEF Shape
<1>7. Typed(u)
  <2>1. /\ u.right \in [Key -> Key \cup {Null}]
    BY <1>6, <1>2 DEF right_rotate, Shape, Typed
  <2>2. /\ u.left \in [Key -> Key \cup {Null}]
    BY <1>6, <1>2 DEF right_rotate, Shape, Typed
  <2>3. /\ u.parent \in [Key -> Key \cup {Null}]
    BY <1>6, <1>2 DEF right_rotate, Shape, Typed
  <2> QED BY <2>1, <2>2, <2>3, <1>5, <1>6 DEF Shape, Typed
<1>8. /\ new \in [Key -> SUBSET Key]
      /\ new[x] = Greater(below[x], y) /\ new[y] = below[x]
      /\ \A n \in Key : n # x /\ n # y => new[n] = below[n]
  <2>1. below \in [Key -> SUBSET Key] /\ Greater(below[x], y) \subseteq Key
    BY <1>6 DEF Shape, Greater
  <2> QED BY <2>1, <1>2, <1>6
<1> HIDE DEF new, u, y, q, m
<1>9. ASSUME NEW n \in Key \ N PROVE Loose(u, n)
  BY <1>5, <1>6 DEF Shape, Loose
<1>10. ASSUME NEW n \in N PROVE Above(u, N, new, n)
  <2>1. CASE n = x
    <3>1. u.right[x] = t.right[x] /\ u.left[x] = m /\ u.parent[x] = y /\ u.right[y] = x
      BY <1>2, <1>3, <1>5, <1>6
    <3>2. below[x] \subseteq Int /\ below[y] \subseteq Int /\ x \in Int /\ y \in Int
      BY <1>6, NodeFacts
    <3>3. Greater(new[x], x) = Greater(below[x], x) /\ Smaller(new[x], x) = Greater(below[y], y)
      BY <1>1, <1>2, <1>8, <3>2 DEF Greater, Smaller
    <3>4. x \in new[x] /\ new[x] \subseteq N
      BY <1>1, <1>2, <1>8, <3>2, NodeFacts DEF Greater
    <3>5. IF t.right[x] = Null THEN Greater(new[x], x) = {}
          ELSE /\ t.right[x] \in N /\ u.parent[t.right[x]] = x
               /\ new[t.right[x]] = Greater(new[x], x)
      <4>1. CASE t.right[x] = Null
        BY <4>1, <3>3, NodeFacts
      <4>2. CASE t.right[x] # Null
        <5>1. /\ t.right[x] \in N /\ t.parent[t.right[x]] = x /\ x < t.right[x]
              /\ below[t.right[x]] = Greater(below[x], x)
          BY <4>2, NodeFacts
        <5>2. t.right[x] # x /\ t.right[x] # y /\ t.right[x] # m
          BY <1>2, <1>4, <4>2, <5>1, <3>2, <1>6
        <5> QED BY <4>2, <5>1, <5>2, <3>3, <1>5, <1>6, <1>8
      <4> QED BY <4>1, <4>2
    <3>6. IF m = Null THEN Smaller(new[x], x) = {}
          ELSE /\ m \in N /\ u.parent[m] = x
               /\ new[m] = Smaller(new[x], x)
      <4>1. CASE m = Null
        BY <4>1, <1>1, <3>3, NodeFacts DEF m
      <4>2. CASE m # Null
        BY <4>2, <1>4, <3>3, <1>5, <1>6, <1>8
      <4> QED BY <4>1, <4>2
    <3> QED BY <1>1, <2>1, <3>1, <3>4, <3>5, <3>6 DEF Above
  <2>2. CASE n = y
    <3>1. u.right[y] = x /\ u.left[y] = t.left[y] /\ u.parent[y] = q /\ u.parent[x] = y
      BY <1>2, <1>3, <1>5, <1>6
    <3>2. below[x] \subseteq Int /\ below[y] \subseteq Int /\ x \in Int /\ y \in Int
      BY <1>6, NodeFacts
    <3>3. Greater(new[y], y) = new[x] /\ Smaller(new[y], y) = Smaller(below[y], y)
      BY <1>1, <1>2, <1>8, <3>2 DEF Greater, Smaller
    <3>4. y \in new[y] /\ new[y] \subseteq N
      BY <1>2, <1>8, NodeFacts
    <3>5. IF t.left[y] = Null THEN Smaller(new[y], y) = {}
          ELSE /\ t.left[y] \in N /\ u.parent[t.left[y]] = y
               /\ new[t.left[y]] = Smaller(new[y], y)
      <4>1. CASE t.left[y] = Null
        BY <4>1, <1>1, <3>3, NodeFacts
      <4>2. CASE t.left[y] # Null
        <5>1. /\ t.left[y] \in N /\ t.parent[t.left[y]] = y /\ t.left[y] < y
              /\ below[t.left[y]] = Smaller(below[y], y)
          BY <4>2, <1>1, NodeFacts
        <5>2. m # Null => y < m
          BY <1>1, NodeFacts DEF m
        <5>3. t.left[y] # x /\ t.left[y] # y /\ t.left[y] # m
          BY <1>2, <4>2, <5>1, <5>2, <3>2, <1>6
        <5> QED BY <4>2, <5>1, <5>3, <3>3, <1>5, <1>6, <1>8
      <4> QED BY <4>1, <4>2
    <3>6. IF q = Null THEN y = u.root
          ELSE q \in N /\ y \in {u.right[q], u.left[q]}
      BY <1>3, <1>5, <1>6, <1>2
    <3> QED BY <1>1, <2>2, <3>1, <3>3, <3>4, <3>5, <3>6 DEF Above
  <2>3. CASE n # x /\ n # y
    <3>1. /\ n \in Key /\ n # Null /\ new[n] = below[n]
          /\ n \in new[n] /\ new[n] \subseteq N
      BY <2>3, <1>6, <1>8, NodeFacts
    <3>2. n # t.right[x] => t.parent[n] # x
      BY <2>3, NodeFacts DEF y
    <3>3. IF u.right[n] = Null THEN Greater(new[n], n) = {}
          ELSE /\ u.right[n] \in N /\ u.parent[u.right[n]] = n
               /\ new[u.right[n]] = Greater(new[n], n)
      <4>1. CASE n = q /\ t.left[q] # x
        <5>1. u.right[n] = y /\ u.parent[y] = n /\ new[y] = below[x]
          BY <4>1, <2>3, <1>2, <1>5, <1>6, <1>8
        <5>2. below[x] = Greater(below[n], n)
          BY <4>1, <1>1, <1>3, <3>1, NodeFacts
        <5>3. new[u.right[n]] = Greater(new[n], n)
          BY <5>1, <5>2, <3>1
        <5> QED BY <5>1, <5>3, <1>1
      <4>2. CASE ~(n = q /\ t.left[q] # x)
        <5>1. u.right[n] = t.right[n]
          BY <4>2, <2>3, <1>5, <1>6
        <5>2. CASE t.right[n] = Null
          <6>1. Greater(below[n], n) = {}
            BY <5>2, NodeFacts
          <6> QED BY <5>1, <5>2, <6>1, <3>1
        <5>3. CASE t.right[n] # Null
          <6>1. t.right[n] \in N /\ t.parent[t.right[n]] = n /\ below[t.right[n]] = Greater(below[n], n)
            BY <5>3, NodeFacts
          <6>2. t.right[n] # x
            <7>1. t.left[n] = x => x < n
              BY <1>1, NodeFacts
            <7>2. n < t.right[n] /\ x \in Int /\ n \in Int
              BY <5>3, <1>6, NodeFacts
            <7> QED BY <6>1, <7>1, <7>2, <4>2 DEF q
          <6>4. t.right[n] # y /\ t.right[n] # m
            BY <6>1, <2>3, <1>1, <1>4, <5>3
          <6>3. u.parent[t.right[n]] = n /\ new[t.right[n]] = below[t.right[n]]
            BY <6>1, <6>2, <6>4, <1>5, <1>6, <1>8
          <6> QED BY <6>1, <6>3, <5>1, <5>3, <3>1
        <5> QED BY <5>2, <5>3
      <4> QED BY <4>1, <4>2
    <3>4. IF u.left[n] = Null THEN Smaller(new[n], n) = {}
          ELSE /\ u.left[n] \in N /\ u.parent[u.left[n]] = n
               /\ new[u.left[n]] = Smaller(new[n], n)
      <4>1. CASE n = q /\ t.left[q] = x
        <5>1. u.left[n] = y /\ u.parent[y] = n /\ new[y] = below[x]
          BY <4>1, <2>3, <1>2, <1>5, <1>6, <1>8
        <5>2. below[x] = Smaller(below[n], n)
          BY <4>1, <1>1, <1>3, <3>1, NodeFacts
        <5>3. new[u.left[n]] = Smaller(new[n], n)
          BY <5>1, <5>2, <3>1
        <5> QED BY <5>1, <5>3, <1>1
      <4>2. CASE ~(n = q /\ t.left[q] = x)
        <5>1. u.left[n] = t.left[n]
          BY <4>2, <2>3, <1>5, <1>6
        <5>2. CASE t.left[n] = Null
          <6>1. Smaller(below[n], n) = {}
            BY <5>2, NodeFacts
          <6> QED BY <5>1, <5>2, <6>1, <3>1
        <5>3. CASE t.left[n] # Null
          <6>1. /\ t.left[n] \in N /\ t.parent[t.left[n]] = n
                /\ below[t.left[n]] = Smaller(below[n], n) /\ t.left[n] < n
            BY <5>3, NodeFacts
          <6>2. t.right[n] = x => n < x
            BY <1>1, NodeFacts
          <6>3. x \in Int /\ n \in Int
            BY <1>6
          <6>4. t.left[n] # x
            BY <6>1, <6>2, <6>3, <4>2 DEF q
          <6>5. t.left[n] # y /\ t.left[n] # m
            BY <6>1, <2>3, <1>1, <1>4, <5>3
          <6>6. u.parent[t.left[n]] = n /\ new[t.left[n]] = below[t.left[n]]
            BY <6>1, <6>4, <6>5, <1>5, <1>6, <1>8
          <6> QED BY <6>1, <6>6, <5>1, <5>3, <3>1
        <5> QED BY <5>2, <5>3
      <4> QED BY <4>1, <4>2
    <3>5. IF u.parent[n] = Null THEN n = u.root
          ELSE u.parent[n] \in N /\ n \in {u.right[u.parent[n]], u.left[u.parent[n]]}
      <4>1. CASE n = m
        BY <4>1, <2>3, <1>2, <1>3, <1>5, <1>6, <3>1
      <4>2. CASE n # m /\ t.parent[n] = Null
        <5>1. n = t.root
          BY <4>2, NodeFacts
        <5>2. q = Null => x = t.root
          BY NodeFacts DEF q
        <5> QED BY <5>1, <5>2, <4>2, <2>3, <1>5, <1>6
      <4>3. CASE n # m /\ t.parent[n] # Null
        <5> DEFINE r == t.parent[n]
        <5>1. r \in N /\ n \in {t.right[r], t.left[r]} /\ u.parent[n] = r
          BY <4>3, <2>3, <1>5, <1>6, NodeFacts
        <5> HIDE DEF r
        <5>2. CASE r = x
          BY <5>1, <5>2, <2>3, <1>2, <1>3, <1>5, <1>6 DEF y
        <5>3. CASE r = y
          BY <5>1, <5>3, <4>3, <2>3, <1>2, <1>3, <1>5, <1>6 DEF m
        <5>4. CASE r # x /\ r # y
          BY <5>1, <5>4, <2>3, <1>3, <1>5, <1>6
        <5> QED BY <5>1, <5>2, <5>3, <5>4, <1>6
      <4> QED BY <4>1, <4>2, <4>3
    <3> QED BY <3>1, <3>3, <3>4, <3>5 DEF Above
  <2> QED BY <2>1, <2>2, <2>3
<1>11. u.root # Null /\ u.root \in N /\ u.parent[u.root] = Null /\ new[u.root] = N
  <2>1. CASE q = Null
    BY <2>1, <1>2, <1>5, <1>6, <1>8, <1>1 DEF Shape, Above, q
  <2>2. CASE q # Null
    <3>1. t.root # x /\ t.root # y /\ t.root \in N /\ t.parent[t.root] = Null /\ below[t.root] = N
      BY <2>2, <1>1, <1>2, <1>6 DEF Shape, q
    <3>2. t.root # m
      BY <3>1, <1>2, <1>4, <1>6
    <3> QED BY <2>2, <3>1, <3>2, <1>5, <1>6, <1>8
  <2> QED BY <2>1, <2>2
<1> QED
  BY <1>6, <1>7, <1>8, <1>9, <1>10, <1>11 DEF Shape, u

(* A round of splay() keeps a tree a tree: one rotation when the parent is *)
(* the root, two otherwise.                                                *)
LEMMA SplayedShape ==
  ASSUME NEW t, NEW N, NEW below, Shape(t, N, below),
         NEW x \in N, t.parent[x] # Null
  PROVE  \E new : Shape(splayed(t, x), N, new)
<1> DEFINE f == t.parent[x]
           g == t.parent[f]
<1>1. /\ f \in N /\ f # x /\ f # Null /\ x # Null /\ x \in {t.left[f], t.right[f]}
      /\ x \in below[f] /\ f \in Key /\ x \in Key /\ f \in Int /\ x \in Int
      /\ t.left[f] = x => x < f
      /\ t.right[f] = x => f < x
  <2>1. f \in N /\ f # x /\ x # Null /\ x \in {t.left[f], t.right[f]}
    BY Apart, NodeFacts
  <2> HIDE DEF f
  <2> QED BY <2>1, NodeFacts
<1>2. CASE g = Null
  <2>1. splayed(t, x) = IF t.left[f] = x THEN right_rotate(t, f) ELSE left_rotate(t, f)
    BY <1>2 DEF splayed
  <2> HIDE DEF f
  <2> QED BY <2>1, <1>1, LeftRotateShape, RightRotateShape
<1>3. CASE g # Null
  <2> HIDE DEF f
  <2>1. /\ g \in N /\ g # f /\ g # x /\ g # Null /\ f \in {t.left[g], t.right[g]} /\ g \in Key
        /\ t.left[g] = f => f < g
        /\ t.right[g] = f => g < f
    <3>1. g \in N /\ g # f /\ g \notin below[f]
      BY <1>1, <1>3, Apart
    <3>2. g \in Key /\ g # Null /\ f \in {t.left[g], t.right[g]}
      BY <3>1, <1>1, <1>3, NodeFacts
    <3>3. (t.left[g] = f => f < g) /\ (t.right[g] = f => g < f)
      BY <3>1, <1>1, NodeFacts
    <3> QED BY <3>1, <3>2, <3>3, <1>1
  <2>2. t.parent[g] # f
    <3>1. CASE t.parent[g] = f
      <4>1. g \in {t.left[f], t.right[f]}
        BY <2>1, <3>1, <1>1, NodeFacts
      <4>2. g \in below[f]
        BY <4>1, <2>1, <1>1, NodeFacts
      <4>3. g \notin below[f]
        BY <1>1, <1>3, Apart
      <4> QED BY <4>2, <4>3
    <3> QED BY <3>1
  <2>3. (t.right[f] # Null => f < t.right[f]) /\ (t.left[f] # Null => t.left[f] < f)
    BY <1>1, NodeFacts
  <2>4. t.parent[x] = f /\ t.parent[f] = g
    BY DEF f
  <2> HIDE DEF g
  <2>5. CASE t.left[f] = x /\ t.left[g] = f
    <3> DEFINE u == right_rotate(t, g)
    <3>1. u.parent[x] = f /\ u.left[f] = x
      BY <1>1, <2>1, <2>2, <2>3, <2>4, <2>5 DEF right_rotate
    <3>2. \E new : Shape(u, N, new)
      BY <1>1, <2>1, <2>5, RightRotateShape
    <3>3. splayed(t, x) = right_rotate(u, u.parent[x])
      BY <1>3, <2>4, <2>5, <2>1 DEF splayed
    <3> HIDE DEF u
    <3> QED BY <3>1, <3>2, <3>3, <1>1, RightRotateShape
  <2>6. CASE t.left[f] # x /\ t.left[g] # f
    <3> DEFINE u == left_rotate(t, g)
    <3>1. u.parent[x] = f /\ u.right[f] = x
      BY <1>1, <2>1, <2>2, <2>3, <2>4, <2>6 DEF left_rotate
    <3>2. \E new : Shape(u, N, new)
      BY <1>1, <2>1, <2>6, LeftRotateShape
    <3>3. splayed(t, x) = left_rotate(u, u.parent[x])
      BY <1>3, <2>4, <2>6, <2>1 DEF splayed
    <3> HIDE DEF u
    <3> QED BY <3>1, <3>2, <3>3, <1>1, LeftRotateShape
  <2>7. CASE t.left[f] = x /\ t.left[g] # f
    <3> DEFINE u == right_rotate(t, f)
    <3>1. u.parent[x] = g /\ u.right[g] = x
      BY <1>1, <2>1, <2>2, <2>3, <2>4, <2>7 DEF right_rotate
    <3>2. \E new : Shape(u, N, new)
      BY <1>1, <2>1, <2>7, RightRotateShape
    <3>3. splayed(t, x) = left_rotate(u, u.parent[x])
      BY <1>3, <2>4, <2>7, <2>1 DEF splayed
    <3> HIDE DEF u
    <3> QED BY <3>1, <3>2, <3>3, <1>1, <2>1, LeftRotateShape
  <2>8. CASE t.left[f] # x /\ t.left[g] = f
    <3> DEFINE u == left_rotate(t, f)
    <3>1. u.parent[x] = g /\ u.left[g] = x
      BY <1>1, <2>1, <2>2, <2>3, <2>4, <2>8 DEF left_rotate
    <3>2. \E new : Shape(u, N, new)
      BY <1>1, <2>1, <2>8, LeftRotateShape
    <3>3. splayed(t, x) = right_rotate(u, u.parent[x])
      BY <1>3, <2>4, <2>8, <2>1 DEF splayed
    <3> HIDE DEF u
    <3> QED BY <3>1, <3>2, <3>3, <1>1, <2>1, RightRotateShape
  <2> QED BY <2>5, <2>6, <2>7, <2>8
<1> QED
  BY <1>2, <1>3

-----------------------------------------------------------------------------
(* Insertion: key k is hung below p, on its side of p.                     *)
Fits(t, N, below, k, n) ==
  \A a \in N : n \in below[a] /\ a # n => (k < a <=> n < a)

(* The links of InsertMissed.                                              *)
Inserted(t, k, n) ==
  [root   |-> IF n = Null THEN k ELSE t.root,
   left   |-> [a \in Key |-> IF a = n /\ k < n THEN k
                             ELSE IF a = k THEN Null ELSE t.left[a]],
   right  |-> [a \in Key |-> IF a = n /\ n < k THEN k
                             ELSE IF a = k THEN Null ELSE t.right[a]],
   parent |-> [t.parent EXCEPT ![k] = n]]

LEMMA InsertedShape ==
  ASSUME NEW t, NEW N, NEW below, Shape(t, N, below),
         NEW k \in Key \ N, NEW n,
         IF n = Null THEN t.root = Null
         ELSE /\ n \in N /\ Fits(t, N, below, k, n)
              /\ IF k < n THEN t.left[n] = Null ELSE t.right[n] = Null
  PROVE  \E new : Shape(Inserted(t, k, n), N \cup {k}, new)
<1> DEFINE u == Inserted(t, k, n)
           new == [a \in Key |-> IF a = k THEN {k}
                                 ELSE IF a \in N /\ n \in below[a] THEN below[a] \cup {k}
                                 ELSE below[a]]
<1>1. /\ k \in Int /\ k # Null /\ k \notin N /\ N \subseteq Key /\ N \subseteq Int /\ Null \notin N
      /\ k \in Key /\ Null \notin Key
  BY KeyAssumption DEF Shape
<1>2. n = Null => N = {}
  BY DEF Shape
<1>3. n # Null => n \in N /\ n \in Int /\ n # k /\ (k < n \/ n < k) /\ n \in below[n]
  BY <1>1, NodeFacts
<1>4. /\ u.root = IF n = Null THEN k ELSE t.root
      /\ \A a \in Key : u.left[a] = IF a = n /\ k < n THEN k ELSE IF a = k THEN Null ELSE t.left[a]
      /\ \A a \in Key : u.right[a] = IF a = n /\ n < k THEN k ELSE IF a = k THEN Null ELSE t.right[a]
      /\ \A a \in Key : u.parent[a] = IF a = k THEN n ELSE t.parent[a]
  BY <1>1 DEF Inserted, Shape, Typed
<1>5. Typed(u)
  <2>1. u.parent \in [Key -> Key \cup {Null}] /\ u.root \in Key \cup {Null}
    BY <1>1, <1>3 DEF Inserted, Shape, Typed
  <2>2. u.left \in [Key -> Key \cup {Null}]
    BY <1>1 DEF Inserted, Shape, Typed
  <2>3. u.right \in [Key -> Key \cup {Null}]
    BY <1>1 DEF Inserted, Shape, Typed
  <2> QED BY <2>1, <2>2, <2>3 DEF Typed
<1>6. /\ new \in [Key -> SUBSET Key]
      /\ new[k] = {k}
      /\ \A a \in N : new[a] = IF n \in below[a] THEN below[a] \cup {k} ELSE below[a]
  BY <1>1 DEF Shape
<1> HIDE DEF u, new
<1>7. ASSUME NEW a \in Key \ (N \cup {k}) PROVE Loose(u, a)
  <2>1. Loose(t, a) /\ a # n /\ a # k
    BY <1>1, <1>3 DEF Shape
  <2> QED BY <1>4, <2>1 DEF Loose
<1>8. Above(u, N \cup {k}, new, k)
  <2>1. u.left[k] = Null /\ u.right[k] = Null /\ u.parent[k] = n
    BY <1>1, <1>3, <1>4
  <2>2. Smaller(new[k], k) = {} /\ Greater(new[k], k) = {}
    BY <1>1, <1>6 DEF Smaller, Greater
  <2>3. IF n = Null THEN k = u.root ELSE n \in N \cup {k} /\ k \in {u.left[n], u.right[n]}
    BY <1>1, <1>3, <1>4
  <2> QED BY <2>1, <2>2, <2>3, <1>6 DEF Above
<1>9. ASSUME NEW a \in N PROVE Above(u, N \cup {k}, new, a)
  <2>1. n # Null /\ n \in N /\ n \in Int /\ n # k /\ (k < n \/ n < k) /\ n \in below[n]
    BY <1>2, <1>3
  <2>2. a \in Key /\ a # k /\ a \in Int /\ a \in below[a] /\ below[a] \subseteq N /\ below[a] \subseteq Int
    BY <1>1, NodeFacts
  <2>3. n \in below[a] /\ a # n => (k < a <=> n < a)
    BY <2>1 DEF Fits
  <2>4. a \in new[a] /\ new[a] \subseteq N \cup {k}
    BY <2>2, <1>6
  <2>5. IF u.left[a] = Null THEN Smaller(new[a], a) = {}
        ELSE /\ u.left[a] \in N \cup {k} /\ u.parent[u.left[a]] = a
             /\ new[u.left[a]] = Smaller(new[a], a)
    <3>1. CASE a = n /\ k < n
      <4>1. Smaller(below[a], a) = {}
        BY <2>1, <3>1, NodeFacts
      <4>2. u.left[a] = k /\ u.parent[k] = a /\ new[k] = {k} /\ new[a] = below[a] \cup {k}
        BY <3>1, <2>1, <2>2, <1>1, <1>4, <1>6
      <4>3. Smaller(new[a], a) = {k}
        BY <4>1, <4>2, <3>1 DEF Smaller
      <4> QED BY <4>2, <4>3, <1>1
    <3>2. CASE ~(a = n /\ k < n) /\ t.left[a] = Null
      <4>1. u.left[a] = Null
        BY <3>2, <2>2, <1>4
      <4>2. Smaller(below[a], a) = {}
        BY <3>2, NodeFacts
      <4>3. n \in below[a] => ~(k < a)
        BY <2>1, <2>2, <2>3, <3>2, <4>2 DEF Smaller
      <4>4. Smaller(new[a], a) = {}
        BY <4>2, <4>3, <1>6, <2>2 DEF Smaller
      <4> QED BY <4>1, <4>4
    <3>3. CASE ~(a = n /\ k < n) /\ t.left[a] # Null
      <4>1. /\ t.left[a] \in N /\ t.parent[t.left[a]] = a /\ below[t.left[a]] = Smaller(below[a], a)
        BY <3>3, NodeFacts
      <4>2. u.left[a] = t.left[a] /\ u.parent[t.left[a]] = a
        BY <3>3, <4>1, <2>2, <1>1, <1>4
      <4>3. n \in below[t.left[a]] <=> n \in below[a] /\ k < a
        BY <4>1, <2>1, <2>2, <2>3, <3>3, <1>1 DEF Smaller
      <4>4. Smaller(new[a], a) = IF n \in below[a] /\ k < a THEN Smaller(below[a], a) \cup {k}
                                 ELSE Smaller(below[a], a)
        BY <1>6, <2>2 DEF Smaller
      <4>5. new[t.left[a]] = Smaller(new[a], a)
        BY <4>1, <4>3, <4>4, <1>6
      <4> QED BY <3>3, <4>1, <4>2, <4>5
    <3> QED BY <3>1, <3>2, <3>3
  <2>6. IF u.right[a] = Null THEN Greater(new[a], a) = {}
        ELSE /\ u.right[a] \in N \cup {k} /\ u.parent[u.right[a]] = a
             /\ new[u.right[a]] = Greater(new[a], a)
    <3>1. CASE a = n /\ n < k
      <4>1. Greater(below[a], a) = {}
        <5>1. t.right[a] = Null
          BY <2>1, <3>1, <1>1
        <5> QED BY <5>1, NodeFacts
      <4>2. u.right[a] = k /\ u.parent[k] = a /\ new[k] = {k} /\ new[a] = below[a] \cup {k}
        BY <3>1, <2>1, <2>2, <1>1, <1>4, <1>6
      <4>3. Greater(new[a], a) = {k}
        BY <4>1, <4>2, <3>1 DEF Greater
      <4> QED BY <4>2, <4>3, <1>1
    <3>2. CASE ~(a = n /\ n < k) /\ t.right[a] = Null
      <4>1. u.right[a] = Null
        BY <3>2, <2>2, <1>4
      <4>2. Greater(below[a], a) = {}
        BY <3>2, NodeFacts
      <4>3. n \in below[a] => ~(a < k)
        BY <2>1, <2>2, <2>3, <3>2, <4>2, <1>1 DEF Greater
      <4>4. Greater(new[a], a) = {}
        BY <4>2, <4>3, <1>6, <2>2 DEF Greater
      <4> QED BY <4>1, <4>4
    <3>3. CASE ~(a = n /\ n < k) /\ t.right[a] # Null
      <4>1. /\ t.right[a] \in N /\ t.parent[t.right[a]] = a /\ below[t.right[a]] = Greater(below[a], a)
        BY <3>3, NodeFacts
      <4>2. u.right[a] = t.right[a] /\ u.parent[t.right[a]] = a
        BY <3>3, <4>1, <2>2, <1>1, <1>4
      <4>3. n \in below[t.right[a]] <=> n \in below[a] /\ a < k
        BY <4>1, <2>1, <2>2, <2>3, <3>3, <1>1 DEF Greater
      <4>4. Greater(new[a], a) = IF n \in below[a] /\ a < k THEN Greater(below[a], a) \cup {k}
                                 ELSE Greater(below[a], a)
        BY <1>6, <2>2 DEF Greater
      <4>5. new[t.right[a]] = Greater(new[a], a)
        BY <4>1, <4>3, <4>4, <1>6
      <4> QED BY <3>3, <4>1, <4>2, <4>5
    <3> QED BY <3>1, <3>2, <3>3
  <2>7. IF u.parent[a] = Null THEN a = u.root
        ELSE u.parent[a] \in N \cup {k} /\ a \in {u.left[u.parent[a]], u.right[u.parent[a]]}
    <3>1. u.parent[a] = t.parent[a] /\ u.root = t.root
      BY <2>1, <2>2, <1>4
    <3>2. CASE t.parent[a] = Null
      BY <3>1, <3>2, NodeFacts
    <3>3. CASE t.parent[a] # Null
      <4> DEFINE r == t.parent[a]
      <4>1. r \in N /\ a \in {t.left[r], t.right[r]}
        BY <3>3, NodeFacts
      <4>2. t.left[n] = Null \/ ~(k < n)
        BY <2>1
      <4>3. t.right[n] = Null \/ ~(n < k)
        BY <2>1, <1>1
      <4>4. a # Null
        BY <2>2, <1>1
      <4> HIDE DEF r
      <4>5. a \in {u.left[r], u.right[r]}
        BY <4>1, <4>2, <4>3, <4>4, <1>1, <1>4
      <4> QED BY <3>1, <3>3, <4>1, <4>5 DEF r
    <3> QED BY <3>2, <3>3
  <2> QED BY <2>4, <2>5, <2>6, <2>7 DEF Above
<1>10. u.root # Null /\ u.root \in N \cup {k} /\ u.parent[u.root] = Null /\ new[u.root] = N \cup {k}
  <2>1. CASE n = Null
    BY <2>1, <1>1, <1>2, <1>4, <1>6
  <2>2. CASE n # Null
    <3>1. t.root \in N /\ t.parent[t.root] = Null /\ below[t.root] = N /\ t.root # Null
      BY <2>2, <1>1, <1>3 DEF Shape
    <3> QED BY <2>2, <3>1, <1>1, <1>3, <1>4, <1>6
  <2> QED BY <2>1, <2>2
<1>11. Shape(u, N \cup {k}, new)
  BY <1>1, <1>5, <1>6, <1>7, <1>8, <1>9, <1>10 DEF Shape
<1> QED
  BY <1>11 DEF u

-----------------------------------------------------------------------------
(* Removal of the node at the root.                                        *)
IsRecord(t) ==
  t = [root |-> t.root, left |-> t.left, right |-> t.right, parent |-> t.parent]

LEMMA ReplaceIs ==
  ASSUME NEW t, IsRecord(t), NEW u, NEW v
  PROVE  replace(t, u, v) =
           [root   |-> IF t.parent[u] = Null THEN v ELSE t.root,
            left   |-> [n \in Key |-> IF n = t.parent[u] /\ t.left[t.parent[u]] = u
                                        THEN v ELSE t.left[n]],
            right  |-> [n \in Key |-> IF n = t.parent[u] /\ t.left[t.parent[u]] # u
                                        THEN v ELSE t.right[n]],
            parent |-> [n \in Key |-> IF n = v THEN t.parent[u] ELSE t.parent[n]]]
<1> DEFINE q  == t.parent[u]
           rt == IF q = Null THEN v ELSE t.root
           lf == [n \in Key |-> IF n = q /\ t.left[q] = u THEN v ELSE t.left[n]]
           rg == [n \in Key |-> IF n = q /\ t.left[q] # u THEN v ELSE t.right[n]]
           pr == [n \in Key |-> IF n = v THEN q ELSE t.parent[n]]
<1>1. replace(t, u, v) = [t EXCEPT !.root = rt, !.left = lf, !.right = rg, !.parent = pr]
  BY DEF replace
<1> HIDE DEF q, rt, lf, rg, pr
<1>2. [t EXCEPT !.root = rt, !.left = lf, !.right = rg, !.parent = pr] =
        [root |-> rt, left |-> lf, right |-> rg, parent |-> pr]
  <2> DEFINE a == t.root
             b == t.left
             c == t.right
             d == t.parent
  <2>1. t = [root |-> a, left |-> b, right |-> c, parent |-> d]
    BY DEF IsRecord
  <2> HIDE DEF a, b, c, d
  <2> DEFINE s == [t EXCEPT !.root = rt, !.left = lf, !.right = rg, !.parent = pr]
  <2>2. s = [f \in {"root", "left", "right", "parent"} |-> s[f]]
    BY <2>1
  <2>3. s.root = rt /\ s.left = lf /\ s.right = rg /\ s.parent = pr
    BY <2>1
  <2> HIDE DEF s
  <2>4. s = [root |-> rt, left |-> lf, right |-> rg, parent |-> pr]
    BY <2>2, <2>3
  <2> QED BY <2>4 DEF s
<1> QED
  BY <1>1, <1>2 DEF q, rt, lf, rg, pr

LEMMA FreedIs ==
  ASSUME NEW a, NEW b, NEW c, NEW d, NEW x
  PROVE  Freed([root |-> a, left |-> b, right |-> c, parent |-> d], x) =
           [root   |-> a,
            left   |-> [b EXCEPT ![x] = Null],
            right  |-> [c EXCEPT ![x] = Null],
            parent |-> [d EXCEPT ![x] = Null]]
<1> DEFINE s == Freed([root |-> a, left |-> b, right |-> c, parent |-> d], x)
<1>1. s = [f \in {"root", "left", "right", "parent"} |-> s[f]]
  BY DEF Freed
<1>2. s.root = a
  BY DEF Freed
<1>3. s.left = [b EXCEPT ![x] = Null]
  BY DEF Freed
<1>4. s.right = [c EXCEPT ![x] = Null]
  BY DEF Freed
<1>5. s.parent = [d EXCEPT ![x] = Null]
  BY DEF Freed
<1> HIDE DEF s
<1>6. s = [root |-> a, left |-> [b EXCEPT ![x] = Null],
           right |-> [c EXCEPT ![x] = Null], parent |-> [d EXCEPT ![x] = Null]]
  BY <1>1, <1>2, <1>3, <1>4, <1>5
<1> QED
  BY <1>6 DEF s

(* Nothing but the root's own set holds the root.                          *)
LEMMA RootOutside ==
  ASSUME NEW t, NEW N, NEW below, Shape(t, N, below),
         NEW x \in N, t.parent[x] = Null
  PROVE  /\ x = t.root /\ below[x] = N
         /\ \A n \in N \ {x} : x \notin below[n] /\ t.left[n] # x /\ t.right[n] # x
                               /\ t.parent[n] # Null
<1>1. x = t.root /\ x # Null /\ below[x] = N
  BY NodeFacts DEF Shape
<1>2. ASSUME NEW n \in N \ {x}
      PROVE  /\ x \notin below[n] /\ t.left[n] # x /\ t.right[n] # x
             /\ t.parent[n] # Null
  <2>1. x \notin below[n]
    BY Laminar
  <2>2. t.left[n] # x /\ t.right[n] # x
    BY <1>1, NodeFacts
  <2>3. t.parent[n] # Null
    BY <1>1, NodeFacts
  <2> QED BY <2>1, <2>2, <2>3
<1> QED
  BY <1>1, <1>2

(* Half: one child takes the root's place.                                 *)
LEMMA CutHalfShape ==
  ASSUME NEW t, NEW N, NEW below, Shape(t, N, below), IsRecord(t),
         NEW x \in N, t.parent[x] = Null,
         t.left[x] = Null \/ t.right[x] = Null
  PROVE  Shape(Freed(Cut(t, x), x), N \ {x}, below)
<1> DEFINE u == Freed(Cut(t, x), x)
           v == IF t.left[x] = Null THEN t.right[x] ELSE t.left[x]
           M == N \ {x}
<1>1. /\ N \subseteq Key /\ Null \notin Key /\ x \in Key /\ x \in Int /\ x # Null
      /\ N \subseteq Int
  BY NodeFacts, KeyAssumption DEF Shape
<1>2. Cut(t, x) = replace(t, x, v)
  BY DEF Cut
<1>3. Cut(t, x) =
           [root   |-> v,
            left   |-> [n \in Key |-> t.left[n]],
            right  |-> [n \in Key |-> t.right[n]],
            parent |-> [n \in Key |-> IF n = v THEN Null ELSE t.parent[n]]]
  <2> HIDE DEF v
  <2> QED BY <1>1, <1>2, ReplaceIs
<1>4. u = [root   |-> v,
           left   |-> [n \in Key |-> IF n = x THEN Null ELSE t.left[n]],
           right  |-> [n \in Key |-> IF n = x THEN Null ELSE t.right[n]],
           parent |-> [n \in Key |-> IF n = x \/ n = v THEN Null ELSE t.parent[n]]]
  <2> DEFINE lf == [n \in Key |-> t.left[n]]
             rg == [n \in Key |-> t.right[n]]
             pr == [n \in Key |-> IF n = v THEN Null ELSE t.parent[n]]
  <2>1. /\ [lf EXCEPT ![x] = Null] = [n \in Key |-> IF n = x THEN Null ELSE t.left[n]]
        /\ [rg EXCEPT ![x] = Null] = [n \in Key |-> IF n = x THEN Null ELSE t.right[n]]
        /\ [pr EXCEPT ![x] = Null] = [n \in Key |-> IF n = x \/ n = v THEN Null ELSE t.parent[n]]
    <3> HIDE DEF v
    <3> QED BY <1>1
  <2>2. Cut(t, x) = [root |-> v, left |-> lf, right |-> rg, parent |-> pr]
    BY <1>3
  <2> HIDE DEF v, lf, rg, pr
  <2>3. u = [root |-> v, left |-> [lf EXCEPT ![x] = Null],
             right |-> [rg EXCEPT ![x] = Null], parent |-> [pr EXCEPT ![x] = Null]]
    BY <2>2, FreedIs
  <2> HIDE DEF u
  <2> QED BY <2>1, <2>3
<1>5. v # Null => v \in M /\ t.parent[v] = x /\ v \in Key
  BY <1>1, NodeFacts
<1>6. /\ u.root = v
      /\ \A n \in Key : u.left[n] = IF n = x THEN Null ELSE t.left[n]
      /\ \A n \in Key : u.right[n] = IF n = x THEN Null ELSE t.right[n]
      /\ \A n \in Key : u.parent[n] = IF n = x \/ n = v THEN Null ELSE t.parent[n]
  <2> HIDE DEF u, v
  <2> QED BY <1>4
<1>7. Typed(u)
  <2> HIDE DEF u, v
  <2> QED BY <1>1, <1>4, <1>5 DEF Typed, Shape
<1>8. /\ below[x] = N
      /\ \A n \in M : x \notin below[n] /\ t.left[n] # x /\ t.right[n] # x /\ t.parent[n] # Null
  BY RootOutside
<1>9. IF v = Null THEN M = {} ELSE below[v] = M
  <2>1. CASE t.left[x] = Null /\ t.right[x] = Null
    <3>1. \A k \in N : x <= k /\ k <= x
      BY <2>1, <1>8, NodeFacts
    <3> QED BY <3>1, <2>1, <1>1
  <2>2. CASE t.left[x] = Null /\ t.right[x] # Null
    <3>1. (\A k \in N : x <= k) /\ below[v] = Greater(N, x) /\ v # Null
      BY <2>2, <1>8, NodeFacts
    <3>2. \A k \in N : x < k <=> k # x
      BY <3>1, <1>1
    <3> QED BY <3>1, <3>2 DEF Greater
  <2>3. CASE t.left[x] # Null
    <3>1. (\A k \in N : k <= x) /\ below[v] = Smaller(N, x) /\ v # Null
      BY <2>3, <1>8, NodeFacts
    <3>2. \A k \in N : k < x <=> k # x
      BY <3>1, <1>1
    <3> QED BY <3>1, <3>2 DEF Smaller
  <2> QED BY <2>1, <2>2, <2>3
<1>10. t.left[x] # Null => t.left[x] = v
  OBVIOUS
<1>11. t.right[x] # Null => t.right[x] = v
  OBVIOUS
<1> HIDE DEF u, v
<1>12. ASSUME NEW n \in M PROVE Above(u, M, below, n)
  <2>1. /\ n \in Key /\ n # x /\ n \in below[n] /\ below[n] \subseteq M
        /\ u.left[n] = t.left[n] /\ u.right[n] = t.right[n]
    BY <1>1, <1>6, <1>8, NodeFacts
  <2>2. IF t.left[n] = Null THEN Smaller(below[n], n) = {}
        ELSE /\ t.left[n] \in N /\ t.parent[t.left[n]] = n
             /\ below[t.left[n]] = Smaller(below[n], n)
    BY DEF Shape, Above
  <2>3. IF t.right[n] = Null THEN Greater(below[n], n) = {}
        ELSE /\ t.right[n] \in N /\ t.parent[t.right[n]] = n
             /\ below[t.right[n]] = Greater(below[n], n)
    BY NodeFacts
  <2>4. /\ t.left[n] # Null => t.left[n] \in M /\ u.parent[t.left[n]] = n
        /\ t.right[n] # Null => t.right[n] \in M /\ u.parent[t.right[n]] = n
    BY <2>1, <2>2, <2>3, <1>1, <1>5, <1>6, <1>8
  <2>5. IF u.parent[n] = Null THEN n = u.root
        ELSE u.parent[n] \in M /\ n \in {u.left[u.parent[n]], u.right[u.parent[n]]}
    <3>1. CASE n = v
      BY <3>1, <2>1, <1>6
    <3>2. CASE n # v
      <4> DEFINE r == t.parent[n]
      <4>1. r \in N /\ r # Null /\ n \in {t.left[r], t.right[r]} /\ n # Null
        BY <1>8, NodeFacts
      <4>2. u.parent[n] = r
        BY <3>2, <2>1, <1>6
      <4> HIDE DEF r
      <4>3. r # x
        BY <4>1, <3>2, <1>10, <1>11
      <4> QED BY <4>1, <4>2, <4>3, <1>1, <1>6
    <3> QED BY <3>1, <3>2
  <2> QED BY <2>1, <2>2, <2>3, <2>4, <2>5 DEF Above
<1>13. ASSUME NEW n \in Key \ M PROVE Loose(u, n)
  <2>1. CASE n = x
    BY <2>1, <1>6 DEF Loose
  <2>2. CASE n # x
    BY <2>2, <1>6 DEF Loose, Shape
  <2> QED BY <2>1, <2>2
<1>14. IF u.root = Null THEN M = {}
       ELSE u.root \in M /\ u.parent[u.root] = Null /\ below[u.root] = M
  BY <1>5, <1>6, <1>9
<1>15. Shape(u, M, below)
  BY <1>1, <1>7, <1>12, <1>13, <1>14 DEF Shape
<1> QED
  BY <1>15 DEF u

(* Both: the least node y of the right half takes the root's place.        *)
LEMMA LeftGiven ==
  ASSUME NEW a, NEW b, NEW c, NEW d, NEW y, NEW n
  PROVE  LET t == [root |-> a, left |-> b, right |-> c, parent |-> d] IN
         [t EXCEPT !.left[y] = n, !.parent[n] = y] =
           [root |-> a, left |-> [b EXCEPT ![y] = n], right |-> c, parent |-> [d EXCEPT ![n] = y]]
<1> DEFINE t == [root |-> a, left |-> b, right |-> c, parent |-> d]
           s == [t EXCEPT !.left[y] = n, !.parent[n] = y]
<1>1. s = [f \in {"root", "left", "right", "parent"} |-> s[f]]
  OBVIOUS
<1>2. s.root = a /\ s.right = c
  OBVIOUS
<1>3. s.left = [b EXCEPT ![y] = n]
  OBVIOUS
<1>4. s.parent = [d EXCEPT ![n] = y]
  OBVIOUS
<1> HIDE DEF s
<1>5. s = [root |-> a, left |-> [b EXCEPT ![y] = n], right |-> c, parent |-> [d EXCEPT ![n] = y]]
  BY <1>1, <1>2, <1>3, <1>4
<1> QED
  BY <1>5 DEF s

LEMMA RightGiven ==
  ASSUME NEW a, NEW b, NEW c, NEW d, NEW y, NEW n
  PROVE  LET t == [root |-> a, left |-> b, right |-> c, parent |-> d] IN
         [t EXCEPT !.right[y] = n, !.parent[n] = y] =
           [root |-> a, left |-> b, right |-> [c EXCEPT ![y] = n], parent |-> [d EXCEPT ![n] = y]]
<1> DEFINE t == [root |-> a, left |-> b, right |-> c, parent |-> d]
           s == [t EXCEPT !.right[y] = n, !.parent[n] = y]
<1>1. s = [f \in {"root", "left", "right", "parent"} |-> s[f]]
  OBVIOUS
<1>2. s.root = a /\ s.left = b
  OBVIOUS
<1>3. s.right = [c EXCEPT ![y] = n]
  OBVIOUS
<1>4. s.parent = [d EXCEPT ![n] = y]
  OBVIOUS
<1> HIDE DEF s
<1>5. s = [root |-> a, left |-> b, right |-> [c EXCEPT ![y] = n], parent |-> [d EXCEPT ![n] = y]]
  BY <1>1, <1>2, <1>3, <1>4
<1> QED
  BY <1>5 DEF s

(* The links after it, where q is the old parent of y.                     *)
CutLinks(u, t, x, y, l, r, q) ==
  /\ u.root = y
  /\ \A n \in Key : u.left[n] = IF n = x THEN Null ELSE IF n = y THEN l
                                ELSE IF n = q /\ q # x THEN t.right[y] ELSE t.left[n]
  /\ \A n \in Key : u.right[n] = IF n = x THEN Null
                                 ELSE IF n = y /\ q # x THEN r ELSE t.right[n]
  /\ \A n \in Key : u.parent[n] = IF n = x \/ n = y THEN Null ELSE IF n = l THEN y
                                  ELSE IF q # x /\ n = r THEN y
                                  ELSE IF q # x /\ n = t.right[y] THEN q ELSE t.parent[n]
  /\ Typed(u)

LEMMA CutBothIs ==
  ASSUME NEW t, IsRecord(t), Typed(t), Null \notin Key,
         NEW x \in Key, NEW y \in Key, NEW l \in Key, NEW r \in Key, NEW q \in Key,
         t.parent[x] = Null, t.left[x] = l, t.right[x] = r,
         y = subtree_minimum(t, r), t.parent[y] = q,
         l # x, r # x, x # y, q # y, l # y, l # r, t.right[y] # x, t.right[y] # l, t.right[y] # y,
         q # x => t.left[q] = y /\ y # r /\ t.right[y] # r
  PROVE  CutLinks(Freed(Cut(t, x), x), t, x, y, l, r, q)
<1> DEFINE m == t.right[y]
           a == replace(t, y, m)
           b == IF t.parent[y] = x THEN t
                ELSE [a EXCEPT !.right[y] = a.right[x], !.parent[a.right[x]] = y]
           d == replace(b, x, y)
           e == [d EXCEPT !.left[y] = d.left[x], !.parent[d.left[x]] = y]
           u == Freed(e, x)
           blf == [n \in Key |-> IF n = q /\ q # x THEN m ELSE t.left[n]]
           brg == [n \in Key |-> IF n = y /\ q # x THEN r ELSE t.right[n]]
           bpr == [n \in Key |-> IF q # x /\ n = r THEN y
                                 ELSE IF q # x /\ n = m THEN q ELSE t.parent[n]]
<1>1. Cut(t, x) = e
  BY DEF Cut
<1>2. b = [root |-> t.root, left |-> blf, right |-> brg, parent |-> bpr]
  <2>1. CASE q = x
    <3>1. blf = t.left /\ brg = t.right /\ bpr = t.parent
      BY <2>1 DEF Typed
    <3>2. b = t
      BY <2>1
    <3> HIDE DEF b, blf, brg, bpr
    <3> QED BY <3>1, <3>2 DEF IsRecord
  <2>2. CASE q # x
    <3> DEFINE alf == [n \in Key |-> IF n = q /\ t.left[q] = y THEN m ELSE t.left[n]]
               arg == [n \in Key |-> IF n = q /\ t.left[q] # y THEN m ELSE t.right[n]]
               apr == [n \in Key |-> IF n = m THEN q ELSE t.parent[n]]
    <3>1. a = [root |-> t.root, left |-> alf, right |-> arg, parent |-> apr]
      BY ReplaceIs
    <3>2. alf = blf /\ arg[x] = r
      BY <2>2
    <3>3. [arg EXCEPT ![y] = r] = brg
      BY <2>2
    <3>4. [apr EXCEPT ![r] = y] = bpr
      BY <2>2
    <3> HIDE DEF a, alf, arg, apr, blf, brg, bpr, m
    <3>5. a.right[x] = r
      BY <3>1, <3>2
    <3>6. b = [a EXCEPT !.right[y] = r, !.parent[r] = y]
      BY <2>2, <3>5
    <3>7. b = [root |-> t.root, left |-> alf, right |-> [arg EXCEPT ![y] = r],
               parent |-> [apr EXCEPT ![r] = y]]
      BY <3>1, <3>6, RightGiven
    <3> QED BY <3>2, <3>3, <3>4, <3>7
  <2> QED BY <2>1, <2>2
<1> HIDE DEF b
<1>3. d = [root |-> y, left |-> blf, right |-> brg,
           parent |-> [n \in Key |-> IF n = y THEN Null ELSE bpr[n]]]
  <2>1. bpr[x] = Null /\ x \in Key
    OBVIOUS
  <2>2. blf = [n \in Key |-> blf[n]] /\ brg = [n \in Key |-> brg[n]]
    OBVIOUS
  <2> HIDE DEF blf, brg, bpr
  <2>3. b.parent[x] = Null /\ b.root = t.root /\ b.left = blf /\ b.right = brg /\ b.parent = bpr
        /\ IsRecord(b)
    BY <1>2, <2>1 DEF IsRecord
  <2>4. d = [root   |-> y,
             left   |-> [n \in Key |-> blf[n]],
             right  |-> [n \in Key |-> brg[n]],
             parent |-> [n \in Key |-> IF n = y THEN Null ELSE bpr[n]]]
    BY <2>3, ReplaceIs
  <2> HIDE DEF d
  <2> QED BY <2>2, <2>4
<1> DEFINE dpr == [n \in Key |-> IF n = y THEN Null ELSE bpr[n]]
<1>4. e = [root   |-> y,
           left   |-> [blf EXCEPT ![y] = l],
           right  |-> brg,
           parent |-> [dpr EXCEPT ![l] = y]]
  <2>1. blf[x] = l
    OBVIOUS
  <2> HIDE DEF d, blf, brg, dpr
  <2>2. d = [root |-> y, left |-> blf, right |-> brg, parent |-> dpr]
    BY <1>3 DEF dpr
  <2>3. d.left[x] = l
    BY <2>1, <2>2
  <2>4. e = [d EXCEPT !.left[y] = l, !.parent[l] = y]
    BY <2>3
  <2> HIDE DEF e
  <2> QED BY <2>2, <2>4, LeftGiven
<1>5. u = [root   |-> y,
           left   |-> [[blf EXCEPT ![y] = l] EXCEPT ![x] = Null],
           right  |-> [brg EXCEPT ![x] = Null],
           parent |-> [[dpr EXCEPT ![l] = y] EXCEPT ![x] = Null]]
  <2> DEFINE elf == [blf EXCEPT ![y] = l]
             epr == [dpr EXCEPT ![l] = y]
  <2> HIDE DEF e, brg, elf, epr
  <2>1. e = [root |-> y, left |-> elf, right |-> brg, parent |-> epr]
    BY <1>4 DEF elf, epr
  <2>2. u = [root |-> y, left |-> [elf EXCEPT ![x] = Null],
             right |-> [brg EXCEPT ![x] = Null], parent |-> [epr EXCEPT ![x] = Null]]
    BY <2>1, FreedIs
  <2> HIDE DEF u
  <2> QED BY <2>2 DEF elf, epr
<1> HIDE DEF e, d
<1> DEFINE ulf == [[blf EXCEPT ![y] = l] EXCEPT ![x] = Null]
           urg == [brg EXCEPT ![x] = Null]
           upr == [[dpr EXCEPT ![l] = y] EXCEPT ![x] = Null]
<1>6. \A n \in Key : ulf[n] = IF n = x THEN Null ELSE IF n = y THEN l
                              ELSE IF n = q /\ q # x THEN m ELSE t.left[n]
  OBVIOUS
<1>7. \A n \in Key : urg[n] = IF n = x THEN Null
                              ELSE IF n = y /\ q # x THEN r ELSE t.right[n]
  OBVIOUS
<1>8. \A n \in Key : upr[n] = IF n = x \/ n = y THEN Null ELSE IF n = l THEN y
                              ELSE IF q # x /\ n = r THEN y
                              ELSE IF q # x /\ n = m THEN q ELSE t.parent[n]
  OBVIOUS
<1>9. m \in Key \cup {Null}
  BY DEF Typed
<1>10. ulf \in [Key -> Key \cup {Null}] /\ urg \in [Key -> Key \cup {Null}]
  BY <1>9 DEF Typed
<1>11. upr \in [Key -> Key \cup {Null}]
  BY <1>9 DEF Typed
<1> HIDE DEF u, ulf, urg, upr
<1>12. u = [root |-> y, left |-> ulf, right |-> urg, parent |-> upr]
  BY <1>5 DEF ulf, urg, upr
<1>13. Typed(u)
  BY <1>10, <1>11, <1>12 DEF Typed
<1>14. u = Freed(Cut(t, x), x)
  BY <1>1 DEF u
<1>15. CutLinks(u, t, x, y, l, r, q)
  BY <1>6, <1>7, <1>8, <1>12, <1>13 DEF CutLinks
<1> QED
  BY <1>14, <1>15

LEMMA CutBothShape ==
  ASSUME NEW t, NEW N, NEW below, Shape(t, N, below), IsRecord(t),
         NEW x \in N, t.parent[x] = Null,
         t.left[x] # Null, t.right[x] # Null
  PROVE  \E new : Shape(Freed(Cut(t, x), x), N \ {x}, new)
<1> DEFINE u == Freed(Cut(t, x), x)
           M == N \ {x}
           l == t.left[x]
           r == t.right[x]
           y == subtree_minimum(t, r)
           q == t.parent[y]
           m == t.right[y]
           new == [k \in Key |-> IF k = y THEN M ELSE below[k] \ {y}]
<1>1. /\ N \subseteq Key /\ Null \notin Key /\ x \in Int /\ x # Null
      /\ N \subseteq Int /\ Null \notin N
  BY KeyAssumption DEF Shape
<1>2. /\ x = t.root /\ below[x] = N
      /\ \A n \in M : x \notin below[n] /\ t.left[n] # x /\ t.right[n] # x /\ t.parent[n] # Null
  BY RootOutside
<1>3. /\ l \in M /\ t.parent[l] = x /\ below[l] = Smaller(N, x) /\ l < x
      /\ r \in M /\ t.parent[r] = x /\ below[r] = Greater(N, x) /\ x < r
  BY <1>1, <1>2, NodeFacts
<1>4. y \in below[r] /\ t.left[y] = Null /\ \A j \in below[r] : y <= j
  <2> HIDE DEF r
  <2> QED BY <1>3, MinimumIsLeast
<1> HIDE DEF y, u
<1>5. y \in M /\ x < y /\ l # y /\ l < y
  <2>1. y \in N /\ x < y
    BY <1>3, <1>4 DEF Greater
  <2> HIDE DEF l, r
  <2> QED BY <2>1, <1>1, <1>3
<1>6. q \in N /\ q # y /\ y \in {t.left[q], t.right[q]} /\ q # Null
  BY <1>1, <1>2, <1>5, Apart, NodeFacts
<1>7. \A k \in M : y \in below[k] /\ k # y => q \in below[k]
  BY <1>5, Laminar
<1>8. m # Null => /\ m \in M /\ t.parent[m] = y /\ m # y /\ m # x /\ m # l /\ m # r
                  /\ below[m] = Greater(below[y], y)
  <2>1. m # Null => /\ m \in N /\ t.parent[m] = y /\ y < m /\ below[m] = Greater(below[y], y)
    BY <1>5, NodeFacts
  <2> HIDE DEF m
  <2> QED BY <2>1, <1>1, <1>2, <1>3, <1>5
<1>8a. m = Null => Greater(below[y], y) = {}
  <2>1. t.right[y] = Null => Greater(below[y], y) = {}
    BY <1>5, NodeFacts
  <2> QED BY <2>1
<1>9. q # x => q \in M /\ q \in below[r] /\ t.left[q] = y /\ y # r /\ y < q
  <2> SUFFICES ASSUME q # x PROVE q \in M /\ q \in below[r] /\ t.left[q] = y /\ y # r /\ y < q
    OBVIOUS
  <2>1. y # r /\ q \in M
    BY <1>3, <1>6
  <2>2. q \in below[r]
    BY <2>1, <1>3, <1>4, Laminar
  <2>3. y < q
    <3>1. y <= q
      BY <2>2, <1>4
    <3> HIDE DEF q, l, r, m
    <3> QED BY <3>1, <1>1, <1>5, <1>6
  <2>4. t.right[q] = y => q < y
    BY <1>1, <1>5, <1>6, NodeFacts
  <2>5. q \in Int /\ y \in Int
    BY <1>1, <1>5, <1>6
  <2>6. t.right[q] # y
    <3> HIDE DEF q
    <3> QED BY <2>3, <2>4, <2>5
  <2> QED BY <2>1, <2>2, <2>3, <2>6, <1>6
<1>10. q = x => y = r
  BY <1>5, <1>6
<1> HIDE DEF l, r, q, m
<1>11. /\ u.root = y
       /\ \A n \in Key : u.left[n] = IF n = x THEN Null ELSE IF n = y THEN l
                                     ELSE IF n = q /\ q # x THEN m ELSE t.left[n]
       /\ \A n \in Key : u.right[n] = IF n = x THEN Null
                                      ELSE IF n = y /\ q # x THEN r ELSE t.right[n]
       /\ \A n \in Key : u.parent[n] = IF n = x \/ n = y THEN Null ELSE IF n = l THEN y
                                       ELSE IF q # x /\ n = r THEN y
                                       ELSE IF q # x /\ n = m THEN q ELSE t.parent[n]
       /\ Typed(u)
  <2>1. Typed(t) /\ x \in Key /\ y \in Key /\ l \in Key /\ r \in Key /\ q \in Key
    BY <1>1, <1>3, <1>5, <1>6 DEF Shape
  <2>2. /\ t.left[x] = l /\ t.right[x] = r /\ y = subtree_minimum(t, r) /\ t.parent[y] = q
        /\ t.right[y] = m
    BY DEF l, r, q, m, y
  <2>3. l # x /\ r # x /\ x # y /\ q # y /\ l # y /\ l # r /\ m # x /\ m # l /\ m # y
    <3>1. l # x /\ r # x /\ y # x /\ q # y /\ l # y
      BY <1>3, <1>5, <1>6
    <3>2. l # r
      <4>1. l \in Int /\ r \in Int /\ x \in Int /\ l < x /\ x < r
        BY <1>1, <1>3
      <4> QED BY <4>1
    <3>3. m # x /\ m # l /\ m # y
      <4>1. CASE m = Null
        <5>1. l # Null /\ y # Null
          BY <1>1, <1>3, <1>5
        <5> QED BY <1>1, <4>1, <5>1
      <4>2. CASE m # Null
        BY <1>8, <4>2
      <4> QED BY <4>1, <4>2
    <3> QED BY <3>1, <3>2, <3>3
  <2>4. q # x => t.left[q] = y /\ y # r /\ m # r
    BY <1>3, <1>8, <1>9, <1>1
  <2>5. CutLinks(u, t, x, y, l, r, q)
    BY <2>1, <2>2, <2>3, <2>4, <1>1, CutBothIs DEF u
  <2> QED BY <2>2, <2>5 DEF CutLinks
<1>12. /\ new \in [Key -> SUBSET Key]
       /\ new[y] = M
       /\ \A k \in M : k # y => new[k] = below[k] \ {y}
  BY <1>1, <1>5 DEF Shape
<1> HIDE DEF new
<1>13. ASSUME NEW n \in Key \ M PROVE Loose(u, n)
  <2>1. CASE n = x
    BY <2>1, <1>11 DEF Loose
  <2>2. CASE n # x
    <3>1. Loose(t, n) /\ n \notin N
      BY <2>2 DEF Shape
    <3>2. n # y /\ n # q /\ n # l /\ n # r /\ n # m
      BY <3>1, <1>1, <1>3, <1>5, <1>6, <1>8
    <3> QED BY <2>2, <3>1, <3>2, <1>11 DEF Loose
  <2> QED BY <2>1, <2>2
<1>14. Above(u, M, new, y)
  <2>1. u.left[y] = l /\ u.right[y] = (IF q = x THEN m ELSE r) /\ u.parent[y] = Null /\ u.parent[l] = y
    BY <1>1, <1>3, <1>5, <1>11 DEF m
  <2>2. \A k \in N : x < k => y <= k
    BY <1>3, <1>4 DEF Greater
  <2>3. new[l] = Smaller(new[y], y)
    <3>1. new[l] = Smaller(N, x) \ {y}
      BY <1>3, <1>5, <1>12
    <3>2. \A k \in N : k < y /\ k # x <=> k < x /\ k # y
      BY <2>2, <1>1, <1>5
    <3> QED BY <3>1, <3>2, <1>12 DEF Smaller
  <2>4. IF u.right[y] = Null THEN Greater(new[y], y) = {}
        ELSE /\ u.right[y] \in M /\ u.parent[u.right[y]] = y
             /\ new[u.right[y]] = Greater(new[y], y)
    <3>1. CASE q # x
      <4>1. u.right[y] = r /\ u.parent[r] = y /\ r # Null /\ r \in M
        BY <3>1, <2>1, <1>1, <1>3, <1>9, <1>11
      <4>2. new[r] = Greater(N, x) \ {y}
        BY <3>1, <1>3, <1>9, <1>12
      <4>3. \A k \in N : y < k /\ k # x <=> x < k /\ k # y
        BY <2>2, <1>1, <1>5
      <4>4. new[r] = Greater(new[y], y)
        BY <4>2, <4>3, <1>12 DEF Greater
      <4> QED BY <4>1, <4>4
    <3>2. CASE q = x
      <4>1. u.right[y] = m /\ below[y] = Greater(N, x)
        BY <3>2, <2>1, <1>3, <1>10
      <4>2. Greater(new[y], y) = Greater(below[y], y)
        <5>1. \A k \in N : y < k => x < k /\ k # x
          BY <1>1, <1>5
        <5> QED BY <4>1, <5>1, <1>12 DEF Greater
      <4>3. CASE m = Null
        <5>1. Greater(below[y], y) = {}
          BY <4>3, <1>8a
        <5> QED BY <4>1, <4>2, <4>3, <5>1
      <4>4. CASE m # Null
        <5>1. y \notin below[m]
          BY <4>4, <1>1, <1>5, <1>8 DEF Greater
        <5>2. new[m] = Greater(new[y], y)
          <6>1. new[m] = below[m] \ {y}
            BY <4>4, <1>8, <1>12
          <6> QED BY <4>2, <4>4, <5>1, <6>1, <1>8
        <5>3. u.parent[m] = y
          BY <3>2, <4>4, <1>1, <1>3, <1>8, <1>11
        <5> QED BY <4>1, <4>4, <5>2, <5>3, <1>8
      <4> QED BY <4>3, <4>4
    <3> QED BY <3>1, <3>2
  <2> QED BY <2>1, <2>3, <2>4, <1>1, <1>3, <1>5, <1>11, <1>12 DEF Above
<1>15. ASSUME NEW n \in M, n # y PROVE Above(u, M, new, n)
  <2>1. /\ n \in Key /\ n \in N /\ n # x /\ new[n] = below[n] \ {y}
        /\ n \in new[n] /\ new[n] \subseteq M
    <3>1. n \in below[n] /\ below[n] \subseteq N
      BY NodeFacts
    <3> QED BY <3>1, <1>1, <1>2, <1>12, <1>15
  <2>2. IF u.left[n] = Null THEN Smaller(new[n], n) = {}
        ELSE /\ u.left[n] \in M /\ u.parent[u.left[n]] = n
             /\ new[u.left[n]] = Smaller(new[n], n)
    <3>1. CASE n = q
      <4>1. u.left[n] = m /\ t.left[n] = y /\ y # Null
        BY <3>1, <2>1, <1>1, <1>5, <1>9, <1>11, <1>15 DEF m
      <4>2. below[y] = Smaller(below[n], n)
        BY <2>1, <4>1, NodeFacts
      <4>3. Smaller(new[n], n) = below[y] \ {y}
        BY <2>1, <4>2 DEF Smaller
      <4>4. below[y] \subseteq Int /\ \A k \in below[y] : y <= k
        BY <1>4, <1>5, NodeFacts
      <4>5. below[y] \ {y} = Greater(below[y], y)
        BY <4>4, <1>1, <1>5 DEF Greater
      <4>6. CASE m = Null
        <5>1. Greater(below[y], y) = {}
          BY <4>6, <1>8a
        <5> QED BY <4>1, <4>3, <4>5, <4>6, <5>1
      <4>7. CASE m # Null
        <5>1. new[m] = below[m] \ {y}
          BY <4>7, <1>8, <1>12, <1>1, <1>5
        <5>2. new[m] = Smaller(new[n], n)
          BY <4>3, <4>5, <4>7, <5>1, <1>8
        <5>3. u.parent[m] = n
          <6>1. m \in Key /\ q # x
            BY <3>1, <2>1, <4>7, <1>1, <1>8
          <6> QED BY <3>1, <4>7, <6>1, <1>8, <1>11 DEF m
        <5> QED BY <4>1, <4>7, <5>2, <5>3, <1>8
      <4> QED BY <4>6, <4>7
    <3>2. CASE n # q
      <4>1. u.left[n] = t.left[n]
        BY <3>2, <2>1, <1>11, <1>15
      <4>2. CASE t.left[n] = Null
        <5>1. Smaller(below[n], n) = {}
          BY <2>1, <4>2, NodeFacts
        <5> QED BY <4>1, <4>2, <5>1, <2>1 DEF Smaller
      <4>3. CASE t.left[n] # Null
        <5> DEFINE a == t.left[n]
        <5>1. a \in N /\ t.parent[a] = n /\ below[a] = Smaller(below[n], n)
          BY <2>1, <4>3, NodeFacts
        <5> HIDE DEF a
        <5>2. a # x /\ a # y /\ a # l /\ a # r /\ a # m
          BY <5>1, <2>1, <3>2, <1>1, <1>2, <1>3, <1>8, <1>15 DEF q
        <5>3. u.parent[a] = n
          BY <5>1, <5>2, <1>1, <1>11 DEF m
        <5>4. new[a] = Smaller(new[n], n)
          BY <5>1, <5>2, <2>1, <1>12 DEF Smaller
        <5> QED BY <4>1, <4>3, <5>1, <5>2, <5>3, <5>4 DEF a
      <4> QED BY <4>2, <4>3
    <3> QED BY <3>1, <3>2
  <2>3. IF u.right[n] = Null THEN Greater(new[n], n) = {}
        ELSE /\ u.right[n] \in M /\ u.parent[u.right[n]] = n
             /\ new[u.right[n]] = Greater(new[n], n)
    <3>1. u.right[n] = t.right[n]
      BY <2>1, <1>11, <1>15
    <3>2. CASE t.right[n] = Null
      <4>1. Greater(below[n], n) = {}
        BY <2>1, <3>2, NodeFacts
      <4> QED BY <3>1, <3>2, <4>1, <2>1 DEF Greater
    <3>3. CASE t.right[n] # Null
      <4> DEFINE a == t.right[n]
      <4>1. a \in N /\ t.parent[a] = n /\ below[a] = Greater(below[n], n) /\ n < a
        BY <2>1, <3>3, NodeFacts
      <4> HIDE DEF a
      <4>2. a # y
        <5>1. a = y => n = q
          BY <4>1 DEF q
        <5> QED BY <5>1, <4>1, <2>1, <1>1, <1>5, <1>9
      <4>3. a # x /\ a # l /\ a # r /\ a # m
        BY <4>1, <2>1, <1>1, <1>2, <1>3, <1>8, <1>15
      <4>4. u.parent[a] = n
        BY <4>1, <4>2, <4>3, <1>1, <1>11 DEF m
      <4>5. new[a] = Greater(new[n], n)
        BY <4>1, <4>2, <4>3, <2>1, <1>12 DEF Greater
      <4> QED BY <3>1, <3>3, <4>1, <4>3, <4>4, <4>5 DEF a
    <3> QED BY <3>2, <3>3
  <2>4. IF u.parent[n] = Null THEN n = u.root
        ELSE u.parent[n] \in M /\ n \in {u.left[u.parent[n]], u.right[u.parent[n]]}
    <3>1. y \in Key /\ y # Null /\ q \in Key /\ q # y /\ q # Null
      BY <1>1, <1>5, <1>6
    <3>2. CASE n = l
      BY <3>1, <3>2, <2>1, <1>5, <1>11, <1>15
    <3>3. CASE n = r /\ n # l
      <4>1. q # x
        BY <3>3, <1>10, <1>15
      <4> QED BY <3>1, <3>3, <4>1, <2>1, <1>5, <1>11, <1>15
    <3>4. CASE n = m /\ q # x /\ n # r /\ n # l
      BY <3>1, <3>4, <2>1, <1>9, <1>11, <1>15 DEF m
    <3>5. CASE n # l /\ n # r /\ ~(n = m /\ q # x)
      <4> DEFINE s == t.parent[n]
      <4>1. s \in N /\ s # Null /\ n \in {t.left[s], t.right[s]} /\ n # Null
        BY <2>1, <1>1, <1>2, NodeFacts
      <4>2. u.parent[n] = s
        BY <3>5, <2>1, <1>11, <1>15 DEF m
      <4> HIDE DEF s
      <4>3. s # x
        BY <4>1, <3>5 DEF l, r
      <4>4. CASE s = y
        BY <4>1, <4>2, <4>3, <4>4, <3>1, <3>5, <1>4, <1>11 DEF m
      <4>5. CASE s # y
        BY <4>1, <4>2, <4>3, <4>5, <3>1, <1>1, <1>9, <1>11, <1>15
      <4> QED BY <4>2, <4>3, <4>4, <4>5, <4>1
    <3> QED BY <3>2, <3>3, <3>4, <3>5
  <2> QED BY <2>1, <2>2, <2>3, <2>4 DEF Above
<1>16. Shape(u, M, new)
  <2>1. u.root \in M /\ u.root # Null /\ u.parent[u.root] = Null /\ new[u.root] = M
    BY <1>1, <1>5, <1>11, <1>12
  <2> QED BY <2>1, <1>1, <1>11, <1>12, <1>13, <1>14, <1>15 DEF Shape
<1> QED
  BY <1>16 DEF u

-----------------------------------------------------------------------------
(* The whole removal.                                                      *)
LEMMA CutShape ==
  ASSUME NEW t, NEW N, NEW below, Shape(t, N, below), IsRecord(t),
         NEW x \in N, t.parent[x] = Null
  PROVE  \E new : Shape(Freed(Cut(t, x), x), N \ {x}, new)
<1>1. CASE t.left[x] = Null \/ t.right[x] = Null
  BY <1>1, CutHalfShape
<1>2. CASE t.left[x] # Null /\ t.right[x] # Null
  BY <1>2, CutBothShape
<1> QED
  BY <1>1, <1>2

(* Going down from a node the key fits at on the key's side, it fits at    *)
(* the child.                                                              *)
LEMMA FitsBelow ==
  ASSUME NEW t, NEW N, NEW below, Shape(t, N, below),
         NEW k \in Int, NEW n \in N, Fits(t, N, below, k, n),
         NEW c, c # Null,
         (k < n /\ c = t.left[n]) \/ (n < k /\ c = t.right[n])
  PROVE  c \in N /\ Fits(t, N, below, k, c)
<1>1. /\ c \in N /\ t.parent[c] = n /\ c \in below[n] /\ n \in Int /\ c \in Int
      /\ (c < n <=> k < n)
  <2>1. c \in N /\ t.parent[c] = n /\ c \in below[n] /\ n \in Int /\ N \subseteq Int
        /\ (c = t.left[n] => c < n) /\ (c = t.right[n] => n < c)
    BY NodeFacts
  <2> QED BY <2>1
<1>2. ASSUME NEW a \in N, c \in below[a], a # c PROVE k < a <=> c < a
  <2>1. n \in below[a] /\ a \in Int /\ below[a] \subseteq N
    BY <1>1, <1>2, Laminar, NodeFacts
  <2>2. CASE a = n
    BY <2>2, <1>1
  <2>3. CASE a # n
    <3>1. k < a <=> n < a
      BY <2>1, <2>3 DEF Fits
    <3>2. n < a => c < a
      <4>1. n < a => /\ t.left[a] # Null /\ t.left[a] \in N
                     /\ n \in below[t.left[a]] /\ below[t.left[a]] = Smaller(below[a], a)
        BY <1>1, <2>1, NodeFacts DEF Smaller
      <4>2. n < a => c \in below[t.left[a]]
        BY <4>1, <1>1, Laminar
      <4> QED BY <4>1, <4>2 DEF Smaller
    <3>3. a < n => a < c
      <4>1. a < n => /\ t.right[a] # Null /\ t.right[a] \in N
                     /\ n \in below[t.right[a]] /\ below[t.right[a]] = Greater(below[a], a)
        BY <1>1, <2>1, NodeFacts DEF Greater
      <4>2. a < n => c \in below[t.right[a]]
        BY <4>1, <1>1, Laminar
      <4> QED BY <4>1, <4>2 DEF Greater
    <3> QED BY <3>1, <3>2, <3>3, <2>1, <2>3, <1>1
  <2> QED BY <2>2, <2>3
<1> QED
  BY <1>1, <1>2 DEF Fits

-----------------------------------------------------------------------------
(* The inductive invariant: the links have the shape of a tree of the      *)
(* nodes, and a walk has come to where its key is or has to go.            *)
IsCall(c) ==
  \/ \E k \in Key, r \in Record : c = <<"tree_insert", k, r>>
  \/ \E f \in {"tree_find", "tree_find_nearest", "tree_remove"}, k \in Key :
       c = <<f, k, NoRecord>>

(* The key belongs below z, or where the walk ended: at p.                 *)
Descends(below) ==
  IF z # Null THEN Fits(Tree, Node, below, key, z)
  ELSE IF p = Null THEN root = Null
  ELSE /\ p \in Node /\ p # key
       /\ Fits(Tree, Node, below, key, p)
       /\ IF key < p THEN left[p] = Null ELSE right[p] = Null

(* The nodes not above the key are below z or not above p.                 *)
Nears(below) ==
  /\ p # Null => p \in Node /\ p < key
  /\ p # Null /\ z # Null => \A k \in below[z] : p < k
  /\ \A k \in Node : k <= key => \/ z # Null /\ k \in below[z]
                                 \/ p # Null /\ k <= p

Walking(below) ==
  /\ z # Null => z \in Node
  /\ key \in Node => z # Null /\ key \in below[z]
  /\ IF call[1] = "tree_find_nearest" THEN Nears(below) ELSE Descends(below)

Phase ==
  /\ at \in {"idle", "walk", "splay", "return"}
  /\ {z, p} \subseteq Key \cup {Null}
  /\ IF at = "idle" THEN call = NoCall ELSE IsCall(call)
  /\ at \in {"idle", "walk"} => answer = NoCall
  /\ at = "splay" => /\ z = key /\ key \in Node
                     /\ \/ call[1] = "tree_insert" /\ answer = TRUE
                        \/ call[1] = "tree_remove" /\ answer = NoCall
  /\ at = "return" => answer # NoCall

Uncounted == IF at = "splay" /\ call[1] = "tree_insert" THEN 1 ELSE 0

Counted ==
  /\ record \in [Key -> Record \cup {NoRecord}]
  /\ node_count \in Nat
  /\ Cardinality(Node) = node_count + Uncounted

IInv ==
  /\ Phase
  /\ Counted
  /\ \E below : Shape(Tree, Node, below) /\ (at = "walk" => Walking(below))

LEMMA CallFacts ==
  ASSUME NEW c, IsCall(c)
  PROVE  /\ c # NoCall /\ c[2] \in Key /\ c[2] \in Int
         /\ c[1] \in {"tree_insert", "tree_find", "tree_find_nearest", "tree_remove"}
         /\ c[1] = "tree_insert" => c[3] \in Record /\ c[3] # NoRecord
<1>1. ASSUME NEW k \in Key, NEW r \in Record, c = <<"tree_insert", k, r>>
      PROVE  /\ c # NoCall /\ c[2] \in Key
             /\ c[1] = "tree_insert"
             /\ c[3] \in Record /\ c[3] # NoRecord
  BY <1>1, RecordAssumption, NoCallAssumption
<1>2. ASSUME NEW f \in {"tree_find", "tree_find_nearest", "tree_remove"}, NEW k \in Key,
             c = <<f, k, NoRecord>>
      PROVE  /\ c # NoCall /\ c[2] \in Key
             /\ c[1] \in {"tree_find", "tree_find_nearest", "tree_remove"}
             /\ c[1] # "tree_insert"
  BY <1>2, NoCallAssumption
<1> QED
  BY <1>1, <1>2, KeyAssumption DEF IsCall

LEMMA TreeFacts ==
  /\ Tree.root = root /\ Tree.left = left /\ Tree.right = right /\ Tree.parent = parent
  /\ IsRecord(Tree)
BY DEF Tree, IsRecord

LEMMA NodeIsFinite == IsFiniteSet(Node) /\ Cardinality(Node) \in Nat
<1>1. IsFiniteSet(Node)
  BY KeyAssumption, FS_Subset DEF Node
<1> QED
  BY <1>1, FS_CardinalityType

LEMMA InitInv == Init => IInv
<1> SUFFICES ASSUME Init PROVE IInv
  OBVIOUS
<1> USE DEF Init, tree_new, NoLinks
<1>1. Node = {}
  BY DEF Node
<1>2. Shape(Tree, {}, [k \in Key |-> {}])
  BY TreeFacts DEF Shape, Typed, Loose
<1>3. Phase
  BY DEF Phase
<1>4. Counted
  BY <1>1, FS_EmptySet DEF Counted, Uncounted
<1> QED
  BY <1>1, <1>2, <1>3, <1>4 DEF IInv

(* Before anything was compared the key fits at the root.                  *)
LEMMA BeginInv == IInv /\ Begin => IInv'
<1> SUFFICES ASSUME IInv, Begin PROVE IInv'
  OBVIOUS
<1>1. PICK below : Shape(Tree, Node, below)
  BY DEF IInv
<1>2. /\ IsCall(call') /\ at' = "walk" /\ z' = root /\ p' = Null
      /\ answer' = NoCall /\ at = "idle"
      /\ root' = root /\ left' = left /\ right' = right /\ parent' = parent
      /\ record' = record /\ node_count' = node_count
  BY DEF Begin, IsCall, links, contents, IInv, Phase
<1>3. Node' = Node /\ Tree' = Tree /\ root \in Key \cup {Null}
  BY <1>1, <1>2, TreeFacts DEF Node, Tree, Shape, Typed
<1>4. /\ key' \in Key /\ key' \in Int
      /\ IF root = Null THEN Node = {}
         ELSE root \in Node /\ below[root] = Node /\ parent[root] = Null
  BY <1>1, <1>2, CallFacts, TreeFacts DEF key, Shape
<1>5. root # Null => Fits(Tree, Node, below, key', root)
  <2> SUFFICES ASSUME root # Null, NEW a \in Node, root \in below[a], a # root PROVE FALSE
    BY DEF Fits
  <2> QED BY <1>1, <1>4, Laminar, TreeFacts
<1>6. Walking(below)'
  BY <1>2, <1>3, <1>4, <1>5 DEF Walking, Nears, Descends
<1>7. Phase'
  BY <1>2, <1>3 DEF Phase
<1>8. Counted'
  BY <1>2, <1>3 DEF IInv, Counted, Uncounted
<1> QED
  BY <1>1, <1>3, <1>6, <1>7, <1>8 DEF IInv

LEMMA WalkInv == IInv /\ Walk => IInv'
<1> SUFFICES ASSUME IInv, Walk PROVE IInv'
  OBVIOUS
<1>1. PICK below : Shape(Tree, Node, below) /\ Walking(below)
  BY DEF IInv, Walk
<1>2. /\ at = "walk" /\ at' = "walk" /\ z # Null /\ z # key
      /\ z' = IF key > z THEN right[z] ELSE left[z]
      /\ p' = IF call[1] = "tree_find_nearest" /\ key < z THEN p ELSE z
      /\ root' = root /\ left' = left /\ right' = right /\ parent' = parent
      /\ record' = record /\ node_count' = node_count /\ call' = call /\ answer' = answer
      /\ answer = NoCall
  BY DEF Walk, links, contents, IInv, Phase
<1>3. Node' = Node /\ Tree' = Tree /\ key' = key
  BY <1>2 DEF Node, Tree, key
<1>4. IsCall(call) /\ key \in Key /\ key \in Int
  BY <1>2, CallFacts DEF IInv, Phase, key
<1>5. /\ z \in Node /\ z \in Key /\ z \in Int /\ below[z] \subseteq Node /\ Node \subseteq Int
      /\ left[z] = Null => \A k \in below[z] : z <= k
      /\ left[z] # Null => left[z] \in Node /\ below[left[z]] = Smaller(below[z], z)
      /\ right[z] = Null => \A k \in below[z] : k <= z
      /\ right[z] # Null => right[z] \in Node /\ below[right[z]] = Greater(below[z], z)
  <2>1. z \in Node
    BY <1>1, <1>2 DEF Walking
  <2> QED BY <1>1, <2>1, NodeFacts, TreeFacts
<1>6. (z' # Null => z' \in Node) /\ {z', p'} \subseteq Key \cup {Null}
  <2>1. z' # Null => z' \in Node
    BY <1>2, <1>5
  <2> QED BY <2>1, <1>2, <1>5 DEF IInv, Phase, Node
<1>7. key \in Node => z' # Null /\ key \in below[z']
  <2> SUFFICES ASSUME key \in Node PROVE z' # Null /\ key \in below[z']
    OBVIOUS
  <2>1. key \in below[z]
    BY <1>1 DEF Walking
  <2>2. CASE key < z
    BY <2>1, <2>2, <1>2, <1>4, <1>5 DEF Smaller
  <2>3. CASE z < key
    BY <2>1, <2>3, <1>2, <1>4, <1>5 DEF Greater
  <2> QED BY <2>2, <2>3, <1>2, <1>4, <1>5
<1>8. call[1] # "tree_find_nearest" => Descends(below)'
  <2> SUFFICES ASSUME call[1] # "tree_find_nearest" PROVE Descends(below)'
    OBVIOUS
  <2>1. Fits(Tree, Node, below, key, z) /\ p' = z
    BY <1>1, <1>2 DEF Walking, Descends
  <2>2. CASE z' # Null
    <3>1. (key < z /\ z' = left[z]) \/ (z < key /\ z' = right[z])
      BY <1>2, <1>4, <1>5
    <3>2. Fits(Tree, Node, below, key, z')
      BY <1>1, <1>4, <1>5, <2>1, <2>2, <3>1, FitsBelow, TreeFacts
    <3> QED BY <1>3, <2>2, <3>2 DEF Descends
  <2>3. CASE z' = Null
    <3>1. IF key < z THEN left[z] = Null ELSE right[z] = Null
      BY <2>3, <1>2, <1>4, <1>5
    <3> QED BY <1>2, <1>3, <1>5, <2>1, <2>3, <3>1 DEF Descends
  <2> QED BY <2>2, <2>3
<1>9. call[1] = "tree_find_nearest" => Nears(below)'
  <2> SUFFICES ASSUME call[1] = "tree_find_nearest" PROVE Nears(below)'
    OBVIOUS
  <2>1. Nears(below)
    BY <1>1 DEF Walking
  <2>2. CASE key < z
    <3>1. z' = left[z] /\ p' = p
      BY <2>2, <1>2, <1>4, <1>5
    <3>2. z' # Null => below[z'] \subseteq below[z]
      BY <3>1, <1>5 DEF Smaller
    <3>3. ASSUME NEW k \in Node, k <= key
          PROVE  (z' # Null /\ k \in below[z']) \/ (p # Null /\ k <= p)
      <4>1. k \in below[z] \/ (p # Null /\ k <= p)
        BY <2>1, <3>3 DEF Nears
      <4>2. k < z
        BY <3>3, <2>2, <1>4, <1>5
      <4>3. k \in below[z] => z' # Null /\ k \in below[z']
        BY <3>1, <4>2, <1>5 DEF Smaller
      <4> QED BY <4>1, <4>3
    <3> QED BY <2>1, <3>1, <3>2, <3>3, <1>2, <1>3 DEF Nears
  <2>3. CASE z < key
    <3>1. z' = right[z] /\ p' = z
      BY <2>3, <1>2, <1>4, <1>5
    <3>2. z' # Null => \A k \in below[z'] : z < k
      BY <3>1, <1>5 DEF Greater
    <3>3. ASSUME NEW k \in Node, k <= key
          PROVE  (z' # Null /\ k \in below[z']) \/ k <= z
      <4>1. CASE k \in below[z]
        BY <4>1, <3>1, <1>5 DEF Greater
      <4>2. CASE k \notin below[z]
        <5>1. p # Null /\ k <= p /\ p \in Node /\ z \in below[z]
          BY <2>1, <3>3, <4>2, <1>1, <1>5, NodeFacts DEF Nears
        <5>2. p < z
          BY <2>1, <5>1, <1>2 DEF Nears
        <5> QED BY <5>1, <5>2, <1>5
      <4> QED BY <4>1, <4>2
    <3> QED BY <2>3, <3>1, <3>2, <3>3, <1>2, <1>3, <1>5, KeyAssumption DEF Nears, Node
  <2> QED BY <2>2, <2>3, <1>2, <1>4, <1>5
<1>10. Walking(below)'
  BY <1>2, <1>3, <1>6, <1>7, <1>8, <1>9 DEF Walking
<1>11. Phase'
  BY <1>2, <1>3, <1>4, <1>6 DEF Phase
<1>12. Counted'
  BY <1>2, <1>3 DEF IInv, Counted, Uncounted
<1> QED
  BY <1>1, <1>3, <1>10, <1>11, <1>12 DEF IInv

LEMMA SameShape ==
  ASSUME NEW t, NEW u, NEW N, NEW below, Shape(t, N, below),
         u.root = t.root, u.left = t.left, u.right = t.right, u.parent = t.parent
  PROVE  Shape(u, N, below)
<1>1. Typed(u) /\ N \subseteq Key /\ below \in [Key -> SUBSET Key]
  BY DEF Shape, Typed
<1>2. \A n \in Key \ N : Loose(u, n)
  BY DEF Shape, Loose
<1>3. ASSUME NEW n \in N PROVE Above(u, N, below, n)
  <2>1. Above(t, N, below, n)
    BY DEF Shape
  <2> QED BY <2>1 DEF Above
<1>4. IF u.root = Null THEN N = {}
      ELSE u.root \in N /\ u.parent[u.root] = Null /\ below[u.root] = N
  BY DEF Shape
<1> QED
  BY <1>1, <1>2, <1>3, <1>4 DEF Shape

(* The calls that leave the links alone: a lookup, a record replaced.      *)
LEMMA QuietInv ==
  ASSUME IInv, UNCHANGED links, Counted', Phase', Node' = Node, at' # "walk"
  PROVE  IInv'
<1>1. Tree' = Tree
  BY DEF links, Tree
<1> QED
  BY <1>1 DEF IInv

LEMMA LookupInv ==
  IInv /\ (FindFound \/ FindMissed \/ NearestMissed \/ RemoveMissed) => IInv'
<1> SUFFICES ASSUME IInv, FindFound \/ FindMissed \/ NearestMissed \/ RemoveMissed PROVE IInv'
  OBVIOUS
<1>1. PICK below : Shape(Tree, Node, below) /\ Walking(below)
  BY DEF IInv, FindFound, FindMissed, NearestMissed, RemoveMissed, Found, Missed
<1>2. /\ at = "walk" /\ at' = "return" /\ call' = call /\ z' = z /\ p' = p
      /\ UNCHANGED links /\ record' = record /\ node_count' = node_count
      /\ Node' = Node
  BY DEF FindFound, FindMissed, NearestMissed, RemoveMissed, Found, Missed, contents, links, Node
<1>3. \E r \in Record \cup {NoRecord} : answer' = <<r>>
  <2>1. record \in [Key -> Record \cup {NoRecord}] /\ IsCall(call) /\ {z, p} \subseteq Key \cup {Null}
    BY <1>2 DEF IInv, Counted, Phase
  <2>2. call[2] \in Key
    BY <2>1, CallFacts
  <2>3. CASE FindFound
    BY <2>1, <2>2, <2>3 DEF FindFound, Found, key
  <2>4. CASE FindMissed \/ RemoveMissed
    BY <2>4 DEF FindMissed, RemoveMissed
  <2>5. CASE NearestMissed
    BY <2>1, <2>5 DEF NearestMissed
  <2> QED BY <2>3, <2>4, <2>5
<1>4. answer' # NoCall
  BY <1>3, NoCallAssumption
<1>5. Phase' /\ Counted'
  BY <1>2, <1>4 DEF IInv, Phase, Counted, Uncounted
<1> QED
  BY <1>2, <1>5, QuietInv

LEMMA InsertFoundInv == IInv /\ InsertFound => IInv'
<1> SUFFICES ASSUME IInv, InsertFound PROVE IInv'
  OBVIOUS
<1>1. /\ at = "walk" /\ at' = "return" /\ call' = call /\ z' = z /\ p' = p
      /\ UNCHANGED links /\ node_count' = node_count /\ answer' = TRUE
      /\ call[1] = "tree_insert" /\ z = key
      /\ record' = [record EXCEPT ![z] = call[3]]
  BY DEF InsertFound, Found, links
<1>2. IsCall(call) /\ z \in Key /\ call[3] \in Record /\ call[3] # NoRecord
  BY <1>1, CallFacts DEF IInv, Phase, key
<1>3. z \in Node
  <2>1. PICK below : Walking(below)
    BY <1>1 DEF IInv
  <2> QED BY <2>1, <1>2, KeyAssumption DEF Walking
<1>4. record \in [Key -> Record \cup {NoRecord}]
  BY DEF IInv, Counted
<1>5. Node' = Node /\ record' \in [Key -> Record \cup {NoRecord}]
  BY <1>1, <1>2, <1>3, <1>4 DEF Node
<1>6. TRUE # NoCall
  BY NoCallAssumption
<1>7. Phase'
  BY <1>1, <1>6 DEF IInv, Phase
<1>8. Counted'
  BY <1>1, <1>5 DEF IInv, Counted, Uncounted
<1> QED
  BY <1>1, <1>5, <1>7, <1>8, QuietInv

LEMMA RemoveFoundInv == IInv /\ RemoveFound => IInv'
<1> SUFFICES ASSUME IInv, RemoveFound PROVE IInv'
  OBVIOUS
<1>1. /\ at = "walk" /\ at' = "splay" /\ call' = call /\ z' = z /\ p' = p
      /\ UNCHANGED links /\ node_count' = node_count /\ answer' = answer /\ record' = record
      /\ call[1] = "tree_remove" /\ z = key /\ Node' = Node /\ key' = key
  BY DEF RemoveFound, Found, links, contents, Node, key
<1>2. IsCall(call) /\ z \in Key /\ answer = NoCall
  BY <1>1, CallFacts DEF IInv, Phase, key
<1>3. z \in Node
  <2>1. PICK below : Walking(below)
    BY <1>1 DEF IInv
  <2> QED BY <2>1, <1>2, KeyAssumption DEF Walking
<1>4. Phase' /\ Counted'
  BY <1>1, <1>2, <1>3 DEF IInv, Phase, Counted, Uncounted
<1> QED
  BY <1>1, <1>4, QuietInv

LEMMA ReturnInv == IInv /\ Return => IInv'
<1> SUFFICES ASSUME IInv, Return PROVE IInv'
  OBVIOUS
<1>1. /\ at = "return" /\ at' = "idle" /\ call' = NoCall /\ z' = Null /\ p' = Null
      /\ UNCHANGED links /\ node_count' = node_count /\ answer' = NoCall /\ record' = record
      /\ Node' = Node
  BY DEF Return, links, contents, Node
<1>2. Phase' /\ Counted'
  BY <1>1 DEF IInv, Phase, Counted, Uncounted
<1> QED
  BY <1>1, <1>2, QuietInv

LEMMA InsertMissedInv == IInv /\ InsertMissed => IInv'
<1> SUFFICES ASSUME IInv, InsertMissed PROVE IInv'
  OBVIOUS
<1>1. PICK below : Shape(Tree, Node, below) /\ Walking(below)
  BY DEF IInv, InsertMissed, Missed
<1>2. /\ at = "walk" /\ at' = "splay" /\ call[1] = "tree_insert" /\ call' = call /\ z = Null
      /\ z' = key /\ p' = p /\ answer' = TRUE /\ node_count' = node_count
      /\ record' = [record EXCEPT ![key] = call[3]] /\ key' = key
  BY DEF InsertMissed, Missed, key
<1>3. IsCall(call) /\ key \in Key /\ call[3] \in Record /\ call[3] # NoRecord /\ p \in Key \cup {Null}
  BY <1>2, CallFacts DEF IInv, Phase, key
<1>4. record \in [Key -> Record \cup {NoRecord}]
  BY DEF IInv, Counted
<1>5. key \notin Node /\ Node' = Node \cup {key} /\ record' \in [Key -> Record \cup {NoRecord}]
  BY <1>1, <1>2, <1>3, <1>4 DEF Walking, Node
<1>6. Tree' = Inserted(Tree, key, p)
  BY TreeFacts DEF InsertMissed, Tree, Inserted
<1>7. IF p = Null THEN root = Null
      ELSE /\ p \in Node /\ Fits(Tree, Node, below, key, p)
           /\ IF key < p THEN left[p] = Null ELSE right[p] = Null
  BY <1>1, <1>2 DEF Walking, Descends
<1>8. \E new : Shape(Inserted(Tree, key, p), Node \cup {key}, new)
  BY <1>1, <1>3, <1>5, <1>7, InsertedShape, TreeFacts DEF Node
<1>9. \E new : Shape(Tree', Node', new)
  BY <1>5, <1>6, <1>8
<1>10. Phase'
  BY <1>2, <1>3, <1>5 DEF IInv, Phase
<1>11. Counted'
  <2>1. Cardinality(Node \cup {key}) = Cardinality(Node) + 1
    BY <1>5, FS_AddElement, NodeIsFinite
  <2> QED BY <1>2, <1>5, <2>1 DEF IInv, Counted, Uncounted
<1> QED
  BY <1>2, <1>9, <1>10, <1>11 DEF IInv

LEMMA SplayInv == IInv /\ Splay => IInv'
<1> SUFFICES ASSUME IInv, Splay PROVE IInv'
  OBVIOUS
<1>1. PICK below : Shape(Tree, Node, below)
  BY DEF IInv
<1>2. /\ at = "splay" /\ at' = "splay" /\ call' = call /\ z' = z /\ p' = p /\ answer' = answer
      /\ record' = record /\ node_count' = node_count /\ parent[z] # Null
      /\ Node' = Node /\ key' = key
  BY DEF Splay, contents, Node, key
<1>3. z \in Node
  BY <1>2 DEF IInv, Phase
<1>4. \E new : Shape(splayed(Tree, z), Node, new)
  BY <1>1, <1>2, <1>3, SplayedShape, TreeFacts
<1>5. \A new : Shape(splayed(Tree, z), Node, new) => Shape(Tree', Node', new)
  <2> DEFINE t == splayed(Tree, z)
  <2>1. /\ Tree'.root = t.root /\ Tree'.left = t.left
        /\ Tree'.right = t.right /\ Tree'.parent = t.parent
    BY DEF Splay, SetTree, Tree
  <2> HIDE DEF t
  <2>2. \A new : Shape(t, Node, new) => Shape(Tree', Node', new)
    BY <2>1, <1>2, SameShape
  <2> QED BY <2>2 DEF t
<1>6. Phase' /\ Counted'
  BY <1>2 DEF IInv, Phase, Counted, Uncounted
<1> QED
  BY <1>2, <1>4, <1>5, <1>6 DEF IInv

LEMMA InsertEndsInv == IInv /\ InsertEnds => IInv'
<1> SUFFICES ASSUME IInv, InsertEnds PROVE IInv'
  OBVIOUS
<1>1. /\ at = "splay" /\ at' = "return" /\ call' = call /\ z' = z /\ p' = p /\ answer' = answer
      /\ UNCHANGED links /\ record' = record /\ node_count' = node_count + 1
      /\ call[1] = "tree_insert" /\ Node' = Node
  BY DEF InsertEnds, Node
<1>2. answer' # NoCall
  <2>1. IsCall(call) /\ (call[1] = "tree_insert" => answer = TRUE \/ call[1] = "tree_remove")
    BY <1>1 DEF IInv, Phase
  <2> QED BY <1>1, <2>1, NoCallAssumption
<1>3. Phase'
  BY <1>1, <1>2 DEF IInv, Phase
<1>4. Counted'
  BY <1>1, NodeIsFinite DEF IInv, Counted, Uncounted
<1> QED
  BY <1>1, <1>3, <1>4, QuietInv

LEMMA RemoveEndsInv == IInv /\ RemoveEnds => IInv'
<1> SUFFICES ASSUME IInv, RemoveEnds PROVE IInv'
  OBVIOUS
<1>1. PICK below : Shape(Tree, Node, below)
  BY DEF IInv
<1>2. /\ at = "splay" /\ at' = "return" /\ call' = call /\ z' = z /\ p' = p
      /\ record' = [record EXCEPT ![z] = NoRecord] /\ node_count' = node_count - 1
      /\ call[1] = "tree_remove" /\ parent[z] = Null /\ answer' = <<record[z]>>
  BY DEF RemoveEnds
<1>3. z \in Node /\ z \in Key /\ record \in [Key -> Record \cup {NoRecord}]
  BY <1>2 DEF IInv, Phase, Counted, Node
<1>4. Node' = Node \ {z} /\ record' \in [Key -> Record \cup {NoRecord}]
  BY <1>2, <1>3 DEF Node
<1>5. \E new : Shape(Freed(Cut(Tree, z), z), Node \ {z}, new)
  BY <1>1, <1>2, <1>3, CutShape, TreeFacts
<1>6. \A new : Shape(Freed(Cut(Tree, z), z), Node \ {z}, new) => Shape(Tree', Node', new)
  <2> DEFINE t == Freed(Cut(Tree, z), z)
  <2>1. /\ Tree'.root = t.root /\ Tree'.left = t.left
        /\ Tree'.right = t.right /\ Tree'.parent = t.parent
    BY DEF RemoveEnds, SetTree, Tree
  <2> HIDE DEF t
  <2>2. \A new : Shape(t, Node \ {z}, new) => Shape(Tree', Node', new)
    BY <2>1, <1>4, SameShape
  <2> QED BY <2>2 DEF t
<1>7. answer' # NoCall
  BY <1>2, <1>3, NoCallAssumption
<1>8. Phase'
  BY <1>2, <1>7 DEF IInv, Phase
<1>9. Counted'
  <2>1. Cardinality(Node \ {z}) = Cardinality(Node) - 1 /\ Cardinality(Node \ {z}) \in Nat
    BY <1>3, FS_RemoveElement, FS_CardinalityType, NodeIsFinite
  <2> QED BY <1>2, <1>4, <2>1 DEF IInv, Counted, Uncounted
<1> QED
  BY <1>2, <1>5, <1>6, <1>8, <1>9 DEF IInv

LEMMA Inductive == Spec => []IInv
<1>1. Init => IInv
  BY InitInv
<1>2. IInv /\ [Next]_vars => IInv'
  <2> SUFFICES ASSUME IInv, [Next]_vars PROVE IInv'
    OBVIOUS
  <2>1. CASE UNCHANGED vars
    <3>1. /\ Tree' = Tree /\ Node' = Node /\ at' = at /\ call' = call /\ z' = z /\ p' = p
          /\ answer' = answer /\ record' = record /\ node_count' = node_count /\ root' = root
          /\ left' = left /\ right' = right /\ key' = key
      BY <2>1 DEF vars, links, contents, Tree, Node, key
    <3>2. Phase' /\ Counted'
      BY <3>1 DEF IInv, Phase, Counted, Uncounted
    <3>3. \A below : Walking(below)' <=> Walking(below)
      BY <3>1 DEF Walking, Descends, Nears
    <3> QED BY <3>1, <3>2, <3>3 DEF IInv
  <2>2. CASE Begin
    BY <2>2, BeginInv
  <2>3. CASE Work
    BY <2>3, WalkInv, SplayInv, ReturnInv, LookupInv, InsertFoundInv, InsertMissedInv,
       InsertEndsInv, RemoveFoundInv, RemoveEndsInv DEF Work
  <2> QED BY <2>1, <2>2, <2>3 DEF Next
<1> QED
  BY <1>1, <1>2, PTL DEF Spec

-----------------------------------------------------------------------------
(* The fields are of their types, and node_count stays within the number   *)
(* of keys: the counting of tree_insert and tree_remove never drifts.      *)
THEOREM TypeCorrect == Spec => []TypeOK
<1>1. IInv => TypeOK
  <2> SUFFICES ASSUME IInv PROVE TypeOK
    OBVIOUS
  <2>1. Typed(Tree)
    BY DEF IInv, Shape
  <2>2. /\ {left, right, parent} \subseteq [Key -> Key \cup {Null}]
        /\ root \in Key \cup {Null}
    BY <2>1, TreeFacts DEF Typed
  <2>3. Cardinality(Node) <= Cardinality(Key) /\ Cardinality(Key) \in Nat
    BY KeyAssumption, FS_Subset, FS_CardinalityType DEF Node
  <2>4. node_count \in 0 .. Cardinality(Key)
    BY <2>3, NodeIsFinite DEF IInv, Counted, Uncounted
  <2> QED BY <2>2, <2>4 DEF TypeOK, IInv, Phase, Counted
<1> QED
  BY <1>1, Inductive, PTL

(* After every round of every loop the links are a search tree of exactly  *)
(* the filed keys: every node hangs from the root by the way its parent    *)
(* links name, on the side of each ancestor that its key belongs to.       *)
THEOREM StaysSearchTree == Spec => []SearchTree
<1>1. IInv => SearchTree
  <2> SUFFICES ASSUME IInv PROVE SearchTree
    OBVIOUS
  <2>1. PICK below : Shape(Tree, Node, below)
    BY DEF IInv
  <2>2. \A n \in Key \ Node : left[n] = Null /\ right[n] = Null /\ parent[n] = Null
    BY <2>1, TreeFacts DEF Shape, Loose
  <2>3. IF root = Null THEN Node = {} ELSE root \in Node /\ parent[root] = Null /\ below[root] = Node
    BY <2>1, TreeFacts DEF Shape
  <2>4. ASSUME NEW n \in Node
        PROVE  /\ (parent[n] = Null) <=> (n = root)
               /\ left[n] # Null => parent[left[n]] = n
               /\ right[n] # Null => parent[right[n]] = n
               /\ parent[n] # Null => n \in {left[parent[n]], right[parent[n]]}
    BY <2>1, NodeFacts, TreeFacts
  <2>5. ASSUME NEW n \in Node PROVE Hangs(n)
    <3>1. UpFrom(n) = {k \in Node : n \in below[k]}
      BY <2>1, Upward, TreeFacts DEF UpFrom
    <3>2. root \in UpFrom(n)
      BY <3>1, <2>3
    <3>3. ASSUME NEW a \in UpFrom(n) \ {n}
          PROVE  IF n < a THEN left[a] \in UpFrom(n) ELSE right[a] \in UpFrom(n)
      <4>1. a \in Node /\ n \in below[a] /\ a \in Int /\ n \in Int
        BY <2>1, <3>1, NodeFacts
      <4>2. CASE n < a
        <5>1. left[a] # Null /\ left[a] \in Node /\ below[left[a]] = Smaller(below[a], a)
          BY <2>1, <4>1, <4>2, NodeFacts, TreeFacts
        <5> QED BY <3>1, <4>1, <4>2, <5>1 DEF Smaller
      <4>3. CASE a < n
        <5>1. right[a] # Null /\ right[a] \in Node /\ below[right[a]] = Greater(below[a], a)
          BY <2>1, <4>1, <4>3, NodeFacts, TreeFacts
        <5> QED BY <3>1, <4>1, <4>3, <5>1 DEF Greater
      <4> QED BY <4>1, <4>2, <4>3, <3>3
    <3> QED BY <3>2, <3>3 DEF Hangs
  <2>6. at \in {"idle", "walk"} => node_count = Cardinality(Node)
    BY DEF IInv, Counted, Uncounted
  <2>7. root = Null <=> Node = {}
    BY <2>3
  <2> QED BY <2>2, <2>4, <2>5, <2>6, <2>7 DEF SearchTree
<1> QED
  BY <1>1, Inductive, PTL

-----------------------------------------------------------------------------
(* Refinement of OrderedMap: a call takes effect in one step, the one that *)
(* finds or misses its key (a removal: the one that cuts the node out);    *)
(* the walk and the rotations are stutters.                                *)
LEMMA BeginMaps == IInv /\ Begin => Map!Begin
<1> SUFFICES ASSUME IInv, Begin PROVE Map!Begin
  OBVIOUS
<1>1. call = NoCall
  BY DEF IInv, Phase, Begin
<1> QED
  BY <1>1 DEF Begin, Map!Begin, links, contents

(* An answer is given where a call may take effect.                        *)
LEMMA Effective ==
  ASSUME IInv, at = "walk" \/ (at = "splay" /\ call[1] = "tree_remove")
  PROVE  call # NoCall /\ answer = NoCall /\ key \in Key
<1>1. IsCall(call)
  BY DEF IInv, Phase
<1>2. answer = NoCall
  BY DEF IInv, Phase
<1> QED
  BY <1>1, <1>2, CallFacts DEF key

LEMMA FindMaps == IInv /\ FindFound /\ call[1] = "tree_find" => Map!Effect
<1> SUFFICES ASSUME IInv, FindFound, call[1] = "tree_find" PROVE Map!Effect
  OBVIOUS
<1>1. call # NoCall /\ answer = NoCall
  BY Effective DEF FindFound, Found
<1>2. answer' = <<record[call[2]]>> /\ UNCHANGED <<record, call>>
  BY DEF FindFound, Found, key, contents
<1> QED
  BY <1>1, <1>2 DEF Map!Effect

LEMMA MissMaps == IInv /\ (FindMissed \/ RemoveMissed) => Map!Effect
<1> SUFFICES ASSUME IInv, FindMissed \/ RemoveMissed PROVE Map!Effect
  OBVIOUS
<1>1. call # NoCall /\ answer = NoCall /\ key \in Key
  BY Effective DEF FindMissed, RemoveMissed, Missed
<1>2. PICK below : Walking(below)
  BY DEF IInv, FindMissed, RemoveMissed, Missed
<1>3. key \notin Node
  BY <1>2 DEF Walking, FindMissed, RemoveMissed, Missed
<1>4. record \in [Key -> Record \cup {NoRecord}]
  BY DEF IInv, Counted
<1>5. record[call[2]] = NoRecord /\ record = [record EXCEPT ![call[2]] = NoRecord]
  BY <1>1, <1>3, <1>4 DEF Node, key
<1>6. CASE FindMissed
  <2>1. call[1] = "tree_find" /\ answer' = <<record[call[2]]>> /\ UNCHANGED <<record, call>>
    BY <1>5, <1>6 DEF FindMissed, Missed, contents
  <2> QED BY <1>1, <2>1 DEF Map!Effect
<1>7. CASE RemoveMissed
  <2>1. call[1] = "tree_remove" /\ answer' = <<record[call[2]]>> /\ UNCHANGED <<record, call>>
    BY <1>5, <1>7 DEF RemoveMissed, Missed, contents
  <2> QED BY <1>1, <1>5, <2>1 DEF Map!Effect
<1> QED
  BY <1>6, <1>7

LEMMA InsertMaps == IInv /\ (InsertFound \/ InsertMissed) => Map!Effect
<1> SUFFICES ASSUME IInv, InsertFound \/ InsertMissed PROVE Map!Effect
  OBVIOUS
<1>1. call # NoCall /\ answer = NoCall
  BY Effective DEF InsertFound, InsertMissed, Found, Missed
<1>2. /\ call[1] = "tree_insert" /\ answer' = TRUE /\ UNCHANGED call
      /\ record' = [record EXCEPT ![call[2]] = call[3]]
  BY DEF InsertFound, InsertMissed, Found, Missed, key
<1> QED
  BY <1>1, <1>2 DEF Map!Effect

LEMMA RemoveMaps == IInv /\ RemoveEnds => Map!Effect
<1> SUFFICES ASSUME IInv, RemoveEnds PROVE Map!Effect
  OBVIOUS
<1>1. call # NoCall /\ answer = NoCall
  BY Effective DEF RemoveEnds
<1>2. z = call[2]
  BY DEF RemoveEnds, IInv, Phase, key
<1>3. /\ call[1] = "tree_remove" /\ answer' = <<record[call[2]]>> /\ UNCHANGED call
      /\ record' = [record EXCEPT ![call[2]] = NoRecord]
  BY <1>2 DEF RemoveEnds
<1> QED
  BY <1>1, <1>3 DEF Map!Effect

(* The nearest key is the greatest of the present ones not above k.        *)
LEMMA NearestIs ==
  ASSUME NEW k \in Int, NEW n \in Node, n <= k,
         \A j \in Node : j <= k => j <= n
  PROVE  Map!Nearest(k) = record[n]
<1> DEFINE B == {j \in Map!Present : j <= k}
<1>1. Map!Present = Node /\ Node \subseteq Int
  BY KeyAssumption DEF Map!Present, Node
<1>2. n \in B /\ \A j \in B : j <= n
  BY <1>1
<1>3. \A j \in B : (\A i \in B : i <= j) => j = n
  BY <1>1, <1>2
<1>4. (CHOOSE j \in B : \A i \in B : i <= j) = n
  <2> HIDE DEF B
  <2> QED BY <1>2, <1>3
<1>5. B # {}
  BY <1>2
<1> QED
  BY <1>4, <1>5 DEF Map!Nearest

LEMMA NearestMaps ==
  IInv /\ ((FindFound /\ call[1] = "tree_find_nearest") \/ NearestMissed) => Map!Effect
<1> SUFFICES ASSUME IInv, (FindFound /\ call[1] = "tree_find_nearest") \/ NearestMissed
             PROVE  Map!Effect
  OBVIOUS
<1>1. call # NoCall /\ answer = NoCall /\ key \in Key /\ key \in Int
  BY Effective, KeyAssumption DEF FindFound, NearestMissed, Found, Missed
<1>2. PICK below : Shape(Tree, Node, below) /\ Walking(below)
  BY DEF IInv, FindFound, NearestMissed, Found, Missed
<1>3. call[1] = "tree_find_nearest" /\ UNCHANGED <<record, call>> /\ Node \subseteq Int
  BY KeyAssumption DEF FindFound, NearestMissed, Missed, contents, Node
<1>4. answer' = <<Map!Nearest(key)>>
  <2>1. CASE FindFound
    <3>1. z = key /\ answer' = <<record[z]>>
      BY <2>1 DEF FindFound, Found
    <3>2. key \in Node
      BY <1>1, <1>2, <3>1, KeyAssumption DEF Walking
    <3> QED BY <1>1, <3>1, <3>2, NearestIs
  <2>2. CASE NearestMissed
    <3>1. z = Null /\ answer' = <<IF p = Null THEN NoRecord ELSE record[p]>>
      BY <2>2 DEF NearestMissed, Missed
    <3>2. /\ p # Null => p \in Node /\ p < key
          /\ \A k \in Node : k <= key => p # Null /\ k <= p
      BY <1>2, <1>3, <3>1 DEF Walking, Nears
    <3>3. CASE p = Null
      <4>1. {j \in Map!Present : j <= key} = {}
        BY <3>2, <3>3 DEF Map!Present, Node
      <4> QED BY <3>1, <3>3, <4>1 DEF Map!Nearest
    <3>4. CASE p # Null
      <4>1. p \in Node /\ p <= key /\ \A j \in Node : j <= key => j <= p
        <5>1. p \in Int /\ key \in Int /\ p < key
          BY <1>1, <1>3, <3>2, <3>4
        <5>2. p <= key
          BY <5>1
        <5> QED BY <3>2, <3>4, <5>2
      <4>2. Map!Nearest(key) = record[p]
        BY <1>1, <4>1, NearestIs
      <4> QED BY <3>1, <3>4, <4>2
    <3> QED BY <3>3, <3>4
  <2> QED BY <2>1, <2>2
<1> QED
  BY <1>1, <1>3, <1>4 DEF Map!Effect, key

(* The calls of a splay tree are those of an ordered map.                  *)
THEOREM ImplementsMap == Spec => ImplementsOrderedMap
<1>1. Init => Map!Init
  BY DEF Init, tree_new, Map!Init
<1>2. IInv /\ [Next]_vars => [Map!Next]_<<record, call, answer>>
  <2> SUFFICES ASSUME IInv, [Next]_vars PROVE Map!Next \/ UNCHANGED <<record, call, answer>>
    OBVIOUS
  <2>1. CASE Begin
    BY <2>1, BeginMaps DEF Map!Next
  <2>2. CASE Return
    <3>1. answer # NoCall
      BY <2>2 DEF Return, IInv, Phase
    <3> QED BY <2>2, <3>1 DEF Return, Map!Return, Map!Next, contents
  <2>3. CASE FindFound
    BY <2>3, FindMaps, NearestMaps DEF FindFound, Found, Map!Next
  <2>4. CASE FindMissed \/ RemoveMissed \/ InsertFound \/ InsertMissed \/ RemoveEnds \/ NearestMissed
    BY <2>4, MissMaps, InsertMaps, RemoveMaps, NearestMaps DEF Map!Next
  <2>5. CASE Walk \/ Splay \/ InsertEnds \/ RemoveFound \/ UNCHANGED vars
    BY <2>5 DEF Walk, Splay, InsertEnds, RemoveFound, vars, contents
  <2> QED BY <2>1, <2>2, <2>3, <2>4, <2>5 DEF Next, Work
<1> QED
  BY <1>1, <1>2, Inductive, PTL DEF Spec, ImplementsOrderedMap, Map!Spec

=============================================================================
