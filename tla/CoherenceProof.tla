--------------------------- MODULE CoherenceProof ---------------------------
(***************************************************************************)
(* Proofs about DirectoryCoherence, for any number of processors and       *)
(* blocks: types, what the directory tracks, what travels, and that no     *)
(* miss and no callback is ever lost.  Before them: that the home of a     *)
(* block, as the code computes it, is a processor there is.                *)
(***************************************************************************)
EXTENDS DirectoryCoherence, FiniteSetTheorems, WellFoundedInduction, TLAPS

-----------------------------------------------------------------------------
(* The homes: Home of the model is what findHomeProcessor answers.         *)
HP(WordBits, processorCount) == INSTANCE HomeProcessor

(* 2^n is the number of subsets of a set of n.                             *)
LEMMA PowersDouble ==
  ASSUME NEW n \in Nat
  PROVE  2 ^ n \in Nat /\ 2 ^ n > 0 /\ 2 ^ (n + 1) = 2 * 2 ^ n
<1> DEFINE A == 1 .. n
           B == 1 .. n + 1
           old == SUBSET A
           new == {X \in SUBSET B : n + 1 \in X}
           f == [X \in old |-> X \cup {n + 1}]
<1>1. /\ IsFiniteSet(A) /\ Cardinality(A) = n /\ IsFiniteSet(B) /\ Cardinality(B) = n + 1
  <2> DEFINE m == n + 1
  <2>1. 1 \in Int /\ n \in Int /\ m \in Int /\ ~(1 > m) /\ m - 1 + 1 = m /\ (1 > n => n = 0)
        /\ n - 1 + 1 = n
    OBVIOUS
  <2> HIDE DEF m
  <2>2. IsFiniteSet(1 .. m) /\ Cardinality(1 .. m) = m
    BY <2>1, FS_Interval
  <2>3. IsFiniteSet(1 .. n) /\ Cardinality(1 .. n) = n
    BY <2>1, FS_Interval
  <2> QED BY <2>2, <2>3 DEF m
<1>2. IsFiniteSet(old) /\ Cardinality(old) = 2 ^ n
  BY <1>1, FS_SUBSET, Zenon
<1>3. IsFiniteSet(SUBSET B) /\ Cardinality(SUBSET B) = 2 ^ (n + 1)
  <2> HIDE DEF B
  <2>1. IsFiniteSet(SUBSET B) /\ Cardinality(SUBSET B) = 2 ^ Cardinality(B)
    BY <1>1, FS_SUBSET, Zenon
  <2> QED BY <1>1, <2>1, Zenon
<1>4. f \in Bijection(old, new)
  <2>1. f \in [old -> new]
    OBVIOUS
  <2>2. ASSUME NEW X \in old, NEW Y \in old, f[X] = f[Y] PROVE X = Y
    <3>1. n + 1 \notin X /\ n + 1 \notin Y
      OBVIOUS
    <3>2. X \cup {n + 1} = Y \cup {n + 1}
      BY <2>2
    <3> HIDE DEF old, f
    <3> QED BY <3>1, <3>2
  <2>3. ASSUME NEW Y \in new PROVE \E X \in old : f[X] = Y
    <3>1. Y \ {n + 1} \in old
      OBVIOUS
    <3>2. (Y \ {n + 1}) \cup {n + 1} = Y
      OBVIOUS
    <3> QED BY <3>1, <3>2
  <2> HIDE DEF old, new, f
  <2> QED BY <2>1, <2>2, <2>3, Zenon DEF Bijection, Injection, Surjection, IsInjective
<1>5. IsFiniteSet(new) /\ Cardinality(new) = Cardinality(old)
  <2> HIDE DEF old, new, f
  <2>1. ExistsBijection(old, new)
    BY <1>4, Zenon DEF ExistsBijection
  <2> QED BY <1>2, <2>1, FS_Bijection, Zenon
<1>6. old \cup new = SUBSET B /\ old \cap new = {}
  <2>1. old \cap new = {}
    OBVIOUS
  <2>2. ASSUME NEW X \in SUBSET B PROVE X \in old \/ X \in new
    <3>1. CASE n + 1 \in X
      BY <3>1
    <3>2. CASE n + 1 \notin X
      <4>1. \A x \in X : x \in 1 .. n
        BY <3>2
      <4> QED BY <4>1
    <3> QED BY <3>1, <3>2
  <2>3. old \subseteq SUBSET B
    <3>1. A \subseteq B
      OBVIOUS
    <3> HIDE DEF A, B
    <3> QED BY <3>1
  <2> HIDE DEF A, B
  <2> QED BY <2>1, <2>2, <2>3
<1>7. Cardinality(SUBSET B) = Cardinality(old) + Cardinality(new)
  <2>0. Cardinality({}) = 0 /\ Cardinality(old) \in Nat /\ Cardinality(new) \in Nat
    <3> HIDE DEF old, new
    <3> QED BY <1>2, <1>5, FS_EmptySet, FS_CardinalityType
  <2>1. Cardinality(old \cup new) = Cardinality(old) + Cardinality(new) - Cardinality(old \cap new)
    <3> HIDE DEF old, new
    <3> QED BY <1>2, <1>5, FS_Union, Zenon
  <2>2. Cardinality(old \cap new) = 0
    BY <1>6, <2>0
  <2> DEFINE co == Cardinality(old)
             cn == Cardinality(new)
             cb == Cardinality(SUBSET B)
             ci == Cardinality(old \cap new)
  <2>3. cb = co + cn - ci /\ ci = 0 /\ co \in Nat /\ cn \in Nat
    BY <1>6, <2>0, <2>1, <2>2
  <2> HIDE DEF co, cn, cb, ci
  <2>4. cb = co + cn
    BY <2>3
  <2> QED BY <2>4 DEF cb, co, cn
<1>8. Cardinality(old) \in Nat /\ Cardinality(old) # 0
  <2>1. {} \in old
    OBVIOUS
  <2> HIDE DEF old
  <2> QED BY <1>2, <2>1, FS_CardinalityType, FS_EmptySet
<1> DEFINE p == 2 ^ n
           q == 2 ^ (n + 1)
           c == Cardinality(old)
<1>9. p = c /\ c \in Nat /\ c # 0 /\ q = c + c
  BY <1>2, <1>3, <1>5, <1>7, <1>8
<1> HIDE DEF p, q, c
<1>10. p \in Nat /\ p > 0 /\ q = 2 * p
  BY <1>9
<1> QED BY <1>10 DEF p, q

(* bitMask has the bits from lowbit to highbit.                            *)
LEMMA MaskIs ==
  ASSUME NEW W \in Nat, NEW N, NEW h \in 0 .. W - 1, NEW l \in 0 .. h
  PROVE  HP(W, N)!bitMask(h, l) = l .. h
<1> DEFINE bits == 0 .. W - 1
           mask1 == bits \ {W - 1}
           d == W - 1 - h
           right == {b - d : b \in {x \in mask1 : x >= d}}
           one == {b + h : b \in {x \in {0} : x + h < W}}
           lmask == {b + l : b \in {x \in bits : x + l < W}}
<1>1. HP(W, N)!bitMask(h, l) = (right \cup one) \cap lmask
  BY DEF HP!bitMask, HP!Bits, HP!ShiftLeft, HP!ShiftRight
<1>2. one = {h}
  OBVIOUS
<1>3. ASSUME NEW x PROVE x \in right <=> x \in 0 .. h - 1
  <2>1. ASSUME x \in right PROVE x \in 0 .. h - 1
    BY <2>1
  <2>2. ASSUME x \in 0 .. h - 1 PROVE x \in right
    <3>1. x + d \in mask1 /\ x + d >= d /\ (x + d) - d = x
      BY <2>2
    <3> QED BY <3>1
  <2> QED BY <2>1, <2>2
<1>4. ASSUME NEW x PROVE x \in lmask <=> x \in l .. W - 1
  <2>1. ASSUME x \in lmask PROVE x \in l .. W - 1
    BY <2>1
  <2>2. ASSUME x \in l .. W - 1 PROVE x \in lmask
    <3>1. x - l \in bits /\ (x - l) + l < W /\ (x - l) + l = x
      BY <2>2
    <3> QED BY <3>1
  <2> QED BY <2>1, <2>2
<1> HIDE DEF right, one, lmask
<1>5. (right \cup one) \cap lmask = l .. h
  BY <1>2, <1>3, <1>4
<1> QED BY <1>1, <1>5

(* A division has one answer.                                              *)
LEMMA DividesOnce ==
  ASSUME NEW x \in Nat, NEW d \in Nat, d > 0, NEW q \in Nat, NEW r \in Nat, r < d, x = d * q + r
  PROVE  x \div d = q /\ x % d = r
<1> DEFINE y == x \div d
           s == x % d
<1>1. y \in Int /\ s \in Nat /\ s < d /\ x = d * y + s
  OBVIOUS
<1> HIDE DEF y, s
<1>2. y = q
  <2>1. CASE y > q
    <3> DEFINE e == y - q - 1
    <3>1. e \in Nat /\ y = q + 1 + e
      BY <1>1, <2>1
    <3> HIDE DEF e
    <3>2. d * y = d * q + d + d * e /\ d * e >= 0
      BY <3>1
    <3> QED BY <1>1, <3>2
  <2>2. CASE y < q
    <3> DEFINE e == q - y - 1
    <3>1. e \in Nat /\ q = y + 1 + e
      BY <1>1, <2>2
    <3> HIDE DEF e
    <3>2. d * q = d * y + d + d * e /\ d * e >= 0
      BY <1>1, <3>1
    <3> QED BY <1>1, <3>2
  <2> QED BY <1>1, <2>1, <2>2
<1>3. s = r
  BY <1>1, <1>2
<1> QED BY <1>2, <1>3 DEF y, s

(* A number's remainder by the next power of two has one bit more.         *)
LEMMA NextBit ==
  ASSUME NEW x \in Nat, NEW k \in Nat
  PROVE  /\ x % 2 ^ k \in 0 .. 2 ^ k - 1
         /\ x % 2 ^ (k + 1) = (x % 2 ^ k) + (IF (x \div 2 ^ k) % 2 = 1 THEN 2 ^ k ELSE 0)
<1> DEFINE P == 2 ^ k
           R == 2 ^ (k + 1)
           y == x \div P
           s == x % P
           z == y \div 2
           b == y % 2
<1>1. P \in Nat /\ P > 0 /\ R = 2 * P
  BY PowersDouble
<1> HIDE DEF P, R
<1>2. y \in Nat /\ s \in Nat /\ s < P /\ x = P * y + s
  BY <1>1
<1> HIDE DEF y, s
<1>3. z \in Nat /\ b \in {0, 1} /\ y = 2 * z + b
  BY <1>2
<1> HIDE DEF z, b
<1> DEFINE t == IF b = 1 THEN P + s ELSE s
<1>4. t \in Nat /\ t < R
  BY <1>1, <1>2, <1>3
<1>5. P * y = R * z + (IF b = 1 THEN P ELSE 0)
  <2>1. P * (2 * z + b) = P * (2 * z) + P * b
    BY <1>1, <1>3
  <2>2. P * (2 * z) = (2 * P) * z
    BY <1>1, <1>3
  <2> QED BY <1>1, <1>3, <2>1, <2>2
<1>6. x = R * z + t
  <2>1. R * z \in Nat
    BY <1>1, <1>3
  <2> QED BY <1>1, <1>2, <1>3, <1>5, <2>1
<1>7. x % R = t
  <2> HIDE DEF t
  <2>1. R \in Nat /\ R > 0
    BY <1>1
  <2> QED BY <1>3, <1>4, <1>6, <2>1, DividesOnce
<1>8. x % R = s + (IF b = 1 THEN P ELSE 0) /\ s \in 0 .. P - 1
  BY <1>1, <1>2, <1>7
<1> QED BY <1>8 DEF P, R, y, s, b

(* What holds at 0 and is handed on holds up to n.                         *)
LEMMA Stepwise ==
  ASSUME NEW n \in Nat, NEW G, 0 \in G, \A k \in 0 .. n - 1 : k \in G => k + 1 \in G
  PROVE  \A k \in 0 .. n : k \in G
<1> DEFINE B == {k \in 0 .. n : k \notin G}
<1>1. CASE B = {}
  BY <1>1
<1>2. CASE B # {}
  <2>1. B \subseteq Nat
    OBVIOUS
  <2>2. PICK x \in B : \A y \in B : ~(<<y, x>> \in OpToRel(<, Nat))
    <3> HIDE DEF B
    <3> QED BY <1>2, <2>1, NatLessThanWellFounded, WFMin
  <2>3. x \in 1 .. n /\ x - 1 \in 0 .. n - 1
    OBVIOUS
  <2>4. x - 1 \in B
    BY <2>3
  <2>5. <<x - 1, x>> \in OpToRel(<, Nat)
    <3> DEFINE y == x - 1
    <3>1. <<y, x>> \in Nat \X Nat /\ <<y, x>>[1] = y /\ <<y, x>>[2] = x /\ y < x
      BY <2>3
    <3> HIDE DEF y
    <3>2. <<y, x>> \in OpToRel(<, Nat)
      BY <3>1, Zenon DEF OpToRel
    <3> QED BY <3>2 DEF y
  <2> QED BY <2>2, <2>4, <2>5
<1> QED BY <1>1, <1>2

(* The number of a word, from its low bits up.                             *)
Counts(low, w, m) ==
  /\ low \in [0 .. m -> Nat] /\ low[0] = 0
  /\ \A k \in 0 .. m - 1 : low[k + 1] = low[k] + (IF k \in w THEN 2 ^ k ELSE 0)

LEMMA NumberCounts ==
  ASSUME NEW W \in Nat, NEW N, NEW w
  PROVE  \E low : Counts(low, w, W) /\ HP(W, N)!NumberOf(w) = low[W]
<1> DEFINE G == {m \in 0 .. W : \E low : Counts(low, w, m)}
           V(k) == IF k \in w THEN 2 ^ k ELSE 0
           body(g) == [k \in 0 .. W |-> IF k = 0 THEN 0 ELSE g[k - 1] + V(k - 1)]
           number == CHOOSE g : g = body(g)
<1>1. 0 \in G
  <2> DEFINE low == [k \in 0 .. 0 |-> 0]
  <2>1. Counts(low, w, 0)
    BY DEF Counts
  <2> QED BY <2>1
<1>2. \A k \in Nat : V(k) \in Nat
  BY PowersDouble
<1>3. ASSUME NEW m \in 0 .. W - 1, m \in G PROVE m + 1 \in G
  <2>1. PICK low : Counts(low, w, m)
    BY <1>3
  <2> DEFINE next == low[m] + V(m)
             more == [k \in 0 .. m + 1 |-> IF k <= m THEN low[k] ELSE next]
  <2>2. next \in Nat
    <3>1. low[m] \in Nat /\ V(m) \in Nat
      BY <1>2, <2>1 DEF Counts
    <3> HIDE DEF V
    <3> QED BY <3>1
  <2> HIDE DEF next
  <2>3. more \in [0 .. m + 1 -> Nat] /\ more[0] = 0
    BY <2>1, <2>2 DEF Counts
  <2>4. ASSUME NEW k \in 0 .. (m + 1) - 1 PROVE more[k + 1] = more[k] + V(k)
    <3>1. CASE k + 1 <= m
      <4>1. low[k + 1] = low[k] + V(k)
        BY <2>1, <3>1 DEF Counts
      <4> HIDE DEF V
      <4> QED BY <3>1, <4>1
    <3>2. CASE k = m
      <4> HIDE DEF V
      <4> QED BY <3>2 DEF next
    <3> QED BY <3>1, <3>2
  <2>5. Counts(more, w, m + 1)
    BY <2>3, <2>4 DEF Counts
  <2> QED BY <2>5
<1>4. W \in G
  <2>1. \A k \in 0 .. W : k \in G
    <3> HIDE DEF G
    <3> QED BY <1>1, <1>3, Stepwise
  <2> QED BY <2>1
<1>5. HP(W, N)!NumberOf(w) = number[W]
  BY DEF HP!NumberOf
<1>6. PICK low : Counts(low, w, W)
  BY <1>4
<1>7. low = body(low)
  <2>1. ASSUME NEW k \in 0 .. W PROVE low[k] = IF k = 0 THEN 0 ELSE low[k - 1] + V(k - 1)
    <3>1. CASE k = 0
      BY <1>6, <3>1 DEF Counts
    <3>2. CASE k # 0
      <4> DEFINE j == k - 1
      <4>1. j \in 0 .. W - 1 /\ j + 1 = k
        BY <3>2
      <4> HIDE DEF j
      <4>2. low[j + 1] = low[j] + V(j)
        BY <1>6, <4>1 DEF Counts
      <4> QED BY <3>2, <4>1, <4>2 DEF j
    <3> QED BY <3>1, <3>2
  <2>2. low \in [0 .. W -> Nat]
    BY <1>6 DEF Counts
  <2> HIDE DEF V
  <2> QED BY <2>1, <2>2
<1>8. number = body(number)
  <2> HIDE DEF body
  <2> QED BY <1>7
<1> HIDE DEF number
<1> DEFINE H == {k \in 0 .. W : number[k] = low[k]}
<1>9. 0 \in H
  <2>1. number[0] = 0
    BY <1>8
  <2> QED BY <1>6, <2>1 DEF Counts
<1>10. ASSUME NEW k \in 0 .. W - 1, k \in H PROVE k + 1 \in H
  <2> DEFINE j == k + 1
  <2>1. j \in 0 .. W /\ j # 0 /\ j - 1 = k
    OBVIOUS
  <2> HIDE DEF j
  <2>2. number[j] = number[k] + V(k)
    <3>1. number[j] = number[j - 1] + V(j - 1)
      <4> HIDE DEF V
      <4> QED BY <1>8, <2>1
    <3> QED BY <2>1, <3>1
  <2>3. low[j] = low[k] + V(k)
    BY <1>6 DEF Counts, j
  <2>4. number[k] = low[k]
    BY <1>10
  <2> QED BY <2>1, <2>2, <2>3, <2>4 DEF j
<1>11. number[W] = low[W]
  <2>1. \A k \in 0 .. W : k \in H
    <3> HIDE DEF H
    <3> QED BY <1>9, <1>10, Stepwise
  <2> QED BY <2>1
<1> QED BY <1>5, <1>6, <1>11

(* The k low bits of a number are its remainder by 2^k.                    *)
LEMMA LowBits ==
  ASSUME NEW W \in Nat, NEW N, NEW k \in 0 .. W, NEW x \in Nat
  PROVE  HP(W, N)!NumberOf((0 .. k - 1) \cap HP(W, N)!WordOf(x)) = x % 2 ^ k
<1> DEFINE w == (0 .. k - 1) \cap HP(W, N)!WordOf(x)
<1>1. PICK low : Counts(low, w, W) /\ HP(W, N)!NumberOf(w) = low[W]
  <2> HIDE DEF w
  <2> QED BY NumberCounts
<1>2. \A j \in 0 .. W - 1 : j \in w <=> j < k /\ (x \div 2 ^ j) % 2 = 1
  BY DEF HP!WordOf, HP!Bits
<1> HIDE DEF w
<1> DEFINE G == {j \in 0 .. W : low[j] = x % 2 ^ (IF j <= k THEN j ELSE k)}
<1>3. 0 \in G
  <2>1. x % 1 = 0
    OBVIOUS
  <2>2. 2 ^ 0 = 1
    OBVIOUS
  <2>3. x % 2 ^ 0 = 0
    BY <2>1, <2>2
  <2> QED BY <1>1, <2>3 DEF Counts
<1>4. ASSUME NEW j \in 0 .. W - 1, j \in G PROVE j + 1 \in G
  <2>1. low[j + 1] = low[j] + (IF j \in w THEN 2 ^ j ELSE 0)
    BY <1>1 DEF Counts
  <2>2. low[j] \in Nat
    BY <1>1 DEF Counts
  <2>3. CASE j < k
    <3>1. low[j] = x % 2 ^ j
      BY <1>4, <2>3
    <3>2. x % 2 ^ (j + 1) = (x % 2 ^ j) + (IF (x \div 2 ^ j) % 2 = 1 THEN 2 ^ j ELSE 0)
      <4>1. j \in Nat
        OBVIOUS
      <4> QED BY <4>1, NextBit, Zenon
    <3>3. low[j + 1] = x % 2 ^ (j + 1)
      BY <1>2, <2>1, <2>3, <3>1, <3>2
    <3> QED BY <2>3, <3>3
  <2>4. CASE j >= k
    <3>1. low[j] = x % 2 ^ k
      BY <1>4, <2>4
    <3>2. low[j + 1] = low[j]
      BY <1>2, <2>1, <2>2, <2>4
    <3> QED BY <2>4, <3>1, <3>2
  <2> QED BY <2>3, <2>4
<1>5. \A j \in 0 .. W : j \in G
  <2> HIDE DEF G
  <2> QED BY <1>3, <1>4, Stepwise
<1>6. low[W] = x % 2 ^ k
  <2>1. W \in G
    BY <1>5
  <2> QED BY <2>1
<1> QED BY <1>1, <1>6 DEF w

LEMMA PowersGrow ==
  ASSUME NEW m \in Nat, NEW n \in Nat, m <= n
  PROVE  2 ^ m <= 2 ^ n
<1> DEFINE d == n - m
           G == {k \in 0 .. d : 2 ^ m <= 2 ^ (m + k)}
<1>1. d \in Nat /\ m + d = n
  OBVIOUS
<1> HIDE DEF d
<1>2. 0 \in G
  <2>1. 2 ^ m \in Nat /\ m + 0 = m
    BY PowersDouble
  <2> QED BY <1>1, <2>1
<1>3. ASSUME NEW k \in 0 .. d - 1, k \in G PROVE k + 1 \in G
  <2> DEFINE j == m + k
             p == 2 ^ m
             q == 2 ^ j
             r == 2 ^ (j + 1)
  <2>1. j \in Nat /\ m + (k + 1) = j + 1 /\ k + 1 \in 0 .. d
    BY <1>1
  <2>2. p <= q
    BY <1>3
  <2> HIDE DEF j
  <2>3. p \in Nat /\ q \in Nat /\ r = 2 * q
    BY <2>1, PowersDouble
  <2> HIDE DEF p, q, r
  <2>4. p <= r
    BY <2>2, <2>3
  <2>5. 2 ^ m <= 2 ^ (m + (k + 1))
    BY <2>1, <2>4 DEF p, r
  <2> QED BY <2>1, <2>5
<1>4. \A k \in 0 .. d : k \in G
  <2> HIDE DEF G
  <2> QED BY <1>1, <1>2, <1>3, Stepwise
<1>5. d \in G
  BY <1>1, <1>4
<1> QED BY <1>1, <1>5

(* The logarithm of each number up to m, as the loop of mylog counts it.   *)
Halves(log, m) ==
  /\ log \in [0 .. m -> Nat]
  /\ \A x \in 0 .. m : log[x] = IF x <= 1 THEN 0 ELSE 1 + log[x \div 2]

LEMMA Half ==
  ASSUME NEW x \in Nat, x > 1
  PROVE  x \div 2 \in 1 .. x - 1 /\ 2 * (x \div 2) <= x /\ x < 2 * (x \div 2) + 2
OBVIOUS

LEMMA LogHalves ==
  ASSUME NEW W, NEW N \in Nat
  PROVE  Halves(HP(W, N)!mylog, N)
<1> DEFINE G == {m \in 0 .. N : \E log : Halves(log, m)}
           body(g) == [x \in 0 .. N |-> IF x <= 1 THEN 0 ELSE 1 + g[x \div 2]]
           log0 == CHOOSE g : g = body(g)
<1>1. 0 \in G
  <2> DEFINE log == [k \in 0 .. 0 |-> 0]
  <2>1. Halves(log, 0)
    BY DEF Halves
  <2> QED BY <2>1
<1>2. ASSUME NEW m \in 0 .. N - 1, m \in G PROVE m + 1 \in G
  <2>1. PICK log : Halves(log, m)
    BY <1>2
  <2> DEFINE n == m + 1
             h == n \div 2
             next == IF n <= 1 THEN 0 ELSE 1 + log[h]
             more == [x \in 0 .. n |-> IF x <= m THEN log[x] ELSE next]
  <2>2. n \in Nat /\ n - 1 = m /\ 0 .. n = (0 .. m) \cup {n} /\ n \notin 0 .. m
    OBVIOUS
  <2>3. n > 1 => h \in 0 .. m
    <3> SUFFICES ASSUME n > 1 PROVE h \in 0 .. m
      OBVIOUS
    <3>1. h \in 1 .. n - 1
      <4> HIDE DEF n
      <4> QED BY <2>2, Half
    <3> HIDE DEF h, n
    <3> QED BY <2>2, <3>1
  <2>4. next \in Nat
    <3>1. n > 1 => log[h] \in Nat
      <4> HIDE DEF h, n
      <4> QED BY <2>1, <2>3 DEF Halves
    <3> HIDE DEF h
    <3> QED BY <3>1
  <2> HIDE DEF h, n
  <2>5. ASSUME NEW x \in 0 .. n PROVE more[x] = IF x <= 1 THEN 0 ELSE 1 + more[x \div 2]
    <3>1. CASE x = n
      <4>1. more[n] = next
        BY <2>2
      <4>2. n > 1 => more[h] = log[h]
        <5> HIDE DEF next
        <5> QED BY <2>2, <2>3
      <4>3. next = IF n <= 1 THEN 0 ELSE 1 + more[h]
        <5> HIDE DEF more
        <5> QED BY <2>2, <4>2
      <4> HIDE DEF more, next
      <4> QED BY <3>1, <4>1, <4>3 DEF h
    <3>2. CASE x # n
      <4>1. x \in 0 .. m /\ x \in Nat
        BY <2>2, <3>2
      <4>2. x > 1 => x \div 2 \in 0 .. m
        <5> SUFFICES ASSUME x > 1 PROVE x \div 2 \in 0 .. m
          OBVIOUS
        <5>1. x \div 2 \in 1 .. x - 1
          BY <4>1, Half
        <5> QED BY <4>1, <5>1
      <4>3. log[x] = IF x <= 1 THEN 0 ELSE 1 + log[x \div 2]
        BY <2>1, <4>1 DEF Halves
      <4> DEFINE y == x \div 2
      <4>4. x > 1 => y \in 0 .. m
        BY <4>2
      <4>5. log[x] = IF x <= 1 THEN 0 ELSE 1 + log[y]
        BY <4>3
      <4> HIDE DEF y, next
      <4>6. more[x] = log[x] /\ (x > 1 => more[y] = log[y])
        BY <2>2, <4>1, <4>4
      <4>7. more[x] = IF x <= 1 THEN 0 ELSE 1 + more[y]
        <5> HIDE DEF more
        <5> QED BY <4>1, <4>5, <4>6
      <4> QED BY <4>7 DEF y
    <3> QED BY <3>1, <3>2
  <2>6. more \in [0 .. n -> Nat]
    <3> HIDE DEF next
    <3> QED BY <2>1, <2>4 DEF Halves
  <2>7. Halves(more, n)
    <3> HIDE DEF more
    <3> QED BY <2>5, <2>6 DEF Halves
  <2>8. n \in 0 .. N
    BY DEF n
  <2> QED BY <2>7, <2>8 DEF n
<1>3. N \in G
  <2>1. \A m \in 0 .. N : m \in G
    <3> HIDE DEF G
    <3> QED BY <1>1, <1>2, Stepwise
  <2> QED BY <2>1
<1>4. PICK log : Halves(log, N)
  BY <1>3
<1>5. log = body(log)
  BY <1>4 DEF Halves
<1>6. log0 = body(log0)
  <2> HIDE DEF body
  <2> QED BY <1>5
<1>7. HP(W, N)!mylog = log0
  BY DEF HP!mylog
<1> HIDE DEF log0
(* Both agree, as what is halved is smaller.                               *)
<1> DEFINE H == {m \in 0 .. N : \A x \in 0 .. m : log0[x] = log[x]}
<1>8. 0 \in H
  BY <1>5, <1>6
<1>9. ASSUME NEW m \in 0 .. N - 1, m \in H PROVE m + 1 \in H
  <2> DEFINE n == m + 1
             h == n \div 2
  <2>1. n \in 0 .. N /\ n \in Nat /\ n - 1 = m /\ 0 .. n = (0 .. m) \cup {n}
    OBVIOUS
  <2> HIDE DEF n
  <2>2. n > 1 => h \in 0 .. m
    <3> SUFFICES ASSUME n > 1 PROVE h \in 0 .. m
      OBVIOUS
    <3>1. h \in 1 .. n - 1
      BY <2>1, Half
    <3> HIDE DEF h
    <3> QED BY <2>1, <3>1
  <2>3. /\ log0[n] = IF n <= 1 THEN 0 ELSE 1 + log0[h]
        /\ log[n] = IF n <= 1 THEN 0 ELSE 1 + log[h]
    BY <1>5, <1>6, <2>1
  <2> HIDE DEF h
  <2>4. log0[n] = log[n]
    BY <1>9, <2>1, <2>2, <2>3
  <2> QED BY <1>9, <2>1, <2>4 DEF n
<1>10. \A m \in 0 .. N : m \in H
  <2> HIDE DEF H
  <2> QED BY <1>8, <1>9, Stepwise
<1>11. \A x \in 0 .. N : log0[x] = log[x]
  <2>1. N \in H
    BY <1>10
  <2> QED BY <2>1
<1>12. log0 = log
  <2>1. log0 = [x \in 0 .. N |-> log0[x]]
    BY <1>6
  <2>2. log = [x \in 0 .. N |-> log[x]]
    BY <1>5
  <2> QED BY <1>11, <2>1, <2>2
<1> QED BY <1>4, <1>7, <1>12

(* mylog is the logarithm, rounded down.                                   *)
LEMMA LogIs ==
  ASSUME NEW W, NEW N \in Nat, N > 0
  PROVE  LET k == HP(W, N)!mylog[N]
         IN  k \in Nat /\ 2 ^ k <= N /\ N < 2 ^ (k + 1) /\ (N > 1 => k > 0)
<1> DEFINE log == HP(W, N)!mylog
           Fits(x) == 2 ^ log[x] <= x /\ x < 2 ^ (log[x] + 1)
           G == {m \in 0 .. N : \A x \in 1 .. m : Fits(x)}
<1>1. Halves(log, N)
  BY LogHalves
<1> HIDE DEF log
<1>2. 0 \in G
  OBVIOUS
<1>3. ASSUME NEW m \in 0 .. N - 1, m \in G PROVE m + 1 \in G
  <2> DEFINE n == m + 1
             h == n \div 2
  <2>1. n \in 0 .. N /\ n \in Nat /\ n > 0 /\ n - 1 = m /\ 1 .. n = (1 .. m) \cup {n}
    OBVIOUS
  <2> HIDE DEF n
  <2>2. CASE n = 1
    <3>1. log[n] = 0
      BY <1>1, <2>1, <2>2 DEF Halves
    <3>2. 2 ^ 0 = 1 /\ 2 ^ (0 + 1) = 2 * 2 ^ 0
      BY PowersDouble
    <3>3. Fits(n)
      BY <2>2, <3>1, <3>2
    <3> QED BY <1>3, <2>1, <3>3 DEF n
  <2>3. CASE n > 1
    <3>1. h \in 1 .. m /\ 2 * h <= n /\ n < 2 * h + 2
      BY <2>1, <2>3, Half
    <3>2. log[n] = 1 + log[h]
      BY <1>1, <2>1, <2>3 DEF Halves
    <3> HIDE DEF h
    <3>3. Fits(h)
      BY <1>3, <3>1
    <3>4. log[h] \in Nat
      BY <1>1, <3>1 DEF Halves
    <3> DEFINE j == log[h]
               p == 2 ^ j
               q == 2 ^ (j + 1)
               r == 2 ^ (j + 1 + 1)
    <3>5. p \in Nat /\ q = 2 * p /\ r = 2 * q /\ q \in Nat
      <4> HIDE DEF j
      <4>1. j \in Nat /\ j + 1 \in Nat
        BY <3>4 DEF j
      <4> QED BY <4>1, PowersDouble
    <3>6. p <= h /\ h < q
      BY <3>3
    <3>7. 2 ^ log[n] = q /\ 2 ^ (log[n] + 1) = r
      <4>1. log[n] = j + 1
        BY <3>2, <3>4
      <4> HIDE DEF j
      <4> QED BY <4>1
    <3> HIDE DEF j, p, q, r, Fits
    <3>8. q <= n /\ n < r
      BY <2>1, <3>1, <3>5, <3>6
    <3>9. Fits(n)
      BY <3>7, <3>8 DEF Fits
    <3> QED BY <1>3, <2>1, <3>9 DEF n
  <2> QED BY <2>1, <2>2, <2>3
<1>4. \A m \in 0 .. N : m \in G
  <2> HIDE DEF G
  <2> QED BY <1>2, <1>3, Stepwise
<1>5. Fits(N)
  <2>1. N \in G
    BY <1>4
  <2> QED BY <2>1
<1>6. log[N] \in Nat
  BY <1>1 DEF Halves
<1>7. N > 1 => log[N] > 0
  <2> SUFFICES ASSUME N > 1 PROVE log[N] > 0
    OBVIOUS
  <2> DEFINE h == N \div 2
  <2>1. h \in 1 .. N - 1
    BY Half
  <2>2. log[N] = 1 + log[h]
    BY <1>1 DEF Halves
  <2> HIDE DEF h
  <2>3. log[h] \in Nat
    BY <1>1, <2>1 DEF Halves
  <2> QED BY <2>2, <2>3
<1> QED BY <1>5, <1>6, <1>7 DEF log

(* findHomeProcessor answers a processor there is: the number of the block *)
(* modulo the largest power of two that is not above processorCount, so    *)
(* that the processors from that power on are the home of nothing.  It     *)
(* takes two processors, fewer than a word has values, and any block.      *)
THEOREM HomeIsAProcessor ==
  ASSUME NEW WordBits \in Nat, NEW processorCount \in Nat,
         1 < processorCount, processorCount < 2 ^ WordBits, NEW block \in Nat
  PROVE  LET k    == HP(WordBits, processorCount)!mylog[processorCount]
             home == HP(WordBits, processorCount)!findHomeProcessor(block)
         IN  /\ 2 ^ k <= processorCount /\ processorCount < 2 ^ (k + 1)
             /\ home = block % 2 ^ k
             /\ home \in 0 .. processorCount - 1
<1> DEFINE W == WordBits
           N == processorCount
           k == HP(W, N)!mylog[N]
<1>1. k \in Nat /\ 2 ^ k <= N /\ N < 2 ^ (k + 1) /\ k > 0
  BY LogIs
<1>2. HP(W, N)!findHomeProcessor(block)
        = HP(W, N)!NumberOf(HP(W, N)!bitMask(k - 1, 0) \cap HP(W, N)!WordOf(block))
  BY DEF HP!findHomeProcessor
<1> HIDE DEF k
<1>3. k < W
  <2>1. CASE k >= W
    <3>1. 2 ^ W <= 2 ^ k
      BY <1>1, <2>1, PowersGrow
    <3> DEFINE p == 2 ^ W
               q == 2 ^ k
    <3>2. p \in Nat /\ q \in Nat /\ p <= q /\ q <= N /\ N < p
      BY <1>1, <3>1, PowersDouble
    <3> HIDE DEF p, q
    <3> QED BY <3>2
  <2> QED BY <1>1, <2>1
<1>4. HP(W, N)!bitMask(k - 1, 0) = 0 .. k - 1
  <2> DEFINE h == k - 1
  <2>1. h \in 0 .. W - 1 /\ 0 \in 0 .. h
    BY <1>1, <1>3
  <2> HIDE DEF h
  <2>2. HP(W, N)!bitMask(h, 0) = 0 .. h
    BY <2>1, MaskIs
  <2> QED BY <2>2 DEF h
<1>5. HP(W, N)!findHomeProcessor(block) = block % 2 ^ k
  <2>1. HP(W, N)!NumberOf((0 .. k - 1) \cap HP(W, N)!WordOf(block)) = block % 2 ^ k
    BY <1>1, <1>3, LowBits
  <2> QED BY <1>2, <1>4, <2>1
<1>6. block % 2 ^ k \in 0 .. N - 1
  <2> DEFINE p == 2 ^ k
             r == block % p
  <2>1. p \in Nat /\ r \in 0 .. p - 1 /\ p <= N
    BY <1>1, NextBit, PowersDouble
  <2> HIDE DEF p, r
  <2>2. r \in 0 .. N - 1
    BY <2>1
  <2> QED BY <2>2 DEF p, r
<1> QED BY <1>1, <1>5, <1>6 DEF k

-----------------------------------------------------------------------------
(* What one step does to the bag of travelling packets.                    *)

(* The packets of a finite sequence form a bag with just these elements.   *)
LEMMA SentBag ==
  ASSUME NEW outs, NEW n \in Nat, DOMAIN outs = 1 .. n
  PROVE  /\ IsABag(Sent(outs))
         /\ DOMAIN Sent(outs) = {outs[i] : i \in DOMAIN outs}
<1> DEFINE At(o) == {i \in DOMAIN outs : outs[i] = o}
<1>1. ASSUME NEW o \in {outs[i] : i \in DOMAIN outs}
      PROVE  Cardinality(At(o)) \in Nat /\ Cardinality(At(o)) > 0
  <2>1. IsFiniteSet(1 .. n)
    <3>1. 1 \in Int /\ n \in Int
      OBVIOUS
    <3> QED BY <3>1, FS_Interval, Zenon
  <2>2. At(o) \in SUBSET (1 .. n) /\ At(o) # {}
    BY <1>1
  <2>3. IsFiniteSet(At(o))
    BY <2>1, <2>2, FS_Subset
  <2>4. Cardinality(At(o)) \in Nat /\ Cardinality(At(o)) # 0
    BY <2>2, <2>3, FS_CardinalityType, FS_EmptySet
  <2> HIDE DEF At
  <2> QED BY <2>4
<1> QED
  BY <1>1 DEF Sent, IsABag

LEMMA SentNothing == IsABag(Sent(<<>>)) /\ DOMAIN Sent(<<>>) = {}
<1> DEFINE outs == <<>>
<1>1. 0 \in Nat /\ DOMAIN outs = 1 .. 0 /\ {outs[i] : i \in DOMAIN outs} = {}
  OBVIOUS
<1> HIDE DEF outs
<1>2. IsABag(Sent(outs)) /\ DOMAIN Sent(outs) = {outs[i] : i \in DOMAIN outs}
  BY <1>1, SentBag, Zenon
<1> QED BY <1>1, <1>2 DEF outs

LEMMA SentOne ==
  ASSUME NEW o
  PROVE  IsABag(Sent(<<o>>)) /\ DOMAIN Sent(<<o>>) = {o}
<1> DEFINE outs == <<o>>
<1>1. 1 \in Nat /\ DOMAIN outs = 1 .. 1 /\ {outs[i] : i \in DOMAIN outs} = {o}
  OBVIOUS
<1> HIDE DEF outs
<1>2. IsABag(Sent(outs)) /\ DOMAIN Sent(outs) = {outs[i] : i \in DOMAIN outs}
  BY <1>1, SentBag, Zenon
<1> QED BY <1>1, <1>2 DEF outs

LEMMA SentTwice ==
  ASSUME NEW o
  PROVE  IsABag(Sent(<<o, o>>)) /\ DOMAIN Sent(<<o, o>>) = {o}
<1> DEFINE outs == <<o, o>>
<1>1. 2 \in Nat /\ DOMAIN outs = 1 .. 2 /\ {outs[i] : i \in DOMAIN outs} = {o}
  OBVIOUS
<1> HIDE DEF outs
<1>2. IsABag(Sent(outs)) /\ DOMAIN Sent(outs) = {outs[i] : i \in DOMAIN outs}
  BY <1>1, SentBag, Zenon
<1> QED BY <1>1, <1>2 DEF outs

(* Handing over packets keeps what travels and adds them.                  *)
LEMMA BagSend ==
  ASSUME NEW b, IsABag(b), NEW s, IsABag(s), NEW c, c = b (+) s
  PROVE  IsABag(c) /\ DOMAIN c = DOMAIN b \cup DOMAIN s
BY DEF IsABag, (+)

(* Delivering one copy keeps everything else.                              *)
LEMMA BagTake ==
  ASSUME NEW b, IsABag(b), NEW o \in DOMAIN b, NEW c, c = b (-) SetToBag({o})
  PROVE  /\ IsABag(c)
         /\ DOMAIN c \subseteq DOMAIN b
         /\ DOMAIN b \ {o} \subseteq DOMAIN c
BY DEF IsABag, (-), SetToBag

-----------------------------------------------------------------------------
(* What the handlers answer.                                               *)

(* cacheDirectory answers with a state, and asks the home only when it     *)
(* gives no permission to a processor elsewhere.                           *)
LEMMA AccessAnswer ==
  ASSUME TypeOK, NEW p \in Proc, NEW isRead \in BOOLEAN, NEW l \in Line
  PROVE  LET c == cacheState[p][l]
             a == Answer(p, isRead, l)
         IN  /\ a.next \in CacheState
             /\ a.perm \in BOOLEAN
             /\ a.sent \in {"NO_REQ", "BUSRD", "BUSWR"}
             /\ a.sent # "NO_REQ" => Home[l] # p
             /\ a.perm <=> a.next \in Stable
             /\ c \in Transient => a.next = c
             /\ Home[l] = p /\ c \in Stable => a.next \in Stable
             /\ a.next \in Transient /\ c \in Stable => a.sent # "NO_REQ"
             /\ c # "INVALID" => a.next # "INVALID"
             /\ a.sent # "NO_REQ" => c \in Stable /\ a.next \in Transient
             /\ Home[l] # p => a.next # "INVALID"
<1> DEFINE c == cacheState[p][l]
           a == Answer(p, isRead, l)
           atHome == Home[l] = p
<1>1. c \in CacheState /\ atHome \in BOOLEAN
  BY DEF TypeOK
<1>2. a = CacheDirectory(isRead, c, atHome)
  BY DEF Answer
<1> HIDE DEF a, c, atHome
<1>3. /\ a.next \in CacheState
      /\ a.perm \in BOOLEAN
      /\ a.sent \in {"NO_REQ", "BUSRD", "BUSWR"}
      /\ a.sent # "NO_REQ" => ~atHome
      /\ a.perm <=> a.next \in Stable
      /\ c \in Transient => a.next = c
      /\ atHome /\ c \in Stable => a.next \in Stable
      /\ a.next \in Transient /\ c \in Stable => a.sent # "NO_REQ"
      /\ c # "INVALID" => a.next # "INVALID"
      /\ a.sent # "NO_REQ" => c \in Stable /\ a.next \in Transient
      /\ ~atHome => a.next # "INVALID"
  BY <1>1, <1>2 DEF CacheDirectory, Grant, Await, CacheState, Stable, Transient
<1> QED BY <1>3 DEF a, c, atHome

(* processCache keeps a block that does not wait as it is, but for a       *)
(* modified one that becomes shared, and ends a wait only with data.       *)
LEMMA ProcessCacheAnswer ==
  ASSUME NEW c \in CacheState, NEW t
  PROVE  /\ ProcessCache(c, t) \in CacheState
         /\ c \in Stable => ProcessCache(c, t) \in Stable
         /\ c \in Transient /\ Fills(c, t) => ProcessCache(c, t) \in Stable
         /\ ~Fills(c, t) /\ c \in Transient => ProcessCache(c, t) = c
         /\ Fills(c, t) <=> (c \in Transient /\ t = "DATA")
         /\ c = "INVALID" <=> ProcessCache(c, t) = "INVALID"
BY DEF ProcessCache, Fills, CacheState, Stable, Transient

(* A directory slice that only ever names its own node answers by data,    *)
(* sent from that node, or not at all.                                     *)
LEMMA DispatchAtHome ==
  ASSUME NEW h \in Proc, NEW T \in SUBSET {h}, NEW t, NEW c, NEW l, NEW r
  PROVE  /\ T # {} /\ SendsDataBack(c, t) =>
              Dispatch(T, t, h, c, l, r) = <<Out(r, Msg("DATA", l, h))>>
         /\ ~(T # {} /\ SendsDataBack(c, t)) => Dispatch(T, t, h, c, l, r) = <<>>
<1> h \in Nat
  BY ProcAssumption
<1>1. Cardinality({}) = 0 /\ Cardinality({h}) = 1
  BY FS_EmptySet, FS_Singleton, Zenon
<1>2. InOrder({}) = <<>>
  BY <1>1 DEF InOrder
<1>3. InOrder({h}) = <<h>>
  <2>1. {y \in {h} : y < h} = {}
    OBVIOUS
  <2>2. (CHOOSE x \in {h} : Cardinality({y \in {h} : y < x}) = 1 - 1) = h
    BY <1>1, <2>1
  <2>3. InOrder({h}) = [i \in 1 .. 1 |-> CHOOSE x \in {h} : Cardinality({y \in {h} : y < x}) = i - 1]
    BY <1>1 DEF InOrder
  <2>4. InOrder({h}) = [i \in 1 .. 1 |-> h]
    <3>1. \A i \in 1 .. 1 : i = 1
      OBVIOUS
    <3> QED BY <2>2, <2>3, <3>1
  <2> QED BY <2>4
<1>4. CASE T # {} /\ SendsDataBack(c, t)
  <2>1. T = {h}
    BY <1>4
  <2> QED BY <1>3, <1>4, <2>1 DEF Dispatch
<1>5. CASE ~(T # {} /\ SendsDataBack(c, t))
  <2>1. (IF SendsDataBack(c, t) THEN T ELSE T \ {h}) = {}
    BY <1>5
  <2> DEFINE order == InOrder(IF SendsDataBack(c, t) THEN T ELSE T \ {h})
  <2>2. order = <<>>
    BY <1>2, <2>1
  <2>3. Dispatch(T, t, h, c, l, r) =
          [i \in DOMAIN order |->
             IF order[i] = h THEN Out(r, Msg("DATA", l, h)) ELSE Out(order[i], Msg(t, l, r))]
    BY DEF Dispatch
  <2> HIDE DEF order
  <2>4. Dispatch(T, t, h, c, l, r) = <<>>
    BY <2>2, <2>3
  <2> QED BY <1>5, <2>4
<1> QED BY <1>4, <1>5

-----------------------------------------------------------------------------
(* The inductive invariant.  The parts need each other: the directory only *)
(* answers with data because it only knows its own node; the home can send *)
(* data because it never waits; a wait ends with its request found because *)
(* a stalled processor has just one.                                       *)
IInv ==
  /\ TypeOK
  /\ DirectoryTracksOnlyHome
  /\ OnlyRequestsAndDataTravel
  /\ HomeNeverWaits
  /\ CallbackFindsRequest
  /\ OneRequestPerStall

(* No step takes a copy back: processCache has no answer INVALID to give.  *)
CopiesKept ==
  \A p \in Proc, l \in Line :
    cacheState[p][l] # "INVALID" => cacheState'[p][l] # "INVALID"

(* The answer to a packet: data for its block, back to the node it names.  *)
Echo(o) == Out(o.msg.reply, Msg("DATA", o.msg.line, o.dest))

-----------------------------------------------------------------------------
(* A memory operation.                                                     *)

(* It adds at most its own request to what travels.                        *)
LEMMA IssueNet ==
  ASSUME IInv, NEW p \in Proc, NEW isRead \in BOOLEAN, NEW l \in Line, Issue(p, isRead, l)
  PROVE  LET t == Answer(p, isRead, l).sent
         IN  /\ IsABag(net')
             /\ t = "NO_REQ" => DOMAIN net' = DOMAIN net
             /\ t # "NO_REQ" => DOMAIN net' = DOMAIN net \cup {Out(Home[l], Msg(t, l, p))}
<1> DEFINE t == Answer(p, isRead, l).sent
           outs == MemoryRequestSends(p, isRead, l)
<1>1. outs = IF t = "NO_REQ" THEN <<>> ELSE <<Out(Home[l], Msg(t, l, p))>>
  BY DEF MemoryRequestSends
<1>2. net' = net (+) Sent(outs)
  BY DEF Issue, Send
<1>3. IsABag(net)
  BY DEF IInv, TypeOK
<1>4. CASE t = "NO_REQ"
  <2>1. outs = <<>>
    BY <1>1, <1>4
  <2> HIDE DEF outs, t
  <2>2. IsABag(Sent(outs)) /\ DOMAIN Sent(outs) = {}
    BY <2>1, SentNothing, Zenon
  <2>3. IsABag(net') /\ DOMAIN net' = DOMAIN net
    BY <1>2, <1>3, <2>2, BagSend
  <2> QED BY <1>4, <2>3 DEF t
<1>5. CASE t # "NO_REQ"
  <2> DEFINE o == Out(Home[l], Msg(t, l, p))
  <2> HIDE DEF o
  <2>1. outs = <<o>>
    BY <1>1, <1>5 DEF o
  <2> HIDE DEF outs, t
  <2>2. IsABag(Sent(outs)) /\ DOMAIN Sent(outs) = {o}
    BY <2>1, SentOne, Zenon
  <2>3. IsABag(net') /\ DOMAIN net' = DOMAIN net \cup {o}
    BY <1>2, <1>3, <2>2, BagSend
  <2> QED BY <1>5, <2>3 DEF t, o
<1> QED BY <1>4, <1>5

LEMMA IssueInv ==
  ASSUME IInv, NEW p \in Proc, NEW isRead \in BOOLEAN, NEW l \in Line, Issue(p, isRead, l)
  PROVE  /\ IInv'
         /\ CopiesKept
         /\ \A q \in Proc, k \in Line :
              Waiting(q, k)' => \/ Waiting(q, k)
                                \/ q = p /\ k = l /\ Answer(p, isRead, l).sent # "NO_REQ"
<1> DEFINE c  == cacheState[p][l]
           a  == Answer(p, isRead, l)
           pr == [proc |-> p, line |-> l, tag |-> memOpTag[p]]
           o  == Out(Home[l], Msg(a.sent, l, p))
<1>1. c \in CacheState /\ Home[l] \in Proc /\ (Home[l] = p) \in BOOLEAN
  BY HomeAssumption DEF IInv, TypeOK
<1>2. /\ a.next \in CacheState
      /\ a.perm \in BOOLEAN
      /\ a.sent \in {"NO_REQ", "BUSRD", "BUSWR"}
      /\ a.sent # "NO_REQ" => Home[l] # p
      /\ a.perm <=> a.next \in Stable
      /\ c \in Transient => a.next = c
      /\ Home[l] = p /\ c \in Stable => a.next \in Stable
      /\ a.next \in Transient /\ c \in Stable => a.sent # "NO_REQ"
      /\ c # "INVALID" => a.next # "INVALID"
  BY AccessAnswer DEF IInv
<1>3. /\ ~pendingMem[p]
      /\ pendingMem' = [pendingMem EXCEPT ![p] = TRUE]
      /\ cacheState' = [cacheState EXCEPT ![p][l] = a.next]
      /\ pendReq'  = IF a.perm THEN pendReq ELSE pendReq \cup {pr}
      /\ readyReq' = IF a.perm THEN readyReq \cup {pr} ELSE readyReq
      /\ UNCHANGED <<dirState, sharers, memOpTag>>
  BY DEF Issue, MemoryRequest
<1>4. /\ IsABag(net')
      /\ a.sent = "NO_REQ" => DOMAIN net' = DOMAIN net
      /\ a.sent # "NO_REQ" => DOMAIN net' = DOMAIN net \cup {o}
  BY IssueNet
<1>5. pr \in Request
  BY DEF Request, IInv, TypeOK
<1> HIDE DEF a, pr
<1>6. TypeOK'
  <2>1. a.sent # "NO_REQ" => o \in PacketSet
    BY <1>1, <1>2 DEF PacketSet, Message, ReqType, Out, Msg
  <2>2. BagToSet(net)' \subseteq PacketSet
    BY <1>2, <1>4, <2>1 DEF BagToSet, IInv, TypeOK
  <2>3. cacheState' \in [Proc -> [Line -> CacheState]]
    BY <1>2, <1>3 DEF IInv, TypeOK
  <2> QED BY <1>3, <1>4, <1>5, <2>2, <2>3 DEF IInv, TypeOK
<1>7. DirectoryTracksOnlyHome'
  BY <1>3 DEF IInv, DirectoryTracksOnlyHome
<1>8. OnlyRequestsAndDataTravel'
  BY <1>1, <1>2, <1>4
  DEF IInv, OnlyRequestsAndDataTravel, BagToSet, ForDirectory, Out, Msg
<1>9. HomeNeverWaits'
  BY <1>1, <1>2, <1>3, HomeAssumption
  DEF IInv, TypeOK, HomeNeverWaits, Waiting, CacheState, Stable, Transient
<1>10. CallbackFindsRequest'
  <2>1. \A q \in Proc, k \in Line : (q # p \/ k # l) =>
          /\ Waiting(q, k)' <=> Waiting(q, k)
          /\ (\E e \in pendReq' : e.proc = q /\ e.line = k)
               <=> (\E e \in pendReq : e.proc = q /\ e.line = k)
    BY <1>3 DEF pr, Waiting, IInv, TypeOK
  <2>2. c \in Stable /\ ~(\E e \in pendReq : e.proc = p /\ e.line = l)
    BY <1>1, <1>3
    DEF IInv, OneRequestPerStall, CallbackFindsRequest, Waiting, CacheState
  <2>3. Waiting(p, l)' <=> ~a.perm
    BY <1>2, <1>3 DEF Waiting, CacheState, Stable, Transient, IInv, TypeOK
  <2>4. (\E e \in pendReq' : e.proc = p /\ e.line = l) <=> ~a.perm
    <3>1. pr.proc = p /\ pr.line = l
      BY DEF pr
    <3>2. CASE a.perm
      BY <1>3, <2>2, <3>2
    <3>3. CASE ~a.perm
      <4>1. pendReq' = pendReq \cup {pr}
        BY <1>3, <3>3
      <4> HIDE DEF pr
      <4> QED BY <3>1, <3>3, <4>1
    <3> QED BY <3>2, <3>3
  <2> QED BY <2>1, <2>3, <2>4 DEF IInv, CallbackFindsRequest
<1>11. OneRequestPerStall'
  <2>1. \A e \in pendReq \cup readyReq : e.proc # p
    BY <1>3 DEF IInv, OneRequestPerStall
  <2>2. (pendReq \cup readyReq)' = (pendReq \cup readyReq) \cup {pr}
    BY <1>2, <1>3
  <2>3. pr.proc = p /\ pr.tag = memOpTag[p]
    BY DEF pr
  <2>4. (pendReq \cap readyReq)' = {}
    BY <1>3, <2>1, <2>3 DEF IInv, OneRequestPerStall
  <2>5. \A q \in Proc : pendingMem'[q] = (q = p \/ pendingMem[q])
    BY <1>3 DEF IInv, TypeOK
  <2>6. \A e \in pendReq \cup readyReq : e.proc \in Proc
    BY DEF IInv, TypeOK, Request
  <2>7. /\ \A e \in pendReq \cup readyReq : pendingMem[e.proc] /\ e.tag = memOpTag[e.proc]
        /\ \A e, f \in pendReq \cup readyReq : e.proc = f.proc => e = f
        /\ \A q \in Proc : pendingMem[q] => \E e \in pendReq \cup readyReq : e.proc = q
    BY DEF IInv, OneRequestPerStall
  <2> DEFINE all == pendReq \cup readyReq
  <2> HIDE DEF pr, all
  <2>8. all' = all \cup {pr}
    BY <2>2 DEF all
  <2>9. \A e \in all' : pendingMem'[e.proc] /\ e.tag = memOpTag'[e.proc]
    <3>1. memOpTag' = memOpTag /\ pendingMem'[p]
      BY <1>3, <2>5
    <3>2. ASSUME NEW e \in all
          PROVE  pendingMem'[e.proc] /\ e.tag = memOpTag[e.proc]
      BY <2>5, <2>6, <2>7 DEF all
    <3> QED BY <2>3, <2>8, <3>1, <3>2
  <2>10. \A e, f \in all' : e.proc = f.proc => e = f
    BY <2>1, <2>3, <2>7, <2>8 DEF all
  <2>11. \A q \in Proc : pendingMem'[q] => \E e \in all' : e.proc = q
    BY <2>3, <2>5, <2>7, <2>8 DEF all
  <2> QED BY <2>4, <2>9, <2>10, <2>11 DEF all, OneRequestPerStall
<1>12. CopiesKept
  BY <1>1, <1>2, <1>3 DEF IInv, TypeOK, CopiesKept
<1>13. ASSUME NEW q \in Proc, NEW k \in Line, Waiting(q, k)', ~Waiting(q, k)
       PROVE  q = p /\ k = l /\ a.sent # "NO_REQ"
  BY <1>1, <1>2, <1>3, <1>13 DEF IInv, TypeOK, Waiting, CacheState
<1> QED BY <1>6, <1>7, <1>8, <1>9, <1>10, <1>11, <1>12, <1>13 DEF IInv, a

-----------------------------------------------------------------------------
(* An arriving packet.                                                     *)

(* What the invariant says of it.                                          *)
LEMMA Arriving ==
  ASSUME IInv, NEW o, BagIn(o, net)
  PROVE  /\ o.dest \in Proc /\ o.msg.line \in Line /\ o.msg.reply \in Proc
         /\ o.msg.brt \in {"BUSRD", "BUSWR", "DATA"}
         /\ o.dest # o.msg.reply
         /\ Home[o.msg.line] \in {o.dest, o.msg.reply}
         /\ ForDirectory(o.msg) => o.dest = Home[o.msg.line]
         /\ ForDirectory(o.msg) <=> o.msg.brt # "DATA"
         /\ cacheState[o.dest][o.msg.line] \in CacheState
<1>1. o \in BagToSet(net) /\ o \in PacketSet
  BY DEF IInv, TypeOK, BagIn
<1>2. o.dest \in Proc /\ o.msg.line \in Line /\ o.msg.reply \in Proc
  BY <1>1 DEF PacketSet, Message
<1> QED BY <1>1, <1>2 DEF IInv, OnlyRequestsAndDataTravel, ForDirectory, TypeOK

(* The directory asks no node but its own, and fetches from that one       *)
(* unless its loops stop short of it.                                      *)
LEMMA DirectoryPlan ==
  ASSUME IInv, NEW o, BagIn(o, net), ForDirectory(o.msg)
  PROVE  LET plan == Plan(o.msg.brt, o.dest, o.msg.line)
         IN  /\ plan.fetch \in SUBSET {o.dest}
             /\ plan.invalidate \in SUBSET {o.dest}
             /\ plan.sharers = {o.dest}
             /\ plan.state \in DirState \ {"D_INVALID"}
             /\ o.dest < ScanLimit => plan.fetch # {}
<1> DEFINE h == o.dest
           l == o.msg.line
           b == o.msg.brt
<1>1. h \in Proc /\ h \in Nat /\ l \in Line /\ b \in {"BUSRD", "BUSWR"}
  BY Arriving, ProcAssumption DEF ForDirectory
<1>2. /\ dirState[h][l] \in DirState
      /\ sharers[h][l] = IF dirState[h][l] = "D_INVALID" THEN {} ELSE {h}
  BY <1>1 DEF IInv, TypeOK, DirectoryTracksOnlyHome
<1> HIDE DEF h, l, b
<1>3. /\ Recorded(h, l) \in SUBSET {h}
      /\ First(Recorded(h, l)) = Recorded(h, l)
  BY <1>1, <1>2 DEF Recorded, First
<1>4. dirState[h][l] # "D_INVALID" /\ h < ScanLimit => Recorded(h, l) = {h}
  BY <1>1, <1>2 DEF Recorded
<1> DEFINE plan == Plan(b, h, l)
<1>5. /\ plan.fetch \in SUBSET {h}
      /\ plan.invalidate \in SUBSET {h}
      /\ plan.sharers = {h}
      /\ plan.state \in DirState \ {"D_INVALID"}
      /\ h < ScanLimit => plan.fetch # {}
  BY <1>1, <1>2, <1>3, <1>4 DEF Plan, DirState
<1> QED BY <1>5 DEF h, l, b

(* Whatever arrives, the node sends back data to the node it names, up to  *)
(* two times, or nothing; a request gets an answer unless the loops of the *)
(* directory stop short of its home.                                       *)
LEMMA AnswersAreEchoes ==
  ASSUME IInv, NEW o, BagIn(o, net)
  PROVE  LET outs == CacheReqSends(o.dest, o.msg)
         IN  /\ outs \in {<<>>, <<Echo(o)>>, <<Echo(o), Echo(o)>>}
             /\ ForDirectory(o.msg) /\ o.dest < ScanLimit => outs # <<>>
             /\ cacheState[o.dest][o.msg.line] = "INVALID" => outs # <<Echo(o), Echo(o)>>
<1> DEFINE h == o.dest
           m == o.msg
           l == o.msg.line
           c == cacheState[h][l]
           outs == CacheReqSends(h, m)
<1>1. CASE ~ForDirectory(m)
  <2> DEFINE e == Echo(o)
  <2>1. outs \in {<<>>, <<e>>}
    BY <1>1 DEF CacheReqSends, BusReqSends, Echo
  <2> HIDE DEF e, outs
  <2>2. <<>> # <<e, e>> /\ <<e>> # <<e, e>>
    OBVIOUS
  <2> QED BY <1>1, <2>1, <2>2 DEF e, outs
<1>2. CASE ForDirectory(m)
  <2> DEFINE plan    == Plan(m.brt, h, l)
             fetched == Applied(plan.fetch, "FETCH", h, c)
             first   == Dispatch(plan.fetch, "FETCH", h, c, l, m.reply)
             second  == Dispatch(plan.invalidate, "IC_INVALIDATE", h, fetched, l, m.reply)
  <2>1. /\ h \in Proc
        /\ plan.fetch \in SUBSET {h} /\ plan.invalidate \in SUBSET {h}
        /\ h < ScanLimit => plan.fetch # {}
    BY <1>2, Arriving, DirectoryPlan
  <2>2. outs = first \o second
    BY <1>2 DEF CacheReqSends, DirectoryReqSends
  <2>3. c \in Stable
    BY <1>2, Arriving DEF IInv, HomeNeverWaits, Waiting, CacheState
  <2>4. SendsDataBack(c, "FETCH")
    BY <2>3 DEF SendsDataBack, Stable
  <2>9. c = "INVALID" => ~SendsDataBack(fetched, "IC_INVALIDATE")
    <3> HIDE DEF plan, h, l, m, c
    <3> QED BY DEF SendsDataBack, Applied, ProcessCache, Fills, Transient
  <2> DEFINE e == Out(m.reply, Msg("DATA", l, h))
  <2> HIDE DEF plan, fetched, first, second, e, h, l, m, c
  <2>5. first \in {<<>>, <<e>>} /\ (h < ScanLimit => first = <<e>>)
    <3>1. plan.fetch # {} => first = <<e>>
      BY <2>1, <2>4, DispatchAtHome DEF first, e
    <3>2. plan.fetch = {} => first = <<>>
      BY <2>1, DispatchAtHome DEF first
    <3> QED BY <2>1, <3>1, <3>2
  <2>6. second \in {<<>>, <<e>>} /\ (c = "INVALID" => second = <<>>)
    BY <2>1, <2>9, DispatchAtHome DEF second, e
  <2>7. e = Echo(o)
    BY DEF e, h, l, m, Echo
  <2> HIDE DEF outs
  <2>8. /\ outs \in {<<>>, <<e>>, <<e, e>>}
        /\ h < ScanLimit => outs # <<>>
        /\ c = "INVALID" => outs # <<e, e>>
    <3>1. <<>> \o <<>> = <<>> /\ <<>> \o <<e>> = <<e>>
      OBVIOUS
    <3>2. <<e>> \o <<>> = <<e>>
      OBVIOUS
    <3>4. <<e>> \o <<e>> = <<e, e>>
      <4> DEFINE s == <<e>> \o <<e>>
      <4>1. s \in Seq({e}) /\ Len(s) = 2 /\ s[1] = e /\ s[2] = e
        OBVIOUS
      <4>2. \A i \in 1 .. 2 : i = 1 \/ i = 2
        OBVIOUS
      <4> HIDE DEF s
      <4>3. s = <<e, e>>
        BY <4>1, <4>2
      <4> QED BY <4>3 DEF s
    <3>3. <<e>> # <<>> /\ <<e, e>> # <<>> /\ <<e>> # <<e, e>>
      OBVIOUS
    <3>5. h < ScanLimit => outs # <<>>
      BY <2>2, <2>5, <2>6, <3>1, <3>2, <3>3, <3>4
    <3>6. outs \in {<<>>, <<e>>, <<e, e>>}
      BY <2>2, <2>5, <2>6, <3>1, <3>2, <3>4
    <3>7. c = "INVALID" => outs # <<e, e>>
      BY <2>2, <2>5, <2>6, <3>1, <3>2, <3>3
    <3> QED BY <3>5, <3>6, <3>7
  <2> QED BY <1>2, <2>7, <2>8 DEF outs, h, m, l, c
<1> QED BY <1>1, <1>2

(* So what travels afterwards is what travelled, less possibly the packet  *)
(* itself, and its answer if there is one.                                 *)
LEMMA ReceiveNet ==
  ASSUME IInv, NEW o, Receive(o)
  PROVE  /\ IsABag(net')
         /\ DOMAIN net' \subseteq DOMAIN net \cup {Echo(o)}
         /\ DOMAIN net \ {o} \subseteq DOMAIN net'
         /\ CacheReqSends(o.dest, o.msg) # <<>> => Echo(o) \in DOMAIN net'
         /\ CacheReqSends(o.dest, o.msg) = <<>> => DOMAIN net' \subseteq DOMAIN net
<1> DEFINE outs == CacheReqSends(o.dest, o.msg)
           left == net (-) SetToBag({o})
           e    == Echo(o)
<1>1. o \in DOMAIN net /\ IsABag(net)
  BY DEF Receive, BagIn, BagToSet, IInv, TypeOK
<1>2. net' = left (+) Sent(outs)
  BY DEF Receive, Deliver
<1>3. /\ IsABag(left)
      /\ DOMAIN left \subseteq DOMAIN net
      /\ DOMAIN net \ {o} \subseteq DOMAIN left
  BY <1>1, BagTake
<1>4. outs \in {<<>>, <<e>>, <<e, e>>}
  BY AnswersAreEchoes DEF Receive
<1> HIDE DEF outs, left, e
<1>5. /\ IsABag(Sent(outs))
      /\ DOMAIN Sent(outs) \subseteq {e}
      /\ outs # <<>> => e \in DOMAIN Sent(outs)
      /\ outs = <<>> => DOMAIN Sent(outs) = {}
  <2>1. CASE outs = <<>>
    BY <2>1, SentNothing, Zenon
  <2>2. CASE outs = <<e>>
    <3>1. IsABag(Sent(outs)) /\ DOMAIN Sent(outs) = {e}
      BY <2>2, SentOne, Zenon
    <3>2. outs # <<>>
      BY <2>2
    <3> QED BY <3>1, <3>2
  <2>3. CASE outs = <<e, e>>
    <3>1. IsABag(Sent(outs)) /\ DOMAIN Sent(outs) = {e}
      BY <2>3, SentTwice, Zenon
    <3>2. outs # <<>>
      BY <2>3
    <3> QED BY <3>1, <3>2
  <2> QED BY <1>4, <2>1, <2>2, <2>3
<1>6. IsABag(net') /\ DOMAIN net' = DOMAIN left \cup DOMAIN Sent(outs)
  BY <1>2, <1>3, <1>5, BagSend
<1> QED BY <1>3, <1>5, <1>6 DEF outs, e

LEMMA ReceiveTraffic ==
  ASSUME IInv, NEW o, Receive(o)
  PROVE  /\ IsABag(net') /\ BagToSet(net)' \subseteq PacketSet
         /\ OnlyRequestsAndDataTravel'
<1> DEFINE e == Echo(o)
<1>1. IsABag(net') /\ BagToSet(net)' \subseteq BagToSet(net) \cup {e}
  BY ReceiveNet DEF BagToSet
<1>2. /\ o.dest \in Proc /\ o.msg.line \in Line /\ o.msg.reply \in Proc
      /\ o.dest # o.msg.reply
      /\ Home[o.msg.line] \in {o.dest, o.msg.reply}
  BY Arriving DEF Receive
<1>3. /\ e.dest = o.msg.reply /\ e.msg.brt = "DATA"
      /\ e.msg.line = o.msg.line /\ e.msg.reply = o.dest
      /\ e \in PacketSet
  BY <1>2 DEF Echo, Out, Msg, PacketSet, Message, ReqType
<1> HIDE DEF e
<1>4. BagToSet(net)' \subseteq PacketSet
  BY <1>1, <1>3 DEF IInv, TypeOK
<1>5. OnlyRequestsAndDataTravel'
  BY <1>1, <1>2, <1>3 DEF IInv, OnlyRequestsAndDataTravel, ForDirectory
<1> QED BY <1>1, <1>4, <1>5

(* A request at its home: the directory entry and the home's own copy      *)
(* change, and that copy waits neither before nor after.                   *)
LEMMA RequestInv ==
  ASSUME IInv, NEW o, Receive(o), ForDirectory(o.msg)
  PROVE  /\ IInv'
         /\ CopiesKept
         /\ \A q \in Proc, k \in Line : Waiting(q, k)' <=> Waiting(q, k)
<1> DEFINE h == o.dest
           l == o.msg.line
           c == cacheState[h][l]
           plan == Plan(o.msg.brt, h, l)
           new == Applied(plan.invalidate, "IC_INVALIDATE", h,
                          Applied(plan.fetch, "FETCH", h, c))
<1>1. h \in Proc /\ l \in Line /\ h = Home[l] /\ c \in CacheState
  BY Arriving DEF Receive
<1>2. plan.sharers = {h} /\ plan.state \in DirState \ {"D_INVALID"}
  BY DirectoryPlan DEF Receive
<1>3. /\ dirState' = [dirState EXCEPT ![h][l] = plan.state]
      /\ sharers'  = [sharers EXCEPT ![h][l] = plan.sharers]
      /\ cacheState' = [cacheState EXCEPT ![h][l] = new]
      /\ UNCHANGED <<pendReq, readyReq, pendingMem, memOpTag>>
  BY DEF Receive, CacheReq, DirectoryReq
<1>4. new \in CacheState /\ c \in Stable /\ new \in Stable
      /\ (c # "INVALID" => new # "INVALID")
  <2>1. c \in Stable
    BY <1>1 DEF IInv, HomeNeverWaits, Waiting, CacheState
  <2> HIDE DEF c, plan, h
  <2>2. ASSUME NEW d \in Stable, NEW T, NEW t
        PROVE  /\ Applied(T, t, h, d) \in Stable
               /\ d # "INVALID" => Applied(T, t, h, d) # "INVALID"
    BY ProcessCacheAnswer DEF Applied, CacheState
  <2> QED BY <2>1, <2>2 DEF CacheState
<1> HIDE DEF h, l, c, plan, new
<1>5. TypeOK'
  <2>1. /\ dirState' \in [Proc -> [Line -> DirState]]
        /\ sharers' \in [Proc -> [Line -> SUBSET Proc]]
        /\ cacheState' \in [Proc -> [Line -> CacheState]]
    BY <1>1, <1>2, <1>3, <1>4 DEF IInv, TypeOK
  <2> QED BY <1>3, <2>1, ReceiveTraffic DEF IInv, TypeOK
<1>6. DirectoryTracksOnlyHome'
  BY <1>1, <1>2, <1>3 DEF IInv, TypeOK, DirectoryTracksOnlyHome
<1>7. \A q \in Proc, k \in Line : Waiting(q, k)' <=> Waiting(q, k)
  <2>1. Stable \cap Transient = {}
    BY DEF Stable, Transient
  <2> QED BY <1>1, <1>3, <1>4, <2>1 DEF Waiting, IInv, TypeOK, c
<1>8. HomeNeverWaits'
  BY <1>7, HomeAssumption DEF IInv, HomeNeverWaits
<1>9. CallbackFindsRequest' /\ OneRequestPerStall'
  BY <1>3, <1>7 DEF IInv, CallbackFindsRequest, OneRequestPerStall
<1>10. CopiesKept
  BY <1>1, <1>3, <1>4 DEF IInv, TypeOK, CopiesKept, c
<1> QED BY <1>5, <1>6, <1>7, <1>8, <1>9, <1>10, ReceiveTraffic DEF IInv

(* Data at a cache: if the block waits, the request that waits with it     *)
(* becomes ready; otherwise no block starts or stops waiting.              *)
LEMMA DataInv ==
  ASSUME IInv, NEW o, Receive(o), ~ForDirectory(o.msg)
  PROVE  /\ IInv'
         /\ CopiesKept
         /\ \A q \in Proc, k \in Line :
              Waiting(q, k)' <=> Waiting(q, k) /\ ~(q = o.dest /\ k = o.msg.line)
<1> DEFINE p == o.dest
           l == o.msg.line
           t == o.msg.brt
           c == cacheState[p][l]
           new == ProcessCache(c, t)
           called == {e \in pendReq : e.proc = p /\ e.line = l}
<1>1. p \in Proc /\ l \in Line /\ c \in CacheState
  BY Arriving DEF Receive
<1>2. /\ cacheState' = [cacheState EXCEPT ![p][l] = new]
      /\ \/ /\ Fills(c, t)
            /\ \E e \in called : pendReq' = pendReq \ {e} /\ readyReq' = readyReq \cup {e}
         \/ /\ ~Fills(c, t) \/ called = {}
            /\ UNCHANGED <<pendReq, readyReq>>
      /\ UNCHANGED <<dirState, sharers, pendingMem, memOpTag>>
  BY DEF Receive, CacheReq, BusReq, CoherCallback
<1>3. /\ new \in CacheState
      /\ c \in Stable => new \in Stable
      /\ Fills(c, t) => c \in Transient /\ new \in Stable
      /\ ~Fills(c, t) /\ c \in Transient => new = c
      /\ c = "INVALID" <=> new = "INVALID"
  <2> HIDE DEF c, t
  <2> QED BY <1>1, ProcessCacheAnswer
<1>4. (called # {}) <=> c \in Transient
  BY <1>1 DEF IInv, CallbackFindsRequest, Waiting
<1>5. CacheState = Stable \cup Transient /\ Stable \cap Transient = {}
  BY DEF CacheState, Stable, Transient
<1>6. cacheState'[p][l] = new /\ cacheState[p][l] = c
  BY <1>1, <1>2 DEF IInv, TypeOK
<1>7. \A q \in Proc, k \in Line :
        Waiting(q, k)' <=> Waiting(q, k) /\ ~(q = p /\ k = l /\ Fills(c, t))
  <2> HIDE DEF new, c, t, p, l
  <2>1. ASSUME NEW q \in Proc, NEW k \in Line, q # p \/ k # l
        PROVE  cacheState'[q][k] = cacheState[q][k]
    BY <1>1, <1>2, <2>1 DEF IInv, TypeOK
  <2>2. new \in Transient <=> c \in Transient /\ ~Fills(c, t)
    BY <1>1, <1>3, <1>5
  <2> QED BY <1>6, <2>1, <2>2 DEF Waiting
<1> HIDE DEF p, l, t, c, new
<1>8. TypeOK'
  <2>1. cacheState' \in [Proc -> [Line -> CacheState]]
    BY <1>1, <1>2, <1>3 DEF IInv, TypeOK
  <2>2. pendReq' \subseteq Request /\ readyReq' \subseteq Request
    BY <1>2 DEF IInv, TypeOK
  <2> QED BY <1>2, <2>1, <2>2, ReceiveTraffic DEF IInv, TypeOK
<1>9. DirectoryTracksOnlyHome' /\ HomeNeverWaits'
  BY <1>2, <1>7, HomeAssumption DEF IInv, DirectoryTracksOnlyHome, HomeNeverWaits
<1>10. CallbackFindsRequest' /\ OneRequestPerStall'
  <2>1. CASE Fills(c, t)
    <3>1. PICK e \in called : pendReq' = pendReq \ {e} /\ readyReq' = readyReq \cup {e}
      BY <1>2, <1>3, <1>4, <2>1
    <3>2. e \in pendReq /\ e.proc = p /\ e.line = l
      OBVIOUS
    <3>3. \A f \in pendReq : f.proc = p => f = e
      BY <3>2 DEF IInv, OneRequestPerStall
    <3> HIDE DEF called
    <3>4. OneRequestPerStall'
      <4>1. (pendReq \cup readyReq)' = pendReq \cup readyReq
        BY <3>1, <3>2
      <4>2. (pendReq \cap readyReq)' = {}
        BY <3>1 DEF IInv, OneRequestPerStall
      <4> QED BY <1>2, <4>1, <4>2 DEF IInv, OneRequestPerStall
    <3>5. CallbackFindsRequest'
      <4>1. \A q \in Proc, k \in Line :
              (\E f \in pendReq' : f.proc = q /\ f.line = k)
                <=> (\E f \in pendReq : f.proc = q /\ f.line = k) /\ ~(q = p /\ k = l)
        BY <3>1, <3>2, <3>3
      <4> QED BY <1>7, <2>1, <4>1 DEF IInv, CallbackFindsRequest
    <3> QED BY <3>4, <3>5
  <2>2. CASE ~Fills(c, t)
    BY <1>2, <1>7, <2>2 DEF IInv, CallbackFindsRequest, OneRequestPerStall
  <2> QED BY <2>1, <2>2
<1>11. CopiesKept
  BY <1>1, <1>2, <1>3 DEF IInv, TypeOK, CopiesKept, c
<1>12. \A q \in Proc, k \in Line : Waiting(q, k)' <=> Waiting(q, k) /\ ~(q = p /\ k = l)
  <2>1. Fills(c, t) <=> Waiting(p, l)
    BY <1>1, Arriving DEF Fills, Receive, Waiting, c, t, p, l
  <2> QED BY <1>1, <1>7, <2>1
<1> QED BY <1>8, <1>9, <1>10, <1>11, <1>12, ReceiveTraffic DEF IInv, p, l

-----------------------------------------------------------------------------
(* The callbacks at the end of a cache tick: every ready request belongs   *)
(* to a stalled processor and carries its tag, so each one frees the       *)
(* processor that issued it and no other.                                  *)
LEMMA CompleteInv ==
  ASSUME IInv, Complete
  PROVE  IInv' /\ CopiesKept /\ UNCHANGED <<cacheState, net>>
<1> DEFINE done == {e.proc : e \in {x \in readyReq : x.tag = memOpTag[x.proc]}}
<1>1. /\ readyReq' = {}
      /\ pendingMem' = [p \in Proc |-> pendingMem[p] /\ p \notin done]
      /\ memOpTag' = [p \in Proc |-> IF p \in done THEN (memOpTag[p] + 1) % TagLimit
                                                    ELSE memOpTag[p]]
      /\ UNCHANGED <<cacheState, dirState, sharers, pendReq, net>>
  BY DEF Complete, RunCallbacks, MemOpsDone
<1>2. done = {e.proc : e \in readyReq}
  BY DEF IInv, OneRequestPerStall
<1>3. \A e \in pendReq : e.proc \in Proc /\ e.proc \notin done
  <2>1. \A e \in pendReq, f \in readyReq : e.proc # f.proc
    BY DEF IInv, OneRequestPerStall
  <2> QED BY <1>2, <2>1 DEF IInv, TypeOK, Request
<1> HIDE DEF done
<1>4. TypeOK'
  <2>1. memOpTag' \in [Proc -> 0 .. TagLimit - 1]
    BY <1>1, TagAssumption DEF IInv, TypeOK
  <2>2. pendingMem' \in [Proc -> BOOLEAN]
    BY <1>1
  <2> QED BY <1>1, <2>1, <2>2 DEF IInv, TypeOK
<1>5. OneRequestPerStall'
  <2>1. \A e \in pendReq : pendingMem'[e.proc] /\ e.tag = memOpTag'[e.proc]
    BY <1>1, <1>3 DEF IInv, OneRequestPerStall
  <2>2. \A p \in Proc : pendingMem'[p] => \E e \in pendReq : e.proc = p
    BY <1>1, <1>2 DEF IInv, OneRequestPerStall
  <2>3. \A e, f \in pendReq : e.proc = f.proc => e = f
    BY DEF IInv, OneRequestPerStall
  <2> QED BY <1>1, <2>1, <2>2, <2>3 DEF OneRequestPerStall
<1>6. DirectoryTracksOnlyHome' /\ HomeNeverWaits' /\ CallbackFindsRequest'
  <2>1. DirectoryTracksOnlyHome'
    BY <1>1 DEF IInv, DirectoryTracksOnlyHome
  <2>2. \A p \in Proc, l \in Line : Waiting(p, l)' <=> Waiting(p, l)
    BY <1>1 DEF Waiting
  <2>3. HomeNeverWaits'
    BY <2>2, HomeAssumption DEF IInv, HomeNeverWaits
  <2>4. CallbackFindsRequest'
    BY <1>1, <2>2 DEF IInv, CallbackFindsRequest
  <2> QED BY <2>1, <2>3, <2>4
<1>7. OnlyRequestsAndDataTravel'
  BY <1>1 DEF IInv, OnlyRequestsAndDataTravel
<1>8. CopiesKept
  BY <1>1 DEF CopiesKept
<1> QED BY <1>1, <1>4, <1>5, <1>6, <1>7, <1>8 DEF IInv

-----------------------------------------------------------------------------
LEMMA InitInv == Init => IInv
<1> SUFFICES ASSUME Init PROVE IInv
  OBVIOUS
<1>1. net = EmptyBag /\ NodesInit
  BY DEF Init, NetInit
<1>2. IsABag(net) /\ DOMAIN net = {}
  BY <1>1 DEF EmptyBag, SetToBag, IsABag
<1>3. TypeOK
  BY <1>1, <1>2, TagAssumption DEF NodesInit, TypeOK, CacheState, Stable, DirState, BagToSet
<1>4. DirectoryTracksOnlyHome
  BY <1>1 DEF NodesInit, DirectoryTracksOnlyHome
<1>5. OnlyRequestsAndDataTravel
  BY <1>2 DEF OnlyRequestsAndDataTravel, BagToSet
<1>6. \A p \in Proc, l \in Line : ~Waiting(p, l)
  BY <1>1 DEF NodesInit, Waiting, Transient
<1>7. HomeNeverWaits /\ CallbackFindsRequest /\ OneRequestPerStall
  BY <1>1, <1>6, HomeAssumption
  DEF NodesInit, HomeNeverWaits, CallbackFindsRequest, OneRequestPerStall
<1> QED BY <1>3, <1>4, <1>5, <1>7 DEF IInv

LEMMA NextInv ==
  ASSUME IInv, [Next]_vars
  PROVE  IInv' /\ CopiesKept
<1>1. ASSUME NEW p \in Proc, NEW isRead \in BOOLEAN, NEW l \in Line, Issue(p, isRead, l)
      PROVE  IInv' /\ CopiesKept
  BY <1>1, IssueInv
<1>2. ASSUME NEW o \in BagToSet(net), Receive(o)
      PROVE  IInv' /\ CopiesKept
  BY <1>2, RequestInv, DataInv
<1>3. CASE Complete
  BY <1>3, CompleteInv
<1>4. CASE UNCHANGED vars
  <2>1. UNCHANGED <<cacheState, dirState, sharers, pendReq, readyReq, pendingMem, memOpTag, net>>
    BY <1>4 DEF vars, nodeVars
  <2>2. CopiesKept
    BY <2>1 DEF CopiesKept
  <2>3. TypeOK' /\ DirectoryTracksOnlyHome' /\ OnlyRequestsAndDataTravel'
    BY <2>1 DEF IInv, TypeOK, DirectoryTracksOnlyHome, OnlyRequestsAndDataTravel
  <2>4. HomeNeverWaits' /\ CallbackFindsRequest' /\ OneRequestPerStall'
    BY <2>1 DEF IInv, HomeNeverWaits, CallbackFindsRequest, OneRequestPerStall, Waiting
  <2> QED BY <2>2, <2>3, <2>4 DEF IInv
<1> QED BY <1>1, <1>2, <1>3, <1>4 DEF Next

-----------------------------------------------------------------------------
(* The invariant holds in every behaviour, and with it each of its parts.  *)
THEOREM CoherenceInvariant == Spec => []IInv
<1>1. IInv /\ [Next]_vars => IInv'
  BY NextInv
<1> QED BY InitInv, <1>1, PTL DEF Spec

(* Types, for any number of processors and blocks.                         *)
THEOREM TypeCorrect == Spec => []TypeOK
<1>1. IInv => TypeOK
  BY DEF IInv
<1> QED BY CoherenceInvariant, <1>1, PTL

(* A directory slice only ever records its own node.                       *)
THEOREM DirectoryRecordsHome == Spec => []DirectoryTracksOnlyHome
<1>1. IInv => DirectoryTracksOnlyHome
  BY DEF IInv
<1> QED BY CoherenceInvariant, <1>1, PTL

(* No fetch and no invalidation ever travels.                              *)
THEOREM NoInvalidateTravels == Spec => []OnlyRequestsAndDataTravel
<1>1. IInv => OnlyRequestsAndDataTravel
  BY DEF IInv
<1> QED BY CoherenceInvariant, <1>1, PTL

(* The home of a block grants its own processor every access at once.      *)
THEOREM HomeGrants == Spec => []HomeNeverWaits
<1>1. IInv => HomeNeverWaits
  BY DEF IInv
<1> QED BY CoherenceInvariant, <1>1, PTL

(* Every callback of the coherence component finds its request.            *)
THEOREM CallbacksMatch == Spec => []CallbackFindsRequest
<1>1. IInv => CallbackFindsRequest
  BY DEF IInv
<1> QED BY CoherenceInvariant, <1>1, PTL

(* Every completion finds its operation, and every operation has one.      *)
THEOREM CompletionsMatch == Spec => []OneRequestPerStall
<1>1. IInv => OneRequestPerStall
  BY DEF IInv
<1> QED BY CoherenceInvariant, <1>1, PTL

-----------------------------------------------------------------------------
(* No miss is forgotten.  It takes that the loops over directory[] reach   *)
(* the home: where they do not, a request is taken and not answered.       *)
ScansReachHomes == \A l \in Line : Home[l] < ScanLimit

(* A block that starts to wait sends its request; a request that arrives   *)
(* leaves as data; data that arrives ends the wait.                        *)
LEMMA AnswerStep ==
  ASSUME ScansReachHomes, IInv, AnswerOnItsWay, [Next]_vars
  PROVE  AnswerOnItsWay'
<1>1. ASSUME NEW p \in Proc, NEW isRead \in BOOLEAN, NEW l \in Line, Issue(p, isRead, l)
      PROVE  AnswerOnItsWay'
  <2> DEFINE t == Answer(p, isRead, l).sent
             new == Out(Home[l], Msg(t, l, p))
  <2>1. /\ DOMAIN net \subseteq DOMAIN net'
        /\ t # "NO_REQ" => new \in DOMAIN net'
    BY <1>1, IssueNet
  <2>2. t \in {"NO_REQ", "BUSRD", "BUSWR"}
    BY AccessAnswer DEF IInv
  <2>3. \A q \in Proc, k \in Line :
          Waiting(q, k)' => Waiting(q, k) \/ (q = p /\ k = l /\ t # "NO_REQ")
    BY <1>1, IssueInv
  <2> HIDE DEF t
  <2> QED BY <2>1, <2>2, <2>3 DEF AnswerOnItsWay, Travels, BagIn, BagToSet
<1>2. ASSUME NEW o \in BagToSet(net), Receive(o)
      PROVE  AnswerOnItsWay'
  <2>1. /\ BagIn(o, net)
        /\ o.dest \in Proc /\ o.msg.line \in Line
        /\ ForDirectory(o.msg) <=> o.msg.brt # "DATA"
        /\ ForDirectory(o.msg) => o.dest = Home[o.msg.line]
    BY <1>2, Arriving DEF BagIn
  <2>2. DOMAIN net \ {o} \subseteq DOMAIN net'
    BY <1>2, ReceiveNet
  <2>3. ForDirectory(o.msg) => Echo(o) \in DOMAIN net'
    BY <1>2, <2>1, AnswersAreEchoes, ReceiveNet DEF ScansReachHomes
  <2>4. ASSUME NEW q \in Proc, NEW k \in Line, Waiting(q, k)'
        PROVE  /\ Waiting(q, k)
               /\ ~ForDirectory(o.msg) => ~(q = o.dest /\ k = o.msg.line)
    BY <1>2, <2>1, <2>4, RequestInv, DataInv
  <2>5. ASSUME NEW q \in Proc, NEW k \in Line, Waiting(q, k)'
        PROVE  \/ Travels(Home[k], "BUSRD", k, q)'
               \/ Travels(Home[k], "BUSWR", k, q)'
               \/ Travels(q, "DATA", k, Home[k])'
    <3>1. PICK w \in DOMAIN net : w \in {Out(Home[k], Msg("BUSRD", k, q)),
                                         Out(Home[k], Msg("BUSWR", k, q)),
                                         Out(q, Msg("DATA", k, Home[k]))}
      BY <2>4, <2>5 DEF AnswerOnItsWay, Travels, BagIn, BagToSet
    <3>2. CASE w # o
      BY <2>2, <3>1, <3>2 DEF Travels, BagIn, BagToSet
    <3>3. CASE w = o
      <4>1. ForDirectory(o.msg)
        BY <2>1, <2>4, <2>5, <3>1, <3>3 DEF Out, Msg
      <4>2. Echo(o) = Out(q, Msg("DATA", k, Home[k]))
        BY <2>1, <3>1, <3>3, <4>1 DEF Echo, Out, Msg, ForDirectory
      <4> QED BY <2>3, <4>1, <4>2 DEF Travels, BagIn, BagToSet
    <3> QED BY <3>2, <3>3
  <2> QED BY <2>5 DEF AnswerOnItsWay
<1>3. CASE Complete
  BY <1>3, CompleteInv DEF AnswerOnItsWay, Waiting, Travels
<1>4. CASE UNCHANGED vars
  BY <1>4 DEF vars, nodeVars, AnswerOnItsWay, Waiting, Travels
<1> QED BY <1>1, <1>2, <1>3, <1>4 DEF Next

(* While anything waits, its request or its data is on the way.            *)
THEOREM NoMissForgotten ==
  ASSUME ScansReachHomes
  PROVE  Spec => []AnswerOnItsWay
<1>1. Init => AnswerOnItsWay
  BY DEF Init, NodesInit, AnswerOnItsWay, Waiting, Transient
<1>2. IInv /\ AnswerOnItsWay /\ [Next]_vars => AnswerOnItsWay'
  BY AnswerStep
<1> QED BY CoherenceInvariant, <1>1, <1>2, PTL DEF Spec

-----------------------------------------------------------------------------
(* How much travels between a node and a home: the copies of the packets,  *)
(* each with its number.                                                   *)
Concerns(o, p, l)    == o.msg.line = l /\ p \in {o.dest, o.msg.reply}
Numbered(b, p, l)    == UNION {{o} \X (1 .. b[o]) : o \in {x \in DOMAIN b : Concerns(x, p, l)}}
CountOf(b, o)        == IF o \in DOMAIN b THEN b[o] ELSE 0

LEMMA CopiesNumbered ==
  ASSUME NEW p, NEW l
  PROVE  /\ Copies(Between(p, l)) = Cardinality(Numbered(net, p, l))
         /\ Copies(Between(p, l))' = Cardinality(Numbered(net', p, l))
BY DEF Copies, Between, Numbered, Concerns, BagToSet

LEMMA InNumbered ==
  ASSUME NEW b, IsABag(b), NEW p, NEW l
  PROVE  /\ \A o, i : <<o, i>> \in Numbered(b, p, l) <=>
                        Concerns(o, p, l) /\ i \in 1 .. CountOf(b, o)
         /\ \A z \in Numbered(b, p, l) : \E o, i : z = <<o, i>>
<1>1. \A o : o \notin DOMAIN b => 1 .. CountOf(b, o) = {}
  BY DEF CountOf
<1>2. \A o \in DOMAIN b : CountOf(b, o) = b[o]
  BY DEF CountOf
<1>3. ASSUME NEW o, NEW i
      PROVE  <<o, i>> \in Numbered(b, p, l) <=> Concerns(o, p, l) /\ i \in 1 .. CountOf(b, o)
  <2>1. <<o, i>> \in Numbered(b, p, l) <=>
          \E x \in DOMAIN b : Concerns(x, p, l) /\ <<o, i>> \in {x} \X (1 .. b[x])
    BY DEF Numbered
  <2> QED BY <1>1, <1>2, <2>1
<1>4. ASSUME NEW z \in Numbered(b, p, l)
      PROVE  \E o, i : z = <<o, i>>
  <2>1. \E x \in DOMAIN b : z \in {x} \X (1 .. b[x])
    BY DEF Numbered
  <2> QED BY <2>1
<1> QED BY <1>3, <1>4

(* Two sets of numbered packets with the same members.                     *)
LEMMA SameNumbered ==
  ASSUME NEW S, NEW T,
         \A z \in S : \E o, i : z = <<o, i>>,
         \A z \in T : \E o, i : z = <<o, i>>,
         \A o, i : <<o, i>> \in S <=> <<o, i>> \in T
  PROVE  S = T
<1>1. \A z \in S : z \in T
  OBVIOUS
<1>2. \A z \in T : z \in S
  OBVIOUS
<1> QED BY <1>1, <1>2

(* One copy more is one number more.                                       *)
LEMMA OneMore ==
  ASSUME NEW b, IsABag(b), NEW c, IsABag(c), NEW x,
         CountOf(b, x) \in Nat,
         CountOf(c, x) = CountOf(b, x) + 1,
         \A o : o # x => CountOf(c, o) = CountOf(b, o),
         NEW p, NEW l
  PROVE  /\ Concerns(x, p, l) =>
              /\ Numbered(c, p, l) = Numbered(b, p, l) \cup {<<x, CountOf(c, x)>>}
              /\ <<x, CountOf(c, x)>> \notin Numbered(b, p, l)
         /\ ~Concerns(x, p, l) => Numbered(c, p, l) = Numbered(b, p, l)
<1> DEFINE S == Numbered(b, p, l)
           T == Numbered(c, p, l)
           n == CountOf(b, x)
<1>1. /\ \A o, i : <<o, i>> \in S <=> Concerns(o, p, l) /\ i \in 1 .. CountOf(b, o)
      /\ \A z \in S : \E o, i : z = <<o, i>>
  BY InNumbered
<1>2. /\ \A o, i : <<o, i>> \in T <=> Concerns(o, p, l) /\ i \in 1 .. CountOf(c, o)
      /\ \A z \in T : \E o, i : z = <<o, i>>
  BY InNumbered
<1> HIDE DEF S, T
<1>3. \A i : i \in 1 .. n + 1 <=> i \in 1 .. n \/ i = n + 1
  OBVIOUS
<1>4. CASE Concerns(x, p, l)
  <2> DEFINE U == S \cup {<<x, n + 1>>}
  <2>1. \A z \in U : \E o, i : z = <<o, i>>
    BY <1>1
  <2>2. \A o, i : <<o, i>> \in T <=> <<o, i>> \in U
    <3> SUFFICES ASSUME NEW o, NEW i PROVE <<o, i>> \in T <=> <<o, i>> \in U
      OBVIOUS
    <3>1. <<o, i>> \in U <=> <<o, i>> \in S \/ (o = x /\ i = n + 1)
      OBVIOUS
    <3> HIDE DEF U, n
    <3>2. CASE o = x
      BY <1>1, <1>2, <1>3, <1>4, <3>1, <3>2 DEF n
    <3>3. CASE o # x
      <4>1. CountOf(c, o) = CountOf(b, o)
        BY <3>3
      <4> QED BY <1>1, <1>2, <3>1, <3>3, <4>1
    <3> QED BY <3>2, <3>3
  <2>3. T = U
    <3> HIDE DEF U
    <3> QED BY <1>2, <2>1, <2>2, SameNumbered, Zenon
  <2>4. <<x, n + 1>> \notin S
    BY <1>1
  <2> QED BY <1>4, <2>3, <2>4 DEF S, T
<1>5. CASE ~Concerns(x, p, l)
  <2>1. \A o, i : <<o, i>> \in T <=> <<o, i>> \in S
    <3> SUFFICES ASSUME NEW o, NEW i PROVE <<o, i>> \in T <=> <<o, i>> \in S
      OBVIOUS
    <3>1. CASE o = x
      BY <1>1, <1>2, <1>5, <3>1
    <3>2. CASE o # x
      <4>1. CountOf(c, o) = CountOf(b, o)
        BY <3>2
      <4> QED BY <1>1, <1>2, <4>1
    <3> QED BY <3>1, <3>2
  <2>2. T = S
    BY <1>1, <1>2, <2>1, SameNumbered, Zenon
  <2> QED BY <1>5, <2>2 DEF S, T
<1> QED BY <1>4, <1>5

(* And counts one more.                                                    *)
LEMMA OneMoreCounts ==
  ASSUME NEW b, IsABag(b), NEW c, IsABag(c), NEW x,
         CountOf(b, x) \in Nat,
         CountOf(c, x) = CountOf(b, x) + 1,
         \A o : o # x => CountOf(c, o) = CountOf(b, o),
         NEW p, NEW l,
         IsFiniteSet(Numbered(b, p, l)) \/ IsFiniteSet(Numbered(c, p, l))
  PROVE  /\ IsFiniteSet(Numbered(b, p, l)) /\ IsFiniteSet(Numbered(c, p, l))
         /\ Cardinality(Numbered(b, p, l)) \in Nat
         /\ Cardinality(Numbered(c, p, l)) =
              Cardinality(Numbered(b, p, l)) + (IF Concerns(x, p, l) THEN 1 ELSE 0)
<1> DEFINE S == Numbered(b, p, l)
           T == Numbered(c, p, l)
           z == <<x, CountOf(c, x)>>
<1>1. /\ Concerns(x, p, l) => T = S \cup {z} /\ z \notin S
      /\ ~Concerns(x, p, l) => T = S
  BY OneMore
<1> HIDE DEF S, T, z
<1>2. IsFiniteSet(S)
  BY <1>1, FS_Subset DEF S, T
<1>3. Cardinality(S) \in Nat
  BY <1>2, FS_CardinalityType
<1>4. CASE Concerns(x, p, l)
  <2>1. IsFiniteSet(T) /\ Cardinality(T) = Cardinality(S) + 1
    BY <1>1, <1>2, <1>4, FS_AddElement
  <2> QED BY <1>2, <1>3, <1>4, <2>1 DEF S, T
<1>5. CASE ~Concerns(x, p, l)
  <2>1. S = T
    BY <1>1, <1>5
  <2>2. Cardinality(T) = Cardinality(S) + 0
    BY <1>3, <2>1
  <2>3. IsFiniteSet(T)
    BY <1>2, <2>1
  <2> QED BY <1>2, <1>3, <1>5, <2>2, <2>3 DEF S, T
<1> QED BY <1>4, <1>5


-----------------------------------------------------------------------------
(* Sending counts the packets of the sequence; delivering, one less.       *)
LEMMA CountNat ==
  ASSUME NEW b, IsABag(b), NEW x
  PROVE  CountOf(b, x) \in Nat
BY DEF IsABag, CountOf

LEMMA SentOneCounts ==
  ASSUME NEW x
  PROVE  CountOf(Sent(<<x>>), x) = 1 /\ \A o : o # x => CountOf(Sent(<<x>>), o) = 0
<1> DEFINE outs == <<x>>
<1>1. /\ DOMAIN outs = {1} /\ {outs[i] : i \in DOMAIN outs} = {x}
      /\ {i \in DOMAIN outs : outs[i] = x} = {1}
  OBVIOUS
<1> HIDE DEF outs
<1>2. Cardinality({1}) = 1
  BY FS_Singleton
<1>3. Sent(outs) = [o \in {x} |-> Cardinality({i \in DOMAIN outs : outs[i] = o})]
  BY <1>1 DEF Sent
<1>4. CountOf(Sent(outs), x) = 1 /\ \A o : o # x => CountOf(Sent(outs), o) = 0
  BY <1>1, <1>2, <1>3 DEF CountOf
<1> QED BY <1>4 DEF outs

LEMMA SentTwiceCounts ==
  ASSUME NEW x
  PROVE  CountOf(Sent(<<x, x>>), x) = 2 /\ \A o : o # x => CountOf(Sent(<<x, x>>), o) = 0
<1> DEFINE outs == <<x, x>>
<1>1. /\ DOMAIN outs = {1, 2} /\ {outs[i] : i \in DOMAIN outs} = {x}
      /\ {i \in DOMAIN outs : outs[i] = x} = {1, 2}
  OBVIOUS
<1> HIDE DEF outs
<1>2. Cardinality({1, 2}) = 2
  <2>1. IsFiniteSet({1}) /\ Cardinality({1}) = 1
    BY FS_Singleton, Zenon
  <2>3. 2 \notin {1} /\ {1, 2} = {1} \cup {2}
    OBVIOUS
  <2>2. Cardinality({1} \cup {2}) = Cardinality({1}) + 1
    BY <2>1, <2>3, FS_AddElement, Zenon
  <2> QED BY <2>1, <2>2, <2>3
<1>3. Sent(outs) = [o \in {x} |-> Cardinality({i \in DOMAIN outs : outs[i] = o})]
  BY <1>1 DEF Sent
<1>4. CountOf(Sent(outs), x) = 2 /\ \A o : o # x => CountOf(Sent(outs), o) = 0
  BY <1>1, <1>2, <1>3 DEF CountOf
<1> QED BY <1>4 DEF outs

LEMMA SumCounts ==
  ASSUME NEW b, IsABag(b), NEW s, IsABag(s), NEW c, c = b (+) s, NEW o
  PROVE  CountOf(c, o) = CountOf(b, o) + CountOf(s, o)
BY DEF IsABag, (+), CountOf

LEMMA TakeCounts ==
  ASSUME NEW b, IsABag(b), NEW x \in DOMAIN b, NEW c, c = b (-) SetToBag({x})
  PROVE  /\ CountOf(b, x) = CountOf(c, x) + 1
         /\ \A o : o # x => CountOf(b, o) = CountOf(c, o)
<1> DEFINE d == SetToBag({x})
<1>1. d = [e \in {x} |-> 1]
  BY DEF SetToBag
<1>2. \A e \in DOMAIN b : b[e] \in Nat /\ b[e] > 0
  BY DEF IsABag
<1>3. c = LET B == [e \in DOMAIN b |-> IF e \in DOMAIN d THEN b[e] - d[e] ELSE b[e]]
          IN  [e \in {f \in DOMAIN B : B[f] > 0} |-> B[e]]
  BY DEF (-)
<1> HIDE DEF d
<1>4. \A e \in DOMAIN b : e # x => e \in DOMAIN c /\ c[e] = b[e]
  BY <1>1, <1>2, <1>3
<1>5. \A e : e \notin DOMAIN b => e \notin DOMAIN c
  BY <1>3
<1>6. CountOf(b, x) = b[x] /\ CountOf(c, x) = b[x] - 1
  <2>1. x \in DOMAIN d /\ d[x] = 1
    BY <1>1
  <2>2. CASE b[x] - 1 > 0
    <3>1. x \in DOMAIN c /\ c[x] = b[x] - 1
      BY <1>3, <2>1, <2>2
    <3> QED BY <3>1 DEF CountOf
  <2>3. CASE ~(b[x] - 1 > 0)
    <3>1. x \notin DOMAIN c
      BY <1>3, <2>1, <2>3
    <3>2. b[x] = 1
      <4>1. b[x] \in Nat /\ b[x] > 0
        BY <1>2
      <4> QED BY <2>3, <4>1
    <3> QED BY <3>1, <3>2 DEF CountOf
  <2> QED BY <2>2, <2>3
<1>7. \A o : o # x => CountOf(b, o) = CountOf(c, o)
  <2>1. ASSUME NEW o, o # x PROVE CountOf(b, o) = CountOf(c, o)
    <3>1. CASE o \in DOMAIN b
      BY <1>4, <2>1, <3>1 DEF CountOf
    <3>2. CASE o \notin DOMAIN b
      BY <1>5, <3>2 DEF CountOf
    <3> QED BY <3>1, <3>2
  <2> QED BY <2>1
<1>8. CountOf(b, x) = CountOf(c, x) + 1
  <2>1. b[x] \in Nat
    BY <1>2
  <2> QED BY <1>6, <2>1
<1> QED BY <1>7, <1>8


-----------------------------------------------------------------------------
(* What a step does to the traffic between a node and a home.              *)
Load(p, l)       == Cardinality(Numbered(net, p, l))
Finite(p, l)     == IsFiniteSet(Numbered(net, p, l))
Owed(p, l)       == IF Waiting(p, l) THEN 1 ELSE 0
FewTravel        == \A p \in Proc, l \in Line : p # Home[l] => Finite(p, l)

(* A miss adds its request to the traffic of its own block alone.          *)
LEMMA IssueLoad ==
  ASSUME IInv, NEW p \in Proc, NEW isRead \in BOOLEAN, NEW l \in Line, Issue(p, isRead, l),
         NEW q \in Proc, NEW k \in Line, q # Home[k], Finite(q, k)
  PROVE  /\ Load(q, k) \in Nat /\ Finite(q, k)'
         /\ Load(q, k)' = Load(q, k) +
              (IF q = p /\ k = l /\ Answer(p, isRead, l).sent # "NO_REQ" THEN 1 ELSE 0)
<1> DEFINE t == Answer(p, isRead, l).sent
           outs == MemoryRequestSends(p, isRead, l)
           o == Out(Home[l], Msg(t, l, p))
<1>1. outs = IF t = "NO_REQ" THEN <<>> ELSE <<o>>
  BY DEF MemoryRequestSends
<1>2. net' = net (+) Sent(outs) /\ IsABag(net)
  BY DEF Issue, Send, IInv, TypeOK
<1>3. IsABag(net')
  BY IssueNet
<1>4. Concerns(o, q, k) <=> q = p /\ k = l
  BY DEF Concerns, Out, Msg
<1> HIDE DEF t, outs, o
<1>5. Load(q, k) \in Nat
  BY FS_CardinalityType DEF Load, Finite
<1>6. CASE t = "NO_REQ"
  <2>1. IsABag(Sent(outs)) /\ DOMAIN Sent(outs) = {}
    BY <1>1, <1>6, SentNothing, Zenon
  <2>2. \A x : CountOf(net', x) = CountOf(net, x)
    <3>1. \A x : CountOf(net', x) = CountOf(net, x) + CountOf(Sent(outs), x)
      BY <1>2, <2>1, SumCounts
    <3>2. \A x : CountOf(Sent(outs), x) = 0
      BY <2>1 DEF CountOf
    <3>3. \A x : CountOf(net, x) \in Nat
      BY <1>2, CountNat
    <3> QED BY <3>1, <3>2, <3>3
  <2>3. Numbered(net', q, k) = Numbered(net, q, k)
    <3> DEFINE S == Numbered(net, q, k)
               T == Numbered(net', q, k)
    <3>1. /\ \A x, i : <<x, i>> \in S <=> Concerns(x, q, k) /\ i \in 1 .. CountOf(net, x)
          /\ \A z \in S : \E x, i : z = <<x, i>>
      BY <1>2, InNumbered
    <3>2. /\ \A x, i : <<x, i>> \in T <=> Concerns(x, q, k) /\ i \in 1 .. CountOf(net', x)
          /\ \A z \in T : \E x, i : z = <<x, i>>
      BY <1>3, InNumbered
    <3> HIDE DEF S, T
    <3>3. \A x, i : <<x, i>> \in T <=> <<x, i>> \in S
      BY <2>2, <3>1, <3>2
    <3>4. T = S
      BY <3>1, <3>2, <3>3, SameNumbered, Zenon
    <3> QED BY <3>4 DEF S, T
  <2> QED BY <1>5, <1>6, <2>3 DEF Load, Finite, t
<1>7. CASE t # "NO_REQ"
  <2>1. outs = <<o>>
    BY <1>1, <1>7
  <2>2. IsABag(Sent(outs))
    BY <2>1, SentOne, Zenon
  <2>3. \A x : CountOf(net', x) = CountOf(net, x) + CountOf(Sent(outs), x)
    BY <1>2, <2>2, SumCounts
  <2>4. CountOf(Sent(outs), o) = 1 /\ \A x : x # o => CountOf(Sent(outs), x) = 0
    BY <2>1, SentOneCounts, Zenon
  <2>5. \A x : CountOf(net, x) \in Nat
    BY <1>2, CountNat
  <2>6. /\ CountOf(net', o) = CountOf(net, o) + 1
        /\ \A x : x # o => CountOf(net', x) = CountOf(net, x)
    BY <2>3, <2>4, <2>5
  <2>7. /\ IsFiniteSet(Numbered(net', q, k))
        /\ Cardinality(Numbered(net', q, k)) =
             Cardinality(Numbered(net, q, k)) + (IF Concerns(o, q, k) THEN 1 ELSE 0)
    BY <1>2, <1>3, <2>5, <2>6, OneMoreCounts DEF Finite
  <2> QED BY <1>4, <1>5, <1>7, <2>7 DEF Load, Finite, t
<1> QED BY <1>6, <1>7

(* An arrival takes one copy from the traffic it belongs to, and its       *)
(* answers join the same.                                                  *)
LEMMA ReceiveLoad ==
  ASSUME IInv, NEW o, Receive(o), NEW q \in Proc, NEW k \in Line, Finite(q, k)
  PROVE  LET outs == CacheReqSends(o.dest, o.msg)
         IN  /\ Load(q, k) \in Nat /\ Load(q, k)' \in Nat /\ Finite(q, k)'
             /\ ~Concerns(o, q, k) => Load(q, k)' = Load(q, k)
             /\ Concerns(o, q, k) /\ outs = <<>> => Load(q, k) = Load(q, k)' + 1
             /\ Concerns(o, q, k) /\ outs = <<Echo(o)>> => Load(q, k)' = Load(q, k)
             /\ Concerns(o, q, k) /\ outs = <<Echo(o), Echo(o)>> => Load(q, k)' = Load(q, k) + 1
             /\ Concerns(o, q, k) => Load(q, k) > 0
<1> DEFINE outs == CacheReqSends(o.dest, o.msg)
           left == net (-) SetToBag({o})
           e    == Echo(o)
           N(b) == Cardinality(Numbered(b, q, k))
           F(b) == IsFiniteSet(Numbered(b, q, k))
           one  == IF Concerns(o, q, k) THEN 1 ELSE 0
<1>1. o \in DOMAIN net /\ IsABag(net)
  BY DEF Receive, BagIn, BagToSet, IInv, TypeOK
<1>2. net' = left (+) Sent(outs)
  BY DEF Receive, Deliver
<1>3. IsABag(left) /\ IsABag(net')
  BY <1>1, BagTake, ReceiveNet
<1>4. outs \in {<<>>, <<e>>, <<e, e>>}
  BY AnswersAreEchoes DEF Receive
<1>5. Concerns(e, q, k) <=> Concerns(o, q, k)
  BY DEF Concerns, Echo, Out, Msg
<1> HIDE DEF outs, left, e
<1>6. CountOf(net, o) = CountOf(left, o) + 1 /\ \A x : x # o => CountOf(net, x) = CountOf(left, x)
  BY <1>1, TakeCounts DEF left
<1>7. \A x : CountOf(left, x) \in Nat
  BY <1>3, CountNat
<1>8. F(left) /\ N(left) \in Nat /\ N(net) = N(left) + one
  <2>1. /\ IsFiniteSet(Numbered(left, q, k))
        /\ Cardinality(Numbered(left, q, k)) \in Nat
        /\ Cardinality(Numbered(net, q, k)) =
             Cardinality(Numbered(left, q, k)) + (IF Concerns(o, q, k) THEN 1 ELSE 0)
    BY <1>1, <1>3, <1>6, <1>7, OneMoreCounts DEF Finite
  <2> QED BY <2>1
<1>9. /\ \A x : CountOf(net', x) = CountOf(left, x) + CountOf(Sent(outs), x)
      /\ IsABag(Sent(outs))
  <2>1. IsABag(Sent(outs))
    <3>1. outs = <<>> => IsABag(Sent(outs))
      BY SentNothing, Zenon
    <3>2. outs = <<e>> => IsABag(Sent(outs))
      BY SentOne, Zenon
    <3>3. outs = <<e, e>> => IsABag(Sent(outs))
      BY SentTwice, Zenon
    <3> QED BY <1>4, <3>1, <3>2, <3>3
  <2> QED BY <1>2, <1>3, <2>1, SumCounts
<1>10. CASE outs = <<>>
  <2>1. DOMAIN Sent(outs) = {}
    BY <1>10, SentNothing, Zenon
  <2>2. \A x : CountOf(net', x) = CountOf(left, x)
    BY <1>7, <1>9, <2>1 DEF CountOf
  <2>3. Numbered(net', q, k) = Numbered(left, q, k)
    <3> DEFINE S == Numbered(left, q, k)
               T == Numbered(net', q, k)
    <3>1. /\ \A x, i : <<x, i>> \in S <=> Concerns(x, q, k) /\ i \in 1 .. CountOf(left, x)
          /\ \A z \in S : \E x, i : z = <<x, i>>
      BY <1>3, InNumbered
    <3>2. /\ \A x, i : <<x, i>> \in T <=> Concerns(x, q, k) /\ i \in 1 .. CountOf(net', x)
          /\ \A z \in T : \E x, i : z = <<x, i>>
      BY <1>3, InNumbered
    <3> HIDE DEF S, T
    <3>3. \A x, i : <<x, i>> \in T <=> <<x, i>> \in S
      BY <2>2, <3>1, <3>2
    <3>4. T = S
      BY <3>1, <3>2, <3>3, SameNumbered, Zenon
    <3> QED BY <3>4 DEF S, T
  <2>4. <<>> # <<e>> /\ <<>> # <<e, e>>
    OBVIOUS
  <2> QED BY <1>8, <1>10, <2>3, <2>4 DEF Load, Finite, outs, e
<1>11. CASE outs = <<e>>
  <2>1. CountOf(Sent(outs), e) = 1 /\ \A x : x # e => CountOf(Sent(outs), x) = 0
    BY <1>11, SentOneCounts, Zenon
  <2>2. /\ CountOf(net', e) = CountOf(left, e) + 1
        /\ \A x : x # e => CountOf(net', x) = CountOf(left, x)
    BY <1>7, <1>9, <2>1
  <2>3. /\ IsFiniteSet(Numbered(net', q, k))
        /\ Cardinality(Numbered(net', q, k)) =
             Cardinality(Numbered(left, q, k)) + (IF Concerns(e, q, k) THEN 1 ELSE 0)
    BY <1>3, <1>7, <1>8, <2>2, OneMoreCounts
  <2>4. <<e>> # <<>> /\ <<e>> # <<e, e>>
    OBVIOUS
  <2> QED BY <1>5, <1>8, <1>11, <2>3, <2>4 DEF Load, Finite, outs, e
<1>12. CASE outs = <<e, e>>
  <2> DEFINE mid == left (+) Sent(<<e>>)
  <2>1. CountOf(Sent(outs), e) = 2 /\ \A x : x # e => CountOf(Sent(outs), x) = 0
    BY <1>12, SentTwiceCounts, Zenon
  <2>2. /\ IsABag(Sent(<<e>>))
        /\ CountOf(Sent(<<e>>), e) = 1 /\ \A x : x # e => CountOf(Sent(<<e>>), x) = 0
    BY SentOne, SentOneCounts, Zenon
  <2>3. IsABag(mid) /\ \A x : CountOf(mid, x) = CountOf(left, x) + CountOf(Sent(<<e>>), x)
    <3> DEFINE s == Sent(<<e>>)
    <3>1. mid = left (+) s /\ IsABag(s)
      BY <2>2
    <3> HIDE DEF s, mid
    <3>2. IsABag(mid)
      BY <1>3, <3>1, BagSend
    <3>3. \A x : CountOf(mid, x) = CountOf(left, x) + CountOf(s, x)
      BY <1>3, <3>1, SumCounts
    <3> QED BY <3>2, <3>3 DEF s
  <2> HIDE DEF mid
  <2>4. /\ CountOf(mid, e) = CountOf(left, e) + 1
        /\ \A x : x # e => CountOf(mid, x) = CountOf(left, x)
    BY <1>7, <2>2, <2>3
  <2>5. /\ CountOf(net', e) = CountOf(mid, e) + 1
        /\ \A x : x # e => CountOf(net', x) = CountOf(mid, x)
        /\ CountOf(mid, e) \in Nat
    BY <1>7, <1>9, <2>1, <2>4
  <2>6. /\ IsFiniteSet(Numbered(mid, q, k))
        /\ Cardinality(Numbered(mid, q, k)) =
             Cardinality(Numbered(left, q, k)) + (IF Concerns(e, q, k) THEN 1 ELSE 0)
    BY <1>3, <1>7, <1>8, <2>3, <2>4, OneMoreCounts
  <2>7. /\ IsFiniteSet(Numbered(net', q, k))
        /\ Cardinality(Numbered(net', q, k)) =
             Cardinality(Numbered(mid, q, k)) + (IF Concerns(e, q, k) THEN 1 ELSE 0)
    BY <1>3, <2>3, <2>5, <2>6, OneMoreCounts
  <2>8. <<e, e>> # <<>> /\ <<e>> # <<e, e>>
    OBVIOUS
  <2> QED BY <1>5, <1>8, <1>12, <2>6, <2>7, <2>8 DEF Load, Finite, outs, e
<1> QED BY <1>4, <1>10, <1>11, <1>12


-----------------------------------------------------------------------------
(* What keeps stray data from a home that has not cached its block: before *)
(* its home has, a block travels to and from another node at most once,    *)
(* and only while that node waits for it.                                  *)
TravellersAreKnown ==
  \A o \in BagToSet(net), p \in Proc, l \in Line :
    Concerns(o, p, l) /\ p # Home[l] => cacheState[p][l] # "INVALID"

NoSurplusBeforeHome ==
  \A p \in Proc, l \in Line :
    p # Home[l] /\ cacheState[Home[l]][l] = "INVALID" => Load(p, l) <= Owed(p, l)

Traffic ==
  /\ FewTravel
  /\ TravellersAreKnown
  /\ NoSurplusBeforeHome
  /\ StrayDataFindsHomeCached

(* What a step may do to the surplus of one node and one block.            *)
Evened(p, l) ==
  /\ Load(p, l) \in Nat /\ Load(p, l)' \in Nat /\ Finite(p, l)'
  /\ ScansReachHomes => Load(p, l)' - Owed(p, l)' >= Load(p, l) - Owed(p, l)
  /\ cacheState[Home[l]][l] = "INVALID" => Load(p, l)' - Owed(p, l)' <= Load(p, l) - Owed(p, l)

LEMMA Even ==
  ASSUME NEW p \in Proc, NEW l \in Line,
         Load(p, l) \in Nat, Load(p, l)' \in Nat, Finite(p, l)',
         Load(p, l)' + Owed(p, l) = Load(p, l) + Owed(p, l)'
  PROVE  Evened(p, l)
<1>1. Owed(p, l) \in Nat /\ Owed(p, l)' \in Nat
  BY DEF Owed
<1> QED BY <1>1 DEF Evened

LEMMA IssueEven ==
  ASSUME IInv, Traffic, NEW p \in Proc, NEW isRead \in BOOLEAN, NEW l \in Line, Issue(p, isRead, l),
         NEW q \in Proc, NEW k \in Line, q # Home[k]
  PROVE  Evened(q, k)
<1> DEFINE t == Answer(p, isRead, l).sent
           mine == q = p /\ k = l /\ t # "NO_REQ"
<1>1. /\ Load(q, k) \in Nat /\ Finite(q, k)'
      /\ Load(q, k)' = Load(q, k) + (IF mine THEN 1 ELSE 0)
  BY IssueLoad DEF Traffic, FewTravel
<1>2. CASE mine
  <2>1. cacheState[p][l] \in Stable /\ Answer(p, isRead, l).next \in Transient
    BY <1>2, AccessAnswer DEF IInv
  <2>2. cacheState'[p][l] = Answer(p, isRead, l).next
    BY DEF Issue, MemoryRequest, IInv, TypeOK
  <2>3. ~Waiting(p, l) /\ Waiting(p, l)'
    BY <2>1, <2>2 DEF Waiting, Stable, Transient
  <2>4. Owed(q, k) = 0 /\ Owed(q, k)' = 1
    BY <1>2, <2>3 DEF Owed
  <2> QED BY <1>1, <1>2, <2>4, Even
<1>3. CASE ~mine
  <2>1. cacheState' = [cacheState EXCEPT ![p][l] = Answer(p, isRead, l).next]
    BY DEF Issue, MemoryRequest
  <2>2. cacheState[p][l] \in Transient => Answer(p, isRead, l).next = cacheState[p][l]
    BY AccessAnswer DEF IInv
  <2>3. Waiting(q, k) => Waiting(q, k)'
    BY <2>1, <2>2 DEF Waiting, IInv, TypeOK
  <2>4. Waiting(q, k)' => Waiting(q, k)
    BY <1>3, IssueInv
  <2>5. Owed(q, k)' = Owed(q, k)
    BY <2>3, <2>4 DEF Owed
  <2>6. Load(q, k)' = Load(q, k)
    BY <1>1, <1>3
  <2> HIDE DEF mine
  <2> QED BY <1>1, <2>5, <2>6, Even
<1> QED BY <1>2, <1>3

(* Of the two ends of a packet one is the home of its block.               *)
LEMMA OtherEnd ==
  ASSUME IInv, NEW o, BagIn(o, net), NEW q \in Proc, NEW k \in Line, q # Home[k], Concerns(o, q, k)
  PROVE  /\ k = o.msg.line
         /\ \/ o.dest = q /\ o.msg.reply = Home[k] /\ ~ForDirectory(o.msg)
            \/ o.dest = Home[k] /\ o.msg.reply = q
BY Arriving DEF Concerns

LEMMA ReceiveEven ==
  ASSUME IInv, Traffic, NEW o, Receive(o), NEW q \in Proc, NEW k \in Line, q # Home[k]
  PROVE  Evened(q, k)
<1> DEFINE outs == CacheReqSends(o.dest, o.msg)
           e == Echo(o)
<1>1. /\ Load(q, k) \in Nat /\ Load(q, k)' \in Nat /\ Finite(q, k)'
      /\ ~Concerns(o, q, k) => Load(q, k)' = Load(q, k)
      /\ Concerns(o, q, k) /\ outs = <<>> => Load(q, k) = Load(q, k)' + 1
      /\ Concerns(o, q, k) /\ outs = <<e>> => Load(q, k)' = Load(q, k)
      /\ Concerns(o, q, k) /\ outs = <<e, e>> => Load(q, k)' = Load(q, k) + 1
  BY ReceiveLoad DEF Traffic, FewTravel
<1>2. BagIn(o, net) /\ o \in BagToSet(net)
  BY DEF Receive, BagIn
<1>3. /\ outs \in {<<>>, <<e>>, <<e, e>>}
      /\ ForDirectory(o.msg) /\ o.dest < ScanLimit => outs # <<>>
      /\ cacheState[o.dest][o.msg.line] = "INVALID" => outs # <<e, e>>
  BY <1>2, AnswersAreEchoes
<1>4. /\ ForDirectory(o.msg) => (Waiting(q, k)' <=> Waiting(q, k))
      /\ ~ForDirectory(o.msg) =>
           (Waiting(q, k)' <=> Waiting(q, k) /\ ~(q = o.dest /\ k = o.msg.line))
  BY RequestInv, DataInv
<1>5. CASE ~Concerns(o, q, k)
  <2>1. Waiting(q, k)' <=> Waiting(q, k)
    BY <1>4, <1>5 DEF Concerns
  <2>2. Owed(q, k)' = Owed(q, k)
    BY <2>1 DEF Owed
  <2> HIDE DEF outs, e
  <2> QED BY <1>1, <1>5, <2>2, Even
<1>6. CASE Concerns(o, q, k) /\ ForDirectory(o.msg)
  <2>1. o.dest = Home[k] /\ k = o.msg.line
    BY <1>2, <1>6, OtherEnd
  <2>2. Owed(q, k)' = Owed(q, k) /\ Owed(q, k) \in Nat
    BY <1>4, <1>6 DEF Owed
  <2>3. ScansReachHomes => outs # <<>>
    BY <1>3, <1>6, <2>1 DEF ScansReachHomes
  <2>4. cacheState[Home[k]][k] = "INVALID" => outs # <<e, e>>
    BY <1>3, <2>1
  <2> HIDE DEF outs, e
  <2> QED BY <1>1, <1>3, <1>6, <2>2, <2>3, <2>4 DEF Evened
<1>7. CASE Concerns(o, q, k) /\ ~ForDirectory(o.msg) /\ o.dest = Home[k]
  <2>1. k = o.msg.line /\ o.msg.brt = "DATA"
    BY <1>2, <1>7, OtherEnd, Arriving
  <2>2. cacheState[o.dest][o.msg.line] \in {"SHARED_STATE", "MODIFIED"}
    BY <1>2, <1>7, <2>1 DEF Traffic, StrayDataFindsHomeCached
  <2>3. outs = <<e>>
    BY <1>7, <2>2 DEF CacheReqSends, BusReqSends, SendsDataBack, Echo
  <2>4. Owed(q, k)' = Owed(q, k)
    BY <1>4, <1>7 DEF Owed
  <2> HIDE DEF outs, e
  <2> QED BY <1>1, <1>7, <2>3, <2>4, Even
<1>8. CASE Concerns(o, q, k) /\ ~ForDirectory(o.msg) /\ o.dest # Home[k]
  <2>1. k = o.msg.line /\ o.dest = q /\ o.msg.brt = "DATA"
    BY <1>2, <1>8, OtherEnd, Arriving
  <2>2. cacheState[q][k] # "INVALID" /\ cacheState[q][k] \in CacheState
    BY <1>2, <1>8 DEF Traffic, TravellersAreKnown, IInv, TypeOK
  <2>3. outs = IF SendsDataBack(cacheState[q][k], "DATA") THEN <<e>> ELSE <<>>
    BY <1>8, <2>1 DEF CacheReqSends, BusReqSends, Echo
  <2>4. SendsDataBack(cacheState[q][k], "DATA") <=> ~Waiting(q, k)
    BY <2>2 DEF SendsDataBack, Waiting, CacheState, Stable, Transient
  <2>5. ~Waiting(q, k)'
    BY <1>4, <1>8, <2>1
  <2>6. CASE Waiting(q, k)
    <3>1. Owed(q, k) = 1 /\ Owed(q, k)' = 0 /\ outs = <<>>
      BY <2>3, <2>4, <2>5, <2>6 DEF Owed
    <3> HIDE DEF outs, e
    <3> QED BY <1>1, <1>8, <3>1, Even
  <2>7. CASE ~Waiting(q, k)
    <3>1. Owed(q, k)' = Owed(q, k) /\ outs = <<e>>
      BY <2>3, <2>4, <2>5, <2>7 DEF Owed
    <3> HIDE DEF outs, e
    <3> QED BY <1>1, <1>8, <3>1, Even
  <2> QED BY <2>6, <2>7
<1> QED BY <1>5, <1>6, <1>7, <1>8


LEMMA StepEven ==
  ASSUME IInv, Traffic, [Next]_vars, NEW q \in Proc, NEW k \in Line, q # Home[k]
  PROVE  Evened(q, k)
<1>1. ASSUME UNCHANGED <<cacheState, net>>
      PROVE  Evened(q, k)
  <2>1. Load(q, k)' = Load(q, k) /\ Owed(q, k)' = Owed(q, k)
    BY <1>1 DEF Load, Owed, Waiting
  <2>2. Finite(q, k) /\ Finite(q, k)'
    BY <1>1 DEF Traffic, FewTravel, Finite
  <2>3. Load(q, k) \in Nat
    BY <2>2, FS_CardinalityType DEF Load, Finite
  <2> QED BY <2>1, <2>2, <2>3, Even
<1>2. ASSUME NEW p \in Proc, NEW isRead \in BOOLEAN, NEW l \in Line, Issue(p, isRead, l)
      PROVE  Evened(q, k)
  BY <1>2, IssueEven
<1>3. ASSUME NEW o \in BagToSet(net), Receive(o)
      PROVE  Evened(q, k)
  BY <1>3, ReceiveEven
<1>4. CASE Complete
  BY <1>1, <1>4, CompleteInv
<1>5. CASE UNCHANGED vars
  BY <1>1, <1>5 DEF vars, nodeVars
<1> QED BY <1>2, <1>3, <1>4, <1>5 DEF Next

(* A packet only ever travels for a node that has asked for its block.     *)
LEMMA KnownStep ==
  ASSUME IInv, Traffic, [Next]_vars
  PROVE  TravellersAreKnown'
<1> SUFFICES ASSUME NEW o \in DOMAIN net', NEW q \in Proc, NEW k \in Line,
                    Concerns(o, q, k), q # Home[k]
             PROVE  cacheState'[q][k] # "INVALID"
  BY DEF TravellersAreKnown, BagToSet, Concerns
<1>1. cacheState[q][k] # "INVALID" => cacheState'[q][k] # "INVALID"
  BY NextInv DEF CopiesKept
<1>2. \A x \in DOMAIN net : Concerns(x, q, k) => cacheState[q][k] # "INVALID"
  BY DEF Traffic, TravellersAreKnown, BagToSet
<1>3. CASE o \in DOMAIN net
  BY <1>1, <1>2, <1>3
<1>4. ASSUME NEW p \in Proc, NEW isRead \in BOOLEAN, NEW l \in Line, Issue(p, isRead, l),
             o \notin DOMAIN net
      PROVE  cacheState'[q][k] # "INVALID"
  <2> DEFINE t == Answer(p, isRead, l).sent
  <2>1. t # "NO_REQ" /\ o = Out(Home[l], Msg(t, l, p))
    <3>1. /\ t = "NO_REQ" => DOMAIN net' = DOMAIN net
          /\ t # "NO_REQ" => DOMAIN net' = DOMAIN net \cup {Out(Home[l], Msg(t, l, p))}
      BY <1>4, IssueNet
    <3> HIDE DEF t
    <3> QED BY <1>4, <3>1
  <2>2. q = p /\ k = l
    BY <2>1 DEF Concerns, Out, Msg
  <2>3. cacheState'[p][l] = Answer(p, isRead, l).next
    BY <1>4 DEF Issue, MemoryRequest, IInv, TypeOK
  <2>4. Answer(p, isRead, l).next # "INVALID"
    BY <2>2, AccessAnswer DEF IInv
  <2> QED BY <2>2, <2>3, <2>4
<1>5. ASSUME NEW x \in BagToSet(net), Receive(x), o \notin DOMAIN net
      PROVE  cacheState'[q][k] # "INVALID"
  <2>1. o = Echo(x) /\ x \in DOMAIN net
    BY <1>5, ReceiveNet DEF BagToSet
  <2>2. Concerns(x, q, k)
    BY <2>1 DEF Concerns, Echo, Out, Msg
  <2> QED BY <1>1, <1>2, <2>1, <2>2
<1>6. Complete \/ UNCHANGED vars => DOMAIN net' = DOMAIN net
  BY DEF Complete, vars
<1> QED BY <1>3, <1>4, <1>5, <1>6 DEF Next

LEMMA SurplusStep ==
  ASSUME IInv, Traffic, [Next]_vars
  PROVE  NoSurplusBeforeHome' /\ FewTravel'
<1>1. ASSUME NEW p \in Proc, NEW l \in Line, p # Home[l], cacheState'[Home[l]][l] = "INVALID"
      PROVE  Load(p, l)' <= Owed(p, l)'
  <2>1. Home[l] \in Proc
    BY HomeAssumption
  <2>2. cacheState[Home[l]][l] = "INVALID"
    BY <1>1, <2>1, NextInv DEF CopiesKept
  <2>3. Load(p, l) <= Owed(p, l)
    BY <1>1, <2>2 DEF Traffic, NoSurplusBeforeHome
  <2>4. Evened(p, l)
    BY <1>1, StepEven
  <2>5. Owed(p, l) \in Nat /\ Owed(p, l)' \in Nat
    BY DEF Owed
  <2> QED BY <2>2, <2>3, <2>4, <2>5 DEF Evened
<1>2. ASSUME NEW p \in Proc, NEW l \in Line, p # Home[l]
      PROVE  Finite(p, l)'
  BY <1>2, StepEven DEF Evened
<1> QED BY <1>1, <1>2 DEF NoSurplusBeforeHome, FewTravel

(* Data for a home that has not cached the block could only come from a    *)
(* node that does not wait, and such a node then has no packet to answer.  *)
LEMMA StrayStep ==
  ASSUME IInv, Traffic, [Next]_vars
  PROVE  StrayDataFindsHomeCached'
<1> SUFFICES ASSUME NEW o \in DOMAIN net', o.msg.brt = "DATA", o.dest = Home[o.msg.line]
             PROVE  cacheState'[o.dest][o.msg.line] \in {"SHARED_STATE", "MODIFIED"}
  BY DEF StrayDataFindsHomeCached, BagToSet
<1> DEFINE h == o.dest
           l == o.msg.line
<1>1. /\ IInv' /\ CopiesKept
  BY NextInv
<1>2. h \in Proc /\ l \in Line /\ h = Home[l]
  BY <1>1 DEF IInv, TypeOK, PacketSet, Message, BagToSet
<1>3. cacheState[h][l] # "INVALID" => cacheState'[h][l] \in {"SHARED_STATE", "MODIFIED"}
  <2>1. cacheState'[h][l] \in CacheState /\ cacheState'[h][l] \notin Transient
    BY <1>1, <1>2 DEF IInv, TypeOK, HomeNeverWaits, Waiting
  <2>2. cacheState[h][l] # "INVALID" => cacheState'[h][l] # "INVALID"
    BY <1>1, <1>2 DEF CopiesKept
  <2> QED BY <2>1, <2>2 DEF CacheState, Stable
<1>4. CASE o \in DOMAIN net
  <2>1. cacheState[h][l] \in {"SHARED_STATE", "MODIFIED"}
    BY <1>2, <1>4 DEF Traffic, StrayDataFindsHomeCached, BagToSet
  <2> QED BY <1>3, <2>1
<1>5. ASSUME NEW p \in Proc, NEW isRead \in BOOLEAN, NEW k \in Line, Issue(p, isRead, k)
      PROVE  o \in DOMAIN net
  <2> DEFINE t == Answer(p, isRead, k).sent
  <2>1. /\ t = "NO_REQ" => DOMAIN net' = DOMAIN net
        /\ t # "NO_REQ" => DOMAIN net' = DOMAIN net \cup {Out(Home[k], Msg(t, k, p))}
    BY <1>5, IssueNet
  <2>2. t \in {"NO_REQ", "BUSRD", "BUSWR"}
    BY AccessAnswer DEF IInv
  <2> HIDE DEF t
  <2>3. o # Out(Home[k], Msg(t, k, p))
    BY <2>2 DEF Out, Msg
  <2> QED BY <2>1, <2>3
<1>6. ASSUME NEW x \in BagToSet(net), Receive(x), o \notin DOMAIN net
      PROVE  cacheState'[h][l] \in {"SHARED_STATE", "MODIFIED"}
  <2> DEFINE q == x.dest
  <2>1. BagIn(x, net) /\ o = Echo(x) /\ CacheReqSends(x.dest, x.msg) # <<>>
    BY <1>6, ReceiveNet DEF BagToSet, BagIn
  <2>2. x.msg.reply = h /\ x.msg.line = l
    BY <2>1 DEF Echo, Out, Msg
  <2>3. q \in Proc /\ q # h /\ ~ForDirectory(x.msg) /\ x.msg.brt = "DATA"
    BY <1>2, <2>1, <2>2, Arriving
  <2>4. cacheState[q][l] \in {"SHARED_STATE", "MODIFIED"}
    BY <2>1, <2>2, <2>3 DEF CacheReqSends, BusReqSends, SendsDataBack
  <2>5. Owed(q, l) = 0
    BY <2>4 DEF Owed, Waiting, Transient
  <2>6. Load(q, l) \in Nat /\ Load(q, l) > 0
    <3>1. Concerns(x, q, l)
      BY <2>2 DEF Concerns
    <3>2. Finite(q, l)
      BY <1>2, <2>3 DEF Traffic, FewTravel
    <3> QED BY <1>2, <1>6, <2>3, <3>1, <3>2, ReceiveLoad
  <2>7. cacheState[h][l] # "INVALID"
    <3>1. cacheState[h][l] = "INVALID" => Load(q, l) <= Owed(q, l)
      BY <1>2, <2>3 DEF Traffic, NoSurplusBeforeHome
    <3> HIDE DEF h, l, q
    <3> QED BY <2>5, <2>6, <3>1
  <2> QED BY <1>3, <2>7
<1>7. Complete \/ UNCHANGED vars => DOMAIN net' = DOMAIN net
  BY DEF Complete, vars
<1> QED BY <1>4, <1>5, <1>6, <1>7 DEF Next

LEMMA TrafficInit == Init => Traffic
<1> SUFFICES ASSUME Init PROVE Traffic
  OBVIOUS
<1>1. net = EmptyBag /\ DOMAIN net = {}
  BY DEF Init, NetInit, EmptyBag, SetToBag
<1>2. \A p \in Proc, l \in Line : Numbered(net, p, l) = {}
  BY <1>1 DEF Numbered
<1>3. \A p \in Proc, l \in Line : Finite(p, l) /\ Load(p, l) = 0
  BY <1>2, FS_EmptySet DEF Finite, Load
<1>4. \A p \in Proc, l \in Line : Owed(p, l) \in {0, 1}
  BY DEF Owed
<1>5. FewTravel /\ NoSurplusBeforeHome
  BY <1>3, <1>4 DEF FewTravel, NoSurplusBeforeHome
<1>6. TravellersAreKnown /\ StrayDataFindsHomeCached
  BY <1>1 DEF TravellersAreKnown, StrayDataFindsHomeCached, BagToSet
<1> QED BY <1>5, <1>6 DEF Traffic

THEOREM TrafficInvariant == Spec => [](IInv /\ Traffic)
<1>1. Init => IInv /\ Traffic
  BY InitInv, TrafficInit
<1>2. IInv /\ Traffic /\ [Next]_vars => (IInv /\ Traffic)'
  <2> SUFFICES ASSUME IInv, Traffic, [Next]_vars
               PROVE  (IInv /\ Traffic)'
    OBVIOUS
  <2>1. IInv'
    BY NextInv
  <2>2. FewTravel' /\ NoSurplusBeforeHome'
    BY SurplusStep
  <2> QED BY <2>1, <2>2, KnownStep, StrayStep DEF Traffic
<1> QED BY <1>1, <1>2, PTL DEF Spec

(* Stray data is never absorbed at a home.                                 *)
THEOREM StrayDataBounces == Spec => []StrayDataFindsHomeCached
<1>1. IInv /\ Traffic => StrayDataFindsHomeCached
  BY DEF Traffic
<1> QED BY TrafficInvariant, <1>1, PTL

(* Where the loops over directory[] reach every home, what travels without *)
(* having been asked for never becomes less: there is no way for the       *)
(* machine to get rid of a second copy once it is out.                     *)
THEOREM SurplusStays ==
  ASSUME ScansReachHomes
  PROVE  Spec => SurplusNeverShrinks
<1>1. ASSUME IInv, Traffic, [Next]_vars, NEW p \in Proc, NEW l \in Line, p # Home[l]
      PROVE  Surplus(p, l)' >= Surplus(p, l)
  <2>1. Surplus(p, l) = Load(p, l) - Owed(p, l) /\ Surplus(p, l)' = Load(p, l)' - Owed(p, l)'
    BY CopiesNumbered DEF Surplus, Load, Owed
  <2>2. Evened(p, l)
    BY <1>1, StepEven
  <2> QED BY <2>1, <2>2 DEF Evened
<1>2. IInv /\ Traffic /\ [Next]_vars =>
        [\A p \in Proc, l \in Line : p # Home[l] => Surplus(p, l)' >= Surplus(p, l)]_vars
  BY <1>1
<1> QED BY TrafficInvariant, <1>2, PTL DEF Spec, SurplusNeverShrinks

=============================================================================
