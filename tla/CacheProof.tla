----------------------------- MODULE CacheProof ------------------------------
(***************************************************************************)
(* Proofs about InOrderMachine.                                            *)
(***************************************************************************)
EXTENDS InOrderMachine, FiniteSetTheorems, WellFoundedInduction, TLAPS

-----------------------------------------------------------------------------
(* Arithmetic of powers of two and of division.                            *)

LEMMA PowerCounts ==
  ASSUME NEW S, IsFiniteSet(S)
  PROVE  /\ 2 ^ Cardinality(S) = Cardinality(SUBSET S)
         /\ IsFiniteSet(SUBSET S)
         /\ 2 ^ Cardinality(S) \in Nat /\ 2 ^ Cardinality(S) > 0
<1>1. 2 ^ Cardinality(S) = Cardinality(SUBSET S) /\ IsFiniteSet(SUBSET S)
  BY FS_SUBSET, Zenon
<1>2. Cardinality(SUBSET S) \in Nat
  BY <1>1, FS_CardinalityType, Zenon
<1>3. Cardinality(SUBSET S) # 0
  <2>1. SUBSET S # {}
    OBVIOUS
  <2> QED BY <1>1, <2>1, FS_EmptySet, Zenon
<1> QED BY <1>1, <1>2, <1>3

LEMMA UpTo ==
  ASSUME NEW i \in Nat, NEW n \in Nat
  PROVE  IsFiniteSet(i + 1 .. i + n) /\ Cardinality(i + 1 .. i + n) = n
<1>1. i + 1 \in Int /\ i + n \in Int
  OBVIOUS
<1>2. /\ IsFiniteSet(i + 1 .. i + n)
      /\ Cardinality(i + 1 .. i + n) = IF i + 1 > i + n THEN 0 ELSE i + n - (i + 1) + 1
  BY <1>1, FS_Interval
<1> QED BY <1>2

LEMMA Power ==
  ASSUME NEW n \in Nat
  PROVE  2 ^ n \in Nat /\ 2 ^ n > 0
<1>1. IsFiniteSet(0 + 1 .. 0 + n) /\ Cardinality(0 + 1 .. 0 + n) = n
  BY UpTo
<1> QED BY <1>1, PowerCounts

(* A subset of a sum is a pair of subsets.                                 *)
LEMMA PowerSum ==
  ASSUME NEW m \in Nat, NEW n \in Nat
  PROVE  2 ^ (m + n) = 2 ^ m * 2 ^ n
<1> DEFINE A == 0 + 1 .. 0 + m
           B == m + 1 .. m + n
           C == 0 + 1 .. 0 + (m + n)
           pairs == (SUBSET A) \X (SUBSET B)
           f == [X \in SUBSET C |-> <<X \cap A, X \cap B>>]
<1>1. /\ IsFiniteSet(A) /\ Cardinality(A) = m
      /\ IsFiniteSet(B) /\ Cardinality(B) = n
      /\ IsFiniteSet(C) /\ Cardinality(C) = m + n
  <2>1. 0 \in Nat /\ m + n \in Nat
    OBVIOUS
  <2>2. IsFiniteSet(A) /\ Cardinality(A) = m
    BY <2>1, UpTo
  <2>3. IsFiniteSet(B) /\ Cardinality(B) = n
    BY UpTo
  <2>4. IsFiniteSet(C) /\ Cardinality(C) = m + n
    BY <2>1, UpTo
  <2> QED BY <2>2, <2>3, <2>4
<1>2. C = A \cup B /\ A \cap B = {}
  OBVIOUS
<1> HIDE DEF A, B, C
<1>3. /\ 2 ^ m = Cardinality(SUBSET A) /\ IsFiniteSet(SUBSET A)
      /\ 2 ^ n = Cardinality(SUBSET B) /\ IsFiniteSet(SUBSET B)
      /\ 2 ^ (m + n) = Cardinality(SUBSET C) /\ IsFiniteSet(SUBSET C)
  BY <1>1, PowerCounts
<1>4. Cardinality(pairs) = 2 ^ m * 2 ^ n
  <2>1. Cardinality(pairs) = Cardinality(SUBSET A) * Cardinality(SUBSET B)
    BY <1>3, FS_Product
  <2> QED BY <1>3, <2>1
<1>5. f \in Bijection(SUBSET C, pairs)
  <2>1. f \in [SUBSET C -> pairs]
    OBVIOUS
  <2>2. \A X, Y \in SUBSET C : f[X] = f[Y] => X = Y
    <3> SUFFICES ASSUME NEW X \in SUBSET C, NEW Y \in SUBSET C, f[X] = f[Y]
                 PROVE  X = Y
      OBVIOUS
    <3>1. X \cap A = Y \cap A /\ X \cap B = Y \cap B
      OBVIOUS
    <3> QED BY <1>2, <3>1
  <2>3. \A t \in pairs : \E X \in SUBSET C : f[X] = t
    <3> TAKE t \in pairs
    <3>3. PICK X \in SUBSET A, Y \in SUBSET B : t = <<X, Y>>
      OBVIOUS
    <3>1. X \cup Y \in SUBSET C
      BY <1>2
    <3>2. (X \cup Y) \cap A = X /\ (X \cup Y) \cap B = Y
      BY <1>2
    <3> QED BY <3>1, <3>2, <3>3
  <2> HIDE DEF f, pairs
  <2>4. f \in Injection(SUBSET C, pairs)
    BY <2>1, <2>2 DEF Injection, IsInjective
  <2>5. f \in Surjection(SUBSET C, pairs)
    BY <2>1, <2>3 DEF Surjection
  <2> QED BY <2>4, <2>5 DEF Bijection
<1>6. Cardinality(pairs) = Cardinality(SUBSET C)
  <2> HIDE DEF f, pairs
  <2>1. ExistsBijection(SUBSET C, pairs)
    BY <1>5 DEF ExistsBijection
  <2> QED BY <1>3, <2>1, FS_Bijection
<1> QED BY <1>3, <1>4, <1>6

LEMMA PowerGrows ==
  ASSUME NEW m \in Nat, NEW n \in Nat, m <= n
  PROVE  2 ^ m <= 2 ^ n
<1> DEFINE d == n - m
<1>1. d \in Nat /\ n = m + d
  OBVIOUS
<1> HIDE DEF d
<1>2. 2 ^ n = 2 ^ m * 2 ^ d
  BY <1>1, PowerSum
<1>3. 2 ^ m \in Nat /\ 2 ^ d \in Nat /\ 2 ^ d > 0
  BY <1>1, Power
<1> DEFINE x == 2 ^ m
           y == 2 ^ d
           z == 2 ^ n
<1>4. x \in Nat /\ y \in Nat /\ y >= 1 /\ z = x * y
  BY <1>2, <1>3
<1> HIDE DEF x, y, z
<1>5. x <= z
  BY <1>4
<1> QED BY <1>5 DEF x, z

(* Division with a remainder, and the only one.                            *)
LEMMA Divide ==
  ASSUME NEW x \in Nat, NEW d \in Nat, d > 0
  PROVE  /\ x \div d \in Nat /\ x % d \in Nat
         /\ x % d < d
         /\ x = d * (x \div d) + (x % d)
OBVIOUS

LEMMA Multiples ==
  ASSUME NEW x \in Int, NEW y \in Int, NEW d \in Nat, d > 0, x < y
  PROVE  d * x + d <= d * y
<1> DEFINE n == y - x - 1
<1>1. n \in Nat /\ y = x + 1 + n
  OBVIOUS
<1> HIDE DEF n
<1>2. d * y = d * x + d + d * n
  BY <1>1
<1>3. d * n >= 0 /\ d * n \in Int /\ d * x \in Int /\ d * y \in Int
  BY <1>1
<1> QED BY <1>2, <1>3

LEMMA DivideOnce ==
  ASSUME NEW x \in Nat, NEW d \in Nat, d > 0, NEW t \in Int, NEW r \in Int,
         x = d * t + r, 0 <= r, r < d
  PROVE  x \div d = t /\ x % d = r
<1> DEFINE y == x \div d
           z == x % d
<1>1. y \in Nat /\ z \in Nat /\ z < d /\ x = d * y + z
  BY Divide
<1> HIDE DEF y, z
<1>2. d * y \in Int /\ d * t \in Int
  BY <1>1
<1>3. ~(y < t)
  <2> SUFFICES ASSUME y < t PROVE FALSE
    OBVIOUS
  <2>1. d * y + d <= d * t
    BY <1>1, Multiples
  <2> QED BY <1>1, <1>2, <2>1
<1>4. ~(t < y)
  <2> SUFFICES ASSUME t < y PROVE FALSE
    OBVIOUS
  <2>1. d * t + d <= d * y
    BY <1>1, Multiples
  <2> QED BY <1>1, <1>2, <2>1
<1>5. y = t
  BY <1>1, <1>3, <1>4
<1>6. z = r
  BY <1>1, <1>2, <1>5
<1> QED BY <1>5, <1>6 DEF y, z

(* Dividing twice.                                                         *)
LEMMA DivideTwice ==
  ASSUME NEW x \in Nat, NEW d \in Nat, d > 0, NEW e \in Nat, e > 0
  PROVE  x \div (d * e) = (x \div d) \div e
<1> DEFINE y == x \div d
           q == y \div e
           r == y % e
           w == x % d
<1>1. y \in Nat /\ w \in Nat /\ w < d /\ x = d * y + w
  BY Divide
<1>2. q \in Nat /\ r \in Nat /\ r < e /\ y = e * q + r
  BY <1>1, Divide
<1> HIDE DEF y, q, r, w
<1>3. x = (d * e) * q + (d * r + w)
  <2>1. d * y = d * (e * q) + d * r
    BY <1>1, <1>2
  <2>2. d * (e * q) = (d * e) * q
    BY <1>1, <1>2
  <2>3. d * y \in Int /\ d * (e * q) \in Int /\ d * r \in Int
    BY <1>1, <1>2
  <2> QED BY <1>1, <2>1, <2>2, <2>3
<1>4. d * r + w < d * e /\ 0 <= d * r + w
  <2>1. d * r + d <= d * e
    BY <1>2, Multiples
  <2>2. d * r \in Int /\ d * e \in Int /\ d * r >= 0
    BY <1>2
  <2> QED BY <1>1, <2>1, <2>2
<1>5. d * e \in Nat /\ d * e > 0 /\ d * r + w \in Int
  BY <1>1, <1>2
<1> DEFINE de == d * e
           rest == d * r + w
<1>6. x = de * q + rest /\ 0 <= rest /\ rest < de /\ de \in Nat /\ de > 0 /\ rest \in Int
  BY <1>3, <1>4, <1>5
<1> HIDE DEF de, rest
<1>7. x \div de = q
  BY <1>2, <1>6, DivideOnce
<1> QED BY <1>7 DEF de, q, y

-----------------------------------------------------------------------------
(* A set of slots that is not empty has a first one.                       *)
LEMMA FirstExists ==
  ASSUME NEW I, I \subseteq Slot, I # {}
  PROVE  FirstOf(I) \in I /\ \A j \in I : FirstOf(I) <= j
<1>1. Slot \subseteq Nat
  BY GeometryAssumption DEF Slot
<1>2. PICK x \in I : \A y \in I : ~(<<y, x>> \in OpToRel(<, Nat))
  BY <1>1, NatLessThanWellFounded, WFMin
<1>3. \A y \in I : ~(y < x)
  <2> SUFFICES ASSUME NEW y \in I, y < x PROVE FALSE
    OBVIOUS
  <2>1. <<y, x>> \in Nat \X Nat /\ <<y, x>>[1] = y /\ <<y, x>>[2] = x
    BY <1>1
  <2>2. <<y, x>> \in OpToRel(<, Nat)
    BY <2>1, Zenon DEF OpToRel
  <2> QED
    BY <1>2, <2>2
<1>4. \A y \in I : x <= y
  BY <1>1, <1>3
<1> QED
  BY <1>4 DEF FirstOf

-----------------------------------------------------------------------------
(* A set of lines as the code keeps it: lines with data stand before the   *)
(* first free one, and of two lines with the same tag the later is empty.  *)
Fields(line) ==
  [tag |-> line.tag, age |-> line.age, dirty |-> line.dirty,
   valid_line |-> line.valid_line, valid |-> line.valid]

SetShape(set) == set = [i \in Slot |-> Fields(set[i])]

SetSafe(set) ==
  \A i, j \in Slot :
    i < j /\ (~set[i].valid_line \/ set[i].tag = set[j].tag) => set[j].valid = {}

IInv ==
  /\ cache_sim = [st \in SetIdx |-> cache_sim[st]]
  /\ \A st \in SetIdx : SetShape(cache_sim[st]) /\ SetSafe(cache_sim[st])

(* What a call does to the fields the invariant is about.                  *)
LEMMA AfterFields ==
  ASSUME NEW set, SetShape(set), NEW c, NEW def, NEW j \in Slot
  PROVE  LET new == SetAfter(set, c, def)[j] IN
         /\ SetAfter(set, c, def)[j] = Fields(SetAfter(set, c, def)[j])
         /\ j # Chosen(set, TagOf(c.addr)) =>
              /\ new.tag = set[j].tag
              /\ new.valid_line = set[j].valid_line
              /\ new.valid = set[j].valid
         /\ j = Chosen(set, TagOf(c.addr)) =>
              /\ new.tag = TagOf(c.addr)
              /\ new.valid_line
<1>1. CASE j # Chosen(set, TagOf(c.addr))
  <2> DEFINE a == Aged(set, TagOf(c.addr), def)[j]
  <2>1. SetAfter(set, c, def)[j] = [set[j] EXCEPT !.age = a]
    BY <1>1 DEF SetAfter
  <2>2. set[j] = Fields(set[j])
    BY DEF SetShape
  <2> HIDE DEF a
  <2>3. [set[j] EXCEPT !.age = a] =
          [tag |-> set[j].tag, age |-> a, dirty |-> set[j].dirty,
           valid_line |-> set[j].valid_line, valid |-> set[j].valid]
    BY <2>2 DEF Fields
  <2> QED
    BY <1>1, <2>1, <2>3 DEF Fields
<1>2. CASE j = Chosen(set, TagOf(c.addr))
  <2> DEFINE out   == Outcome(set, TagOf(c.addr))
             age   == cache_update(Aged(set, TagOf(c.addr), def)[j], out, 0)
             dirty == ~c.isRead \/ (out # "EVICT" /\ set[j].dirty)
             valid == Touched(c) \cup (IF out = "EVICT" THEN {} ELSE set[j].valid)
  <2>1. SetAfter(set, c, def)[j] =
          [tag |-> TagOf(c.addr), age |-> age, dirty |-> dirty,
           valid_line |-> TRUE, valid |-> valid]
    BY <1>2 DEF SetAfter
  <2> HIDE DEF age, dirty, valid
  <2> QED
    BY <1>2, <2>1 DEF Fields
<1> QED
  BY <1>1, <1>2

(* The scan stops at the first line that is free or has the tag.           *)
LEMMA ScanStops ==
  ASSUME NEW set, NEW tag
  PROVE  \/ \A i \in Slot : set[i].valid_line /\ set[i].tag # tag
         \/ /\ Chosen(set, tag) \in Slot
            /\ ~set[Chosen(set, tag)].valid_line \/ set[Chosen(set, tag)].tag = tag
            /\ \A i \in Slot : i < Chosen(set, tag) => set[i].valid_line /\ set[i].tag # tag
<1>1. CASE Evicts(set, tag)
  BY <1>1 DEF Evicts, Stops
<1>2. CASE ~Evicts(set, tag)
  <2>1. Stops(set, tag) \subseteq Slot /\ Stops(set, tag) # {}
    BY <1>2 DEF Evicts, Stops
  <2>2. Chosen(set, tag) = FirstOf(Stops(set, tag))
    BY <1>2 DEF Chosen
  <2>3. /\ Chosen(set, tag) \in Stops(set, tag)
        /\ \A i \in Stops(set, tag) : Chosen(set, tag) <= i
    BY <2>1, <2>2, FirstExists
  <2>4. \A i \in Slot : i < Chosen(set, tag) => i \notin Stops(set, tag)
    BY <2>1, <2>3, GeometryAssumption DEF Slot
  <2> QED
    BY <2>1, <2>3, <2>4 DEF Stops
<1> QED
  BY <1>1, <1>2

LEMMA AfterSafe ==
  ASSUME NEW set, SetShape(set), SetSafe(set), NEW c, NEW def
  PROVE  SetShape(SetAfter(set, c, def)) /\ SetSafe(SetAfter(set, c, def))
<1> DEFINE new == SetAfter(set, c, def)
           tag == TagOf(c.addr)
           ch  == Chosen(set, tag)
<1>1. SetShape(new)
  <2>1. \A j \in Slot : new[j] = Fields(new[j])
    BY AfterFields
  <2>2. new = [j \in Slot |-> new[j]]
    BY DEF SetAfter
  <2> QED
    BY <2>1, <2>2, Zenon DEF SetShape
<1>2. SetSafe(new)
  <2> SUFFICES ASSUME NEW i \in Slot, NEW j \in Slot, i < j,
                      ~new[i].valid_line \/ new[i].tag = new[j].tag
               PROVE  new[j].valid = {}
    BY DEF SetSafe
  <2>1. i # j
    BY GeometryAssumption DEF Slot
  <2>2. ~set[i].valid_line \/ set[i].tag = set[j].tag => set[j].valid = {}
    BY DEF SetSafe
  <2>3. /\ i # ch => new[i].tag = set[i].tag /\ new[i].valid_line = set[i].valid_line
        /\ i = ch => new[i].tag = tag /\ new[i].valid_line
    BY AfterFields
  <2>4. /\ j # ch => new[j].tag = set[j].tag /\ new[j].valid = set[j].valid
        /\ j = ch => new[j].tag = tag
    BY AfterFields
  <2> HIDE DEF new, ch, tag
  <2>5. CASE \A x \in Slot : set[x].valid_line /\ set[x].tag # tag
    <3>1. j # ch
      BY <2>1, <2>3, <2>4, <2>5
    <3>2. i # ch
      BY <2>1, <2>3, <2>4, <2>5, <3>1
    <3> QED
      BY <2>2, <2>3, <2>4, <3>1, <3>2
  <2>6. CASE /\ ch \in Slot
             /\ ~set[ch].valid_line \/ set[ch].tag = tag
             /\ \A x \in Slot : x < ch => set[x].valid_line /\ set[x].tag # tag
    <3>1. j # ch
      BY <2>1, <2>3, <2>4, <2>6
    <3>2. CASE i = ch
      BY <2>2, <2>3, <2>4, <2>6, <3>1, <3>2
    <3>3. CASE i # ch
      BY <2>2, <2>3, <2>4, <3>1, <3>3
    <3> QED
      BY <3>2, <3>3
  <2> QED
    BY <2>5, <2>6, ScanStops DEF ch, tag
<1> QED
  BY <1>1, <1>2

-----------------------------------------------------------------------------
LEMMA InitInv == Init => IInv
<1> SUFFICES ASSUME Init PROVE IInv
  OBVIOUS
<1>1. PICK filled \in SUBSET Stale :
        cache_sim = [st \in SetIdx |-> [i \in Slot |-> init_line(<<st, i>> \in filled)]]
  BY DEF Init, CacheInit
<1>2. \A st \in SetIdx : SetSafe(cache_sim[st])
  BY <1>1 DEF SetSafe, init_line
<1>3. \A st \in SetIdx : SetShape(cache_sim[st])
  BY <1>1 DEF SetShape, Fields, init_line
<1> QED
  BY <1>1, <1>2, <1>3 DEF IInv

LEMMA ServeKeepsInv ==
  ASSUME IInv, NEW def, NEW more, Serve(def, more)
  PROVE  IInv'
<1> DEFINE c == Head(calls)
<1>1. cache_sim' = [cache_sim EXCEPT ![SetOf(c.addr)] = SetAfter(@, c, def)]
  BY DEF Serve
<1> HIDE DEF c
<1>2. \A st \in SetIdx :
        cache_sim'[st] = IF st = SetOf(c.addr) THEN SetAfter(cache_sim[st], c, def)
                                               ELSE cache_sim[st]
  BY <1>1 DEF IInv
<1>3. cache_sim' = [st \in SetIdx |-> cache_sim'[st]]
  BY <1>1 DEF IInv
<1>4. \A st \in SetIdx : SetShape(cache_sim'[st]) /\ SetSafe(cache_sim'[st])
  BY <1>2, AfterSafe DEF IInv
<1> QED
  BY <1>3, <1>4 DEF IInv, SetShape, SetSafe

LEMMA NextKeepsInv == IInv /\ [Next]_vars => IInv'
<1> SUFFICES ASSUME IInv, [Next]_vars PROVE IInv'
  OBVIOUS
<1>1. CASE UNCHANGED cache_sim
  BY <1>1 DEF IInv, SetShape, SetSafe
<1>2. CASE Call
  <2>1. EmptyCall => UNCHANGED cache_sim
    BY DEF EmptyCall
  <2>2. load_cache_impl => IInv'
    BY ServeKeepsInv DEF load_cache_impl
  <2>3. store_cache_impl => IInv'
    BY ServeKeepsInv DEF store_cache_impl
  <2>4. load_cache_final => IInv'
    BY ServeKeepsInv DEF load_cache_final
  <2>5. store_cache_final => IInv'
    BY ServeKeepsInv DEF store_cache_final
  <2> QED
    BY <1>1, <1>2, <2>1, <2>2, <2>3, <2>4, <2>5 DEF Call
<1>3. Next => Call \/ UNCHANGED cache_sim
  BY DEF Next, TickCache, WaitForMemory, WaitForBranch, Run, Pass, Branch, MemoryRequest,
         CallLines, Accept, linesVars
<1> QED
  BY <1>1, <1>2, <1>3 DEF vars, linesVars

(* However the lines are marked at the start, and whatever is loaded and   *)
(* stored under either policy and version, no sub-block is ever valid in   *)
(* two lines of its tag.                                                   *)
THEOREM HeldOnceHolds == Spec => []HeldOnce
<1>1. IInv => HeldOnce
  <2> SUFFICES ASSUME IInv, NEW st \in SetIdx, NEW i \in Slot, NEW j \in Slot, i # j,
                      cache_sim[st][i].tag = cache_sim[st][j].tag
               PROVE  cache_sim[st][i].valid = {} \/ cache_sim[st][j].valid = {}
    BY DEF HeldOnce
  <2>1. i < j \/ j < i
    BY GeometryAssumption DEF Slot
  <2> QED
    BY <2>1 DEF IInv, SetSafe
<1> QED
  BY <1>1, InitInv, NextKeepsInv, PTL DEF Spec


-----------------------------------------------------------------------------
(* Types: what the fields of an address and of a line may be.              *)

LEMMA AgeFits ==
  /\ \A x \in Int : x % 2 ^ AgeBits \in Age
  /\ 2 ^ k - 1 \in Age /\ 2 ^ k - 1 \in Int /\ 2 ^ k - 2 \in Int
  /\ 0 \in Age
  /\ Age \subseteq Nat
<1> DEFINE m == 2 ^ AgeBits
           n == 2 ^ k
<1>1. m \in Nat /\ m > 0 /\ n \in Nat /\ n > 0 /\ n <= m
  BY Power, PowerGrows, GeometryAssumption, ShiftAssumption
<1>2. Age = 0 .. m - 1
  BY DEF Age
<1> HIDE DEF m, n
<1>3. \A x \in Int : x % m \in 0 .. m - 1
  BY <1>1
<1>4. n - 1 \in 0 .. m - 1 /\ n - 1 \in Int /\ n - 2 \in Int /\ 0 \in 0 .. m - 1
  BY <1>1
<1>5. 0 .. m - 1 \subseteq Nat
  BY <1>1
<1> QED BY <1>2, <1>3, <1>4, <1>5 DEF m, n

LEMMA UpdateFits ==
  ASSUME use_RRIP \in BOOLEAN, NEW age \in Age, NEW outcome, NEW def \in Int
  PROVE  cache_update(age, outcome, def) \in Age
<1>1. age + 1 \in Int /\ age + def \in Int
  BY AgeFits
<1>2. lru_update(age, outcome, def) \in Age
  BY <1>1, AgeFits DEF lru_update
<1>3. rrip_update(age, outcome, def) \in Age
  BY <1>1, AgeFits DEF rrip_update
<1> QED BY <1>2, <1>3 DEF cache_update

LEMMA FieldsFit ==
  ASSUME NEW addr \in Nat
  PROVE  /\ SetOf(addr) \in SetIdx
         /\ SubBlockOf(addr) \in Piece
         /\ OffsetOf(addr) \in 0 .. 2 ^ b - 1
         /\ TagOf(addr) \in Nat
<1>1. /\ s \in Nat /\ b \in Nat /\ u \in Nat /\ b + u \in Nat /\ s + b + u \in Nat
  BY GeometryAssumption
<1> DEFINE S == 2 ^ s
           P == 2 ^ b
           Q == 2 ^ u
           W == 2 ^ (b + u)
           V == 2 ^ (s + b + u)
<1>2. /\ S \in Nat /\ S > 0 /\ P \in Nat /\ P > 0 /\ Q \in Nat /\ Q > 0
      /\ W \in Nat /\ W > 0 /\ V \in Nat /\ V > 0
  BY <1>1, Power
<1>3. /\ SetOf(addr) = (addr \div W) % S /\ SubBlockOf(addr) = (addr \div P) % Q
      /\ OffsetOf(addr) = addr % P /\ TagOf(addr) = addr \div V
      /\ SetIdx = 0 .. S - 1 /\ Piece = 0 .. Q - 1
  BY DEF SetOf, SubBlockOf, OffsetOf, TagOf, SetIdx, Piece
<1> HIDE DEF S, P, Q, W, V
<1>4. addr \div W \in Nat /\ addr \div P \in Nat /\ addr \div V \in Nat
  BY <1>2
<1>5. \A x \in Nat : x % S \in 0 .. S - 1 /\ x % Q \in 0 .. Q - 1 /\ x % P \in 0 .. P - 1
  BY <1>2
<1> QED BY <1>3, <1>4, <1>5 DEF P

(* The eldest of the lines of a set.                                       *)
LEMMA EldestExists ==
  ASSUME NEW set, \A i \in Slot : set[i].age \in Age
  PROVE  Eldest(set) # {}
<1> DEFINE m == 2 ^ AgeBits - 1
           youth == {m - set[i].age : i \in Slot}
<1>1. m \in Int /\ \A i \in Slot : set[i].age \in Nat /\ m - set[i].age \in Nat
  <2>1. 2 ^ AgeBits \in Nat
    BY Power, GeometryAssumption
  <2> QED BY <2>1 DEF Age
<1> HIDE DEF m
<1>2. youth \subseteq Nat /\ youth # {}
  <2>1. 0 \in Slot
    BY GeometryAssumption DEF Slot
  <2> QED BY <1>1, <2>1
<1>3. PICK x \in youth : \A y \in youth : ~(<<y, x>> \in OpToRel(<, Nat))
  <2> HIDE DEF youth
  <2> QED BY <1>2, NatLessThanWellFounded, WFMin
<1>4. \A y \in youth : ~(y < x)
  <2> HIDE DEF youth
  <2> SUFFICES ASSUME NEW y \in youth, y < x PROVE FALSE
    OBVIOUS
  <2>1. <<y, x>> \in Nat \X Nat /\ <<y, x>>[1] = y /\ <<y, x>>[2] = x
    BY <1>2
  <2>2. <<y, x>> \in OpToRel(<, Nat)
    BY <2>1, Zenon DEF OpToRel
  <2> QED BY <1>3, <2>2
<1>5. PICK i \in Slot : x = m - set[i].age
  OBVIOUS
<1>6. \A j \in Slot : set[j].age <= set[i].age
  <2> SUFFICES ASSUME NEW j \in Slot PROVE set[j].age <= set[i].age
    OBVIOUS
  <2>1. ~(m - set[j].age < m - set[i].age)
    BY <1>4, <1>5
  <2> QED BY <1>1, <2>1
<1> QED BY <1>6 DEF Eldest

LEMMA ChosenIsSlot ==
  ASSUME NEW set, \A i \in Slot : set[i].age \in Age, NEW tag
  PROVE  Chosen(set, tag) \in Slot
<1>1. CASE Evicts(set, tag)
  <2>1. Eldest(set) \subseteq Slot /\ Eldest(set) # {}
    BY EldestExists DEF Eldest
  <2>2. Chosen(set, tag) = FirstOf(Eldest(set))
    BY <1>1 DEF Chosen
  <2>3. FirstOf(Eldest(set)) \in Eldest(set)
    BY <2>1, FirstExists
  <2> QED BY <2>1, <2>2, <2>3
<1>2. CASE ~Evicts(set, tag)
  <2>1. Stops(set, tag) \subseteq Slot /\ Stops(set, tag) # {}
    BY <1>2 DEF Evicts, Stops
  <2>2. Chosen(set, tag) = FirstOf(Stops(set, tag))
    BY <1>2 DEF Chosen
  <2>3. FirstOf(Stops(set, tag)) \in Stops(set, tag)
    BY <2>1, FirstExists
  <2> QED BY <2>1, <2>2, <2>3
<1> QED BY <1>1, <1>2

LEMMA AfterTyped ==
  ASSUME use_RRIP \in BOOLEAN, NEW set \in [Slot -> Line],
         NEW c \in [isRead : BOOLEAN, addr : Nat, size : Int], TagOf(c.addr) \in Tag,
         NEW def \in Nat
  PROVE  SetAfter(set, c, def) \in [Slot -> Line]
<1> DEFINE t == TagOf(c.addr)
           i == Chosen(set, t)
           out == Outcome(set, t)
           aged == Aged(set, t, def)
<1>1. \A j \in Slot : set[j].age \in Age
  BY DEF Line
<1>2. i \in Slot
  BY <1>1, ChosenIsSlot
<1>3. \A j \in Slot : aged[j] \in Age
  <2> DEFINE d == IF Evicts(set, t) THEN (2 ^ k - 1 - set[i].age) % 2 ^ AgeBits ELSE def
  <2>1. 2 ^ k - 1 - set[i].age \in Int
    <3> DEFINE n == 2 ^ k - 1
    <3>1. n \in Int
      BY AgeFits
    <3>2. set[i].age \in Nat
      <4> HIDE DEF i
      <4> QED BY <1>1, <1>2, AgeFits
    <3> HIDE DEF n, i
    <3>3. n - set[i].age \in Int
      BY <3>1, <3>2
    <3> QED BY <3>3 DEF n
  <2>2. d \in Int
    <3> DEFINE x == 2 ^ k - 1 - set[i].age
    <3>1. x \in Int
      BY <2>1
    <3> HIDE DEF x
    <3>2. x % 2 ^ AgeBits \in Int
      <4> DEFINE m == 2 ^ AgeBits
      <4>1. m \in Nat /\ m > 0
        BY Power, GeometryAssumption
      <4> HIDE DEF m
      <4>2. x % m \in Int
        BY <3>1, <4>1
      <4> QED BY <4>2 DEF m
    <3> QED BY <3>2 DEF x
  <2>3. aged = [j \in Slot |-> cache_update(set[j].age, "DEFAULT", d)]
    BY DEF Aged
  <2> HIDE DEF d, aged
  <2> QED BY <1>1, <2>2, <2>3, UpdateFits
<1>4. cache_update(aged[i], out, 0) \in Age
  BY <1>2, <1>3, UpdateFits
<1>5. Touched(c) \subseteq Piece
  BY DEF Touched
<1> DEFINE a == cache_update(aged[i], out, 0)
           v == Touched(c) \cup (IF out = "EVICT" THEN {} ELSE set[i].valid)
           dirty == ~c.isRead \/ (out # "EVICT" /\ set[i].dirty)
           line == [tag |-> t, age |-> a, dirty |-> dirty, valid_line |-> TRUE, valid |-> v]
<1>6. SetAfter(set, c, def) =
        [j \in Slot |-> IF j # i THEN [set[j] EXCEPT !.age = aged[j]] ELSE line]
  BY DEF SetAfter
<1>7. v \in SUBSET Piece /\ dirty \in BOOLEAN
  BY <1>2, <1>5 DEF Line
<1>8. line \in Line
  <2> HIDE DEF a, v, dirty, t, out
  <2> QED BY <1>4, <1>7 DEF Line, t, a
<1> HIDE DEF line, aged, i
<1>9. \A j \in Slot : [set[j] EXCEPT !.age = aged[j]] \in Line
  BY <1>3 DEF Line
<1> QED BY <1>6, <1>8, <1>9

LEMMA DelayFits ==
  ASSUME NEW set, NEW c
  PROVE  Delay(set, c) \in Nat
<1> DEFINE i == Chosen(set, TagOf(c.addr))
           out == Outcome(set, TagOf(c.addr))
           here == IF out = "HIT" THEN Touched(c) \cap set[i].valid ELSE {}
<1>1. IsFiniteSet(Piece)
  <2>1. 0 \in Int /\ 2 ^ u - 1 \in Int
    BY Power, GeometryAssumption
  <2> QED BY <2>1, FS_Interval, Zenon DEF Piece
<1>2. here \subseteq Piece /\ Touched(c) \ here \subseteq Piece
  BY DEF Touched
<1>3. Cardinality(here) \in Nat /\ Cardinality(Touched(c) \ here) \in Nat
  <2> HIDE DEF here
  <2> QED BY <1>1, <1>2, FS_Subset, FS_CardinalityType
<1>4. Delay(set, c) = HitDelay * Cardinality(here) + MissDelay * Cardinality(Touched(c) \ here)
                        + (IF out = "EVICT" /\ set[i].dirty THEN WriteBackDelay ELSE 0)
  BY DEF Delay
<1>5. HitDelay \in Nat /\ MissDelay \in Nat /\ WriteBackDelay \in Nat
  BY DelayAssumption
<1> DEFINE x == Cardinality(here)
           y == Cardinality(Touched(c) \ here)
           w == IF out = "EVICT" /\ set[i].dirty THEN WriteBackDelay ELSE 0
<1>6. x \in Nat /\ y \in Nat /\ w \in Nat /\ Delay(set, c) = HitDelay * x + MissDelay * y + w
  BY <1>3, <1>4, <1>5
<1> HIDE DEF x, y, w
<1>7. HitDelay * x \in Nat /\ MissDelay * y \in Nat
  BY <1>5, <1>6
<1> QED BY <1>6, <1>7


-----------------------------------------------------------------------------
(* What lies beyond a block: the next call starts a block, and goes to the *)
(* same end.                                                               *)
LEMMA JumpFits ==
  ASSUME NEW c, c.addr \in Nat
  PROVE  /\ Jump(c) \in Nat /\ Jump(c) > 0
         /\ c.addr + Jump(c) = 2 ^ (b + u) * (c.addr \div 2 ^ (b + u)) + 2 ^ (b + u)
         /\ OffsetOf(c.addr + Jump(c)) = 0
<1>1. b \in Nat /\ u \in Nat /\ b + u \in Nat
  BY GeometryAssumption
<1> DEFINE P == 2 ^ b
           Q == 2 ^ u
           W == 2 ^ (b + u)
           x == c.addr
           y == x \div P
           off == x % P
           sub == y % Q
           z == y \div Q
<1>2. P \in Nat /\ P > 0 /\ Q \in Nat /\ Q > 0 /\ W = P * Q
  BY <1>1, Power, PowerSum
<1>3. Jump(c) = P * (Q - sub) - off
  BY DEF Jump, SubBlockOf, OffsetOf
<1>4. x \div W = z
  BY <1>2, DivideTwice
<1>5. /\ y \in Nat /\ off \in Nat /\ off < P /\ x = P * y + off
      /\ z \in Nat /\ sub \in Nat /\ sub < Q /\ y = Q * z + sub
  <2>1. x \in Nat
    OBVIOUS
  <2>2. y \in Nat /\ off \in Nat /\ off < P /\ x = P * y + off
    <3> HIDE DEF P
    <3> QED BY <1>2, <2>1, Divide
  <2>3. z \in Nat /\ sub \in Nat /\ sub < Q /\ y = Q * z + sub
    <3> HIDE DEF Q, y
    <3> QED BY <1>2, <2>2, Divide
  <2> QED BY <2>2, <2>3
<1>6. OffsetOf(x + Jump(c)) = (x + Jump(c)) % P
  BY DEF OffsetOf
<1> HIDE DEF P, Q, W, y, off, sub, z
<1>7. P * sub + P <= P * Q
  BY <1>2, <1>5, Multiples
<1>8. P * (Q - sub) = P * Q - P * sub /\ P * sub \in Int /\ P * Q \in Int
  BY <1>2, <1>5
<1>9. Jump(c) \in Nat /\ Jump(c) > 0
  BY <1>2, <1>3, <1>5, <1>7, <1>8
<1>10. P * y = W * z + P * sub
  <2>1. P * y = P * (Q * z) + P * sub
    BY <1>2, <1>5
  <2>2. P * (Q * z) = W * z
    BY <1>2, <1>5
  <2> QED BY <2>1, <2>2
<1>11. x + Jump(c) = W * z + W
  <2>1. W * z \in Int /\ W \in Int /\ P * y \in Int
    BY <1>2, <1>5
  <2> QED BY <1>2, <1>3, <1>5, <1>8, <1>10, <2>1
<1>12. (x + Jump(c)) % P = 0
  <2> DEFINE w == x + Jump(c)
             t == Q * z + Q
  <2>1. W * z = P * (Q * z)
    BY <1>2, <1>5
  <2>2. P * t = P * (Q * z) + P * Q
    BY <1>2, <1>5
  <2>3. w \in Nat /\ t \in Int /\ w = P * t + 0
    <3>1. P * t \in Int /\ t \in Int
      BY <1>2, <1>5
    <3> HIDE DEF t
    <3> QED BY <1>2, <1>9, <1>11, <2>1, <2>2, <3>1
  <2> HIDE DEF w, t
  <2>4. w % P = 0
    BY <1>2, <2>3, DivideOnce
  <2> QED BY <2>4 DEF w
<1> QED BY <1>4, <1>6, <1>9, <1>11, <1>12 DEF x, W, P

(* A call that is part of the request: it ends where the request ends.     *)
CallRecord == [isRead : BOOLEAN, addr : Nat, size : Int]

Part(c) == asking.addr <= c.addr /\ c.addr + c.size = asking.addr + asking.size

(* A store of cache_impl only ever leaves stores to be made.               *)
OfItsKind(c) == version = "cache_impl" => c.isRead = asking.isRead

CallsFit ==
  /\ asking \in Asks \cup {NoTag}
  /\ asking = NoTag => calls = <<>>
  /\ asking # NoTag => \A a \in Bytes : TagOf(a) \in Tag
  /\ \A i \in DOMAIN calls : Part(calls[i]) /\ OfItsKind(calls[i])

LEMMA RestFits ==
  ASSUME asking \in Asks, NEW c \in CallRecord, Part(c), OfItsKind(c)
  PROVE  /\ Rest(c) \in Seq(CallRecord)
         /\ \A i \in DOMAIN Rest(c) : Part(Rest(c)[i]) /\ OfItsKind(Rest(c)[i])
<1> DEFINE d == [isRead |-> c.isRead, addr |-> c.addr + Jump(c), size |-> c.size - Jump(c)]
<1>1. CASE c.size > Jump(c)
  <2>1. Rest(c) = <<d>>
    BY <1>1 DEF Rest
  <2>2. c.addr \in Nat /\ c.size \in Int /\ c.isRead \in BOOLEAN /\ Jump(c) \in Nat
    BY JumpFits DEF CallRecord
  <2>4. d \in CallRecord /\ d.addr = c.addr + Jump(c) /\ d.size = c.size - Jump(c)
        /\ d.isRead = c.isRead
    BY <2>2 DEF CallRecord
  <2> HIDE DEF d
  <2>5. Part(d) /\ OfItsKind(d)
    BY <2>2, <2>4 DEF Part, OfItsKind, Asks
  <2> QED BY <2>1, <2>4, <2>5
<1>2. CASE ~(c.size > Jump(c))
  BY <1>2 DEF Rest
<1> QED BY <1>1, <1>2


LEMMA AsLoadsFit ==
  ASSUME asking \in Asks, version # "cache_impl",
         NEW q \in Seq(CallRecord), \A i \in DOMAIN q : Part(q[i])
  PROVE  /\ AsLoads(q) \in Seq(CallRecord)
         /\ \A i \in DOMAIN AsLoads(q) : Part(AsLoads(q)[i]) /\ OfItsKind(AsLoads(q)[i])
<1>1. \A i \in DOMAIN q : q[i] \in CallRecord
  OBVIOUS
<1> DEFINE load(i) == [q[i] EXCEPT !.isRead = TRUE]
<1>2. ASSUME NEW i \in DOMAIN q
      PROVE  load(i) \in CallRecord /\ Part(load(i)) /\ OfItsKind(load(i))
  <2>1. load(i) \in CallRecord /\ load(i).addr = q[i].addr /\ load(i).size = q[i].size
    BY <1>1 DEF CallRecord
  <2>2. Part(q[i])
    OBVIOUS
  <2> HIDE DEF load
  <2>3. Part(load(i))
    BY <2>1, <2>2 DEF Part
  <2>4. OfItsKind(load(i))
    BY DEF OfItsKind
  <2> QED BY <2>1, <2>3, <2>4
<1>3. AsLoads(q) = [i \in DOMAIN q |-> load(i)]
  BY DEF AsLoads
<1> HIDE DEF load
<1>4. DOMAIN q = 1 .. Len(q) /\ Len(q) \in Nat
  OBVIOUS
<1>5. AsLoads(q) \in Seq(CallRecord)
  BY <1>2, <1>3, <1>4
<1> QED BY <1>2, <1>3, <1>5

-----------------------------------------------------------------------------
(* The types are part of an inductive invariant with the fit of the calls. *)
(* A request is made in the processor's turn.                              *)
AsksInTurn == asking # NoTag => turn = asking.proc

TypesFit == TypeOK /\ CallsFit /\ AsksInTurn

LEMMA InitFits == Init => TypesFit
<1> SUFFICES ASSUME Init PROVE TypesFit
  OBVIOUS
<1>1. PICK su \in Setups : /\ program = su.program /\ version = su.version
                           /\ use_RRIP = su.use_RRIP /\ ptype = su.ptype
  BY DEF Init
<1>2. PICK filled \in SUBSET Stale :
        cache_sim = [st \in SetIdx |-> [i \in Slot |-> init_line(<<st, i>> \in filled)]]
  BY DEF Init, CacheInit
<1>3. cache_sim \in [SetIdx -> [Slot -> Line]]
  <2>1. ASSUME NEW f \in BOOLEAN PROVE init_line(f) \in Line
    BY AgeFits, TagAssumption DEF init_line, Line
  <2> DEFINE set(st) == [i \in Slot |-> init_line(<<st, i>> \in filled)]
  <2>2. ASSUME NEW st \in SetIdx PROVE set(st) \in [Slot -> Line]
    <3>1. \A i \in Slot : (<<st, i>> \in filled) \in BOOLEAN
      OBVIOUS
    <3>2. \A i \in Slot : init_line(<<st, i>> \in filled) \in Line
      BY <2>1, <3>1
    <3> QED BY <3>2
  <2>3. cache_sim = [st \in SetIdx |-> set(st)]
    BY <1>2
  <2> HIDE DEF set
  <2> QED BY <2>2, <2>3
<1>4. CacheTypeOK
  <2>1. version \in {"cache_impl", "cache_impl_final"} /\ use_RRIP \in BOOLEAN
    BY <1>1, SetupAssumption
  <2>2. calls = <<>> /\ result = 0
    BY DEF Init, CacheInit
  <2> QED BY <1>3, <2>1, <2>2 DEF CacheTypeOK
<1>5. /\ ptype \in {"SMITH", "GSHARE", "PERFECT"}
      /\ program \in {x.program : x \in Setups}
  BY <1>1, SetupAssumption
<1>6. BHR \in 0 .. 2 ^ bBits - 1
  <2> DEFINE m == 2 ^ bBits
  <2>1. m \in Nat /\ m > 0
    BY Power, BitsAssumption
  <2> HIDE DEF m
  <2>2. 0 \in 0 .. m - 1
    BY <2>1
  <2> QED BY <2>2 DEF m, Init, init_predict
<1>7. BTB \in [Index -> [pred_addr : Target \cup {0}, predictor : 0 .. 3]]
  BY DEF Init, init_predict
<1>8. turn \in 0 .. N /\ 0 \in 0 .. TagLimit - 1
  BY CountAssumption DEF Init
<1>9. calls = <<>> /\ asking = NoTag
  BY DEF Init, CacheInit
<1>10. CallsFit
  BY <1>9 DEF CallsFit
<1>11. AsksInTurn
  BY <1>9 DEF AsksInTurn
<1> QED BY <1>4, <1>5, <1>6, <1>7, <1>8, <1>9, <1>10, <1>11 DEF TypesFit, TypeOK, Init

(* A call into the lines.                                                  *)
LEMMA ServeFits ==
  ASSUME TypesFit, asking \in Asks, calls # <<>>, Head(calls).size > 0,
         NEW def \in Nat, NEW more \in Seq(CallRecord),
         \A i \in DOMAIN more : Part(more[i]) /\ OfItsKind(more[i]),
         Serve(def, more), UNCHANGED asking
  PROVE  CacheTypeOK' /\ CallsFit'
<1> DEFINE c == Head(calls)
           st == SetOf(c.addr)
<1>1. calls \in Seq(CallRecord)
  BY DEF TypesFit, TypeOK, CacheTypeOK, CallRecord
<1>2. c = calls[1] /\ 1 \in DOMAIN calls /\ c \in CallRecord /\ Tail(calls) \in Seq(CallRecord)
      /\ \A i \in DOMAIN Tail(calls) : i + 1 \in DOMAIN calls /\ Tail(calls)[i] = calls[i + 1]
  BY <1>1
<1>3. Part(c) /\ asking # NoTag
  BY <1>2, NoTagAssumption DEF TypesFit, CallsFit
<1>4. TagOf(c.addr) \in Tag
  <2>1. c.addr \in Nat /\ c.size \in Int /\ asking.addr \in Nat /\ asking.size \in Int
    BY <1>2 DEF CallRecord, Asks
  <2>2. c.addr \in Bytes
    BY <1>3, <2>1 DEF Part, Bytes
  <2> QED BY <1>3, <2>2 DEF TypesFit, CallsFit
<1>5. st \in SetIdx
  BY <1>2, FieldsFit DEF CallRecord
<1>6. /\ cache_sim' = [cache_sim EXCEPT ![st] = SetAfter(@, c, def)]
      /\ result' = result + Delay(cache_sim[st], c)
      /\ calls' = more \o Tail(calls)
      /\ UNCHANGED <<version, use_RRIP>>
  BY DEF Serve
<1>7. /\ cache_sim \in [SetIdx -> [Slot -> Line]] /\ use_RRIP \in BOOLEAN /\ result \in Nat
  BY DEF TypesFit, TypeOK, CacheTypeOK
<1> HIDE DEF c, st
<1>8. cache_sim' \in [SetIdx -> [Slot -> Line]]
  <2>1. SetAfter(cache_sim[st], c, def) \in [Slot -> Line]
    BY <1>2, <1>4, <1>5, <1>7, AfterTyped DEF CallRecord
  <2> QED BY <1>5, <1>6, <1>7, <2>1
<1>9. result' \in Nat
  BY <1>6, <1>7, DelayFits
<1>10. calls' \in Seq(CallRecord)
  BY <1>2, <1>6
<1>11. \A i \in DOMAIN calls' : Part(calls'[i]) /\ OfItsKind(calls'[i])
  <2> SUFFICES ASSUME NEW i \in DOMAIN calls' PROVE Part(calls'[i]) /\ OfItsKind(calls'[i])
    OBVIOUS
  <2> DEFINE rest == Tail(calls)
  <2>1. \A j \in DOMAIN rest : Part(rest[j]) /\ OfItsKind(rest[j])
    BY <1>2 DEF TypesFit, CallsFit
  <2>2. rest \in Seq(CallRecord) /\ calls' = more \o rest
    BY <1>2, <1>6
  <2> HIDE DEF rest
  <2>3. \/ i \in DOMAIN more /\ calls'[i] = more[i]
        \/ i - Len(more) \in DOMAIN rest /\ calls'[i] = rest[i - Len(more)]
    BY <2>2
  <2> QED BY <2>1, <2>3
<1>12. CacheTypeOK'
  BY <1>6, <1>8, <1>9, <1>10 DEF CacheTypeOK, TypesFit, TypeOK, CallRecord
<1>13. CallsFit'
  <2>1. (\A i \in DOMAIN calls : Part(calls[i]) /\ OfItsKind(calls[i]))'
    BY <1>6, <1>11 DEF Part, OfItsKind
  <2>2. (\A a \in Bytes : TagOf(a) \in Tag)'
    BY <1>3 DEF CallsFit, TypesFit, Bytes
  <2>3. asking' \in Asks /\ asking' # NoTag
    BY <1>3
  <2> QED BY <2>1, <2>2, <2>3 DEF CallsFit
<1> QED BY <1>12, <1>13


-----------------------------------------------------------------------------
(* The predictor: what a branch leaves in the table.                       *)
Entry == [pred_addr : Target \cup {0}, predictor : 0 .. 3]

LEMMA LearnFits ==
  ASSUME BTB \in [Index -> Entry], NEW idx, NEW pc, NEW next,
         Taken(pc, next) => next \in Target, Learn(idx, pc, next)
  PROVE  BTB' \in [Index -> Entry]
<1> DEFINE old == BTB[idx]
           new == IF Taken(pc, next)
                    THEN [pred_addr |-> next,
                          predictor |-> IF old.predictor = 3 THEN 3 ELSE old.predictor + 1]
                    ELSE [pred_addr |-> old.pred_addr,
                          predictor |-> IF old.predictor = 0 THEN 0 ELSE old.predictor - 1]
<1>1. BTB' = [BTB EXCEPT ![idx] = new]
  BY DEF Learn
<1>2. ASSUME idx \in Index PROVE new \in Entry
  <2>1. old \in Entry
    BY <1>2
  <2> HIDE DEF old
  <2>2. old.predictor \in 0 .. 3
    BY <2>1 DEF Entry
  <2>3. CASE Taken(pc, next)
    BY <2>2, <2>3 DEF Entry
  <2>4. CASE ~Taken(pc, next)
    BY <2>1, <2>2, <2>4 DEF Entry
  <2> QED BY <2>3, <2>4
<1> HIDE DEF new
<1> QED BY <1>1, <1>2

LEMMA BranchFits ==
  ASSUME TypeOK, NEW pc, NEW next, Taken(pc, next) => next \in Target,
         branchRequest(pc, next)
  PROVE  /\ ptype' \in {"SMITH", "GSHARE", "PERFECT"}
         /\ BTB' \in [Index -> Entry]
         /\ BHR' \in 0 .. 2 ^ bBits - 1
<1>1. /\ ptype \in {"SMITH", "GSHARE", "PERFECT"}
      /\ BTB \in [Index -> Entry]
      /\ BHR \in 0 .. 2 ^ bBits - 1
  BY DEF TypeOK, Entry
<1>2. CASE PredictSmith(pc, next)
  BY <1>1, <1>2, LearnFits DEF PredictSmith, smith_counter
<1>3. CASE PredictGshare(pc, next)
  <2>1. BHR' = (2 * BHR + (IF Taken(pc, next) THEN 1 ELSE 0)) % 2 ^ bBits
    BY <1>3 DEF PredictGshare, gshare
  <2> DEFINE m == 2 ^ bBits
             x == 2 * BHR + (IF Taken(pc, next) THEN 1 ELSE 0)
  <2>2. m \in Nat /\ m > 0
    BY Power, BitsAssumption
  <2>3. BHR \in Nat
    <3> HIDE DEF m
    <3>1. BHR \in 0 .. m - 1
      BY <1>1 DEF m
    <3> QED BY <2>2, <3>1
  <2>4. x \in Nat
    BY <2>3
  <2>5. BHR' = x % m
    BY <2>1
  <2> HIDE DEF m, x
  <2>6. BHR' \in 0 .. m - 1
    BY <2>2, <2>4, <2>5
  <2>7. BTB' \in [Index -> Entry]
    BY <1>1, <1>3, LearnFits DEF PredictGshare, gshare
  <2> QED BY <1>1, <1>3, <2>6, <2>7 DEF m, PredictGshare
<1>4. CASE PredictPerfect(pc, next)
  BY <1>1, <1>4 DEF PredictPerfect, branchVars
<1> QED BY <1>2, <1>3, <1>4 DEF branchRequest

LEMMA OperationsFit ==
  ASSUME TypeOK, NEW p \in Proc, NEW op \in program[p]
  PROVE  op \in Operation /\ Covered(op)
<1>1. PICK su \in Setups : program = su.program
  BY DEF TypeOK
<1>2. su.program \in [Proc -> SUBSET Operation] /\ Covered(op)
  BY <1>1, SetupAssumption
<1> QED BY <1>1, <1>2

LEMMA CallbackFits ==
  ASSUME TypeOK, NEW t, MemOpCallback(t) \/ NoCallback
  PROVE  memOpTag' \in [Proc -> 0 .. TagLimit - 1] /\ pendingMem' \in [Proc -> BOOLEAN]
<1>1. memOpTag \in [Proc -> 0 .. TagLimit - 1] /\ pendingMem \in [Proc -> BOOLEAN]
  BY DEF TypeOK
<1>2. CASE UNCHANGED <<memOpTag, pendingMem>>
  BY <1>1, <1>2
<1>3. CASE /\ memOpTag' = [memOpTag EXCEPT ![t.proc] = (@ + 1) % TagLimit]
           /\ pendingMem' = [pendingMem EXCEPT ![t.proc] = FALSE]
  <2>1. \A p \in Proc : (memOpTag[p] + 1) % TagLimit \in 0 .. TagLimit - 1
    BY <1>1, CountAssumption
  <2> QED BY <1>1, <1>3, <2>1
<1> QED BY <1>2, <1>3 DEF MemOpCallback, NoCallback

LEMMA CallFits ==
  ASSUME TypesFit, Call, UNCHANGED asking
  PROVE  CacheTypeOK' /\ CallsFit'
<1> DEFINE c == Head(calls)
<1>1. calls \in Seq(CallRecord) /\ calls # <<>>
  BY DEF TypesFit, TypeOK, CacheTypeOK, CallRecord, Call, EmptyCall, Called,
         load_cache_impl, store_cache_impl, load_cache_final, store_cache_final
<1>2. asking \in Asks
  BY <1>1 DEF TypesFit, CallsFit
<1>3. /\ c \in CallRecord /\ Part(c) /\ OfItsKind(c)
      /\ Tail(calls) \in Seq(CallRecord)
      /\ \A i \in DOMAIN Tail(calls) : Part(Tail(calls)[i]) /\ OfItsKind(Tail(calls)[i])
  <2>1. c = calls[1] /\ 1 \in DOMAIN calls /\ c \in CallRecord /\ Tail(calls) \in Seq(CallRecord)
        /\ \A i \in DOMAIN Tail(calls) : i + 1 \in DOMAIN calls /\ Tail(calls)[i] = calls[i + 1]
    BY <1>1
  <2> QED BY <2>1 DEF TypesFit, CallsFit
<1>4. /\ Rest(c) \in Seq(CallRecord)
      /\ \A i \in DOMAIN Rest(c) : Part(Rest(c)[i]) /\ OfItsKind(Rest(c)[i])
  BY <1>2, <1>3, RestFits
<1>5. CASE EmptyCall
  <2>1. calls' = Tail(calls) /\ UNCHANGED <<version, use_RRIP, cache_sim, result, asking>>
    BY <1>5 DEF EmptyCall
  <2>2. CacheTypeOK'
    BY <1>3, <2>1 DEF TypesFit, TypeOK, CacheTypeOK, CallRecord
  <2>3. (\A i \in DOMAIN calls : Part(calls[i]) /\ OfItsKind(calls[i]))'
    BY <1>3, <2>1 DEF Part, OfItsKind
  <2>4. (asking # NoTag => \A a \in Bytes : TagOf(a) \in Tag)'
    BY <2>1 DEF CallsFit, TypesFit, Bytes
  <2> QED BY <1>2, <2>1, <2>2, <2>3, <2>4, NoTagAssumption DEF CallsFit
<1>6. ASSUME NEW def \in Nat, NEW more, c.size > 0, Serve(def, more),
             more \in Seq(CallRecord), \A i \in DOMAIN more : Part(more[i]) /\ OfItsKind(more[i])
      PROVE  CacheTypeOK' /\ CallsFit'
  BY <1>1, <1>2, <1>6, ServeFits
<1>7. <<>> \in Seq(CallRecord) /\ DOMAIN <<>> = {}
  OBVIOUS
<1>8. CASE load_cache_impl
  <2>1. Serve(1, IF Ends THEN <<>> ELSE Rest(c)) /\ c.size > 0
    BY <1>8 DEF load_cache_impl, Called
  <2>2. PICK more : more = IF Ends THEN <<>> ELSE Rest(c)
    OBVIOUS
  <2>3. more = <<>> \/ more = Rest(c)
    BY <2>2
  <2>4. Serve(1, more)
    BY <2>1, <2>2
  <2> HIDE DEF c
  <2> QED BY <1>4, <1>6, <1>7, <2>1, <2>3, <2>4
<1>9. CASE store_cache_impl
  <2>1. Serve(0, Rest(c)) /\ c.size > 0
    BY <1>9 DEF store_cache_impl, Called
  <2> HIDE DEF c
  <2> QED BY <1>4, <1>6, <2>1
<1>10. CASE load_cache_final
  <2>1. Serve(1, Rest(c)) /\ c.size > 0
    BY <1>10 DEF load_cache_final, Called
  <2> HIDE DEF c
  <2> QED BY <1>4, <1>6, <2>1
<1>11. CASE store_cache_final
  <2> DEFINE again == IF Ends THEN AsLoads(Rest(c)) ELSE <<>>
             more == Rest(c) \o again
  <2>1. Serve(0, more) /\ c.size > 0 /\ version = "cache_impl_final"
    BY <1>11 DEF store_cache_final, Called
  <2>2. version # "cache_impl"
    BY <2>1
  <2>3. /\ AsLoads(Rest(c)) \in Seq(CallRecord)
        /\ \A i \in DOMAIN AsLoads(Rest(c)) :
             Part(AsLoads(Rest(c))[i]) /\ OfItsKind(AsLoads(Rest(c))[i])
    <3>1. \A i \in DOMAIN Rest(c) : Part(Rest(c)[i])
      BY <1>4
    <3> QED BY <1>2, <1>4, <2>2, <3>1, AsLoadsFit
  <2>4. /\ again \in Seq(CallRecord)
        /\ \A i \in DOMAIN again : Part(again[i]) /\ OfItsKind(again[i])
    <3>1. again = AsLoads(Rest(c)) \/ again = <<>>
      OBVIOUS
    <3> HIDE DEF again
    <3> QED BY <1>7, <2>3, <3>1
  <2> DEFINE rest == Rest(c)
  <2>5. /\ rest \in Seq(CallRecord) /\ more = rest \o again
        /\ \A i \in DOMAIN rest : Part(rest[i]) /\ OfItsKind(rest[i])
    BY <1>4
  <2> HIDE DEF rest, again, more
  <2>6. more \in Seq(CallRecord)
    BY <2>4, <2>5
  <2>7. \A i \in DOMAIN more : Part(more[i]) /\ OfItsKind(more[i])
    <3> SUFFICES ASSUME NEW i \in DOMAIN more PROVE Part(more[i]) /\ OfItsKind(more[i])
      OBVIOUS
    <3>1. \/ i \in DOMAIN rest /\ more[i] = rest[i]
          \/ i - Len(rest) \in DOMAIN again /\ more[i] = again[i - Len(rest)]
      BY <2>4, <2>5
    <3> QED BY <2>4, <2>5, <3>1
  <2> HIDE DEF c
  <2> QED BY <1>6, <2>1, <2>6, <2>7
<1> QED BY <1>5, <1>8, <1>9, <1>10, <1>11 DEF Call

(* Nothing the calls fit to changes.                                       *)
LEMMA CallsStayFit ==
  ASSUME TypesFit, UNCHANGED <<linesVars, asking>>
  PROVE  CacheTypeOK' /\ CallsFit'
<1>1. CacheTypeOK'
  BY DEF TypesFit, TypeOK, CacheTypeOK, linesVars
<1>2. CallsFit'
  <2>1. (\A i \in DOMAIN calls : Part(calls[i]) /\ OfItsKind(calls[i]))'
    BY DEF TypesFit, CallsFit, Part, OfItsKind, linesVars
  <2>2. (asking # NoTag => \A a \in Bytes : TagOf(a) \in Tag)'
    BY DEF CallsFit, TypesFit, Bytes
  <2> QED BY <2>1, <2>2 DEF CallsFit, TypesFit, linesVars
<1> QED BY <1>1, <1>2

LEMMA RequestFits ==
  ASSUME TypesFit, NEW p \in Proc, NEW isRead \in BOOLEAN, NEW addr \in Nat, NEW size \in Int,
         \A a \in addr .. addr + size - 1 : TagOf(a) \in Tag,
         MemoryRequest(p, isRead, addr, size)
  PROVE  TypesFit'
<1> DEFINE c == [isRead |-> isRead, addr |-> addr, size |-> size]
           a == [proc |-> p, base |-> memOpTag[p],
                 isRead |-> isRead, addr |-> addr, size |-> size]
<1>1. /\ calls' = <<c>> /\ asking' = a
      /\ pendingMem' = [pendingMem EXCEPT ![p] = TRUE]
      /\ UNCHANGED <<version, use_RRIP, cache_sim, result, branchVars, program, pendingBranch,
                     memOpTag, turn, countDown, pendingTag>>
      /\ turn = p
  BY DEF MemoryRequest, Runs, Turn, countVars
<1>2. memOpTag[p] \in 0 .. TagLimit - 1 /\ pendingMem \in [Proc -> BOOLEAN]
  BY DEF TypesFit, TypeOK
<1>3. /\ c \in CallRecord /\ c.addr = addr /\ c.size = size /\ c.isRead = isRead
      /\ a \in Asks /\ a.addr = addr /\ a.size = size /\ a.isRead = isRead
      /\ a.proc = p /\ a.base = memOpTag[p]
  BY <1>2 DEF CallRecord, Asks
<1> HIDE DEF c, a
<1>4. CacheTypeOK'
  BY <1>1, <1>3 DEF TypesFit, TypeOK, CacheTypeOK, CallRecord
<1>5. CallsFit'
  <2>1. asking' \in Asks /\ asking' # NoTag
    BY <1>1, <1>3, NoTagAssumption
  <2>2. (\A x \in Bytes : TagOf(x) \in Tag)'
    BY <1>1, <1>3 DEF Bytes
  <2>3. (\A i \in DOMAIN calls : Part(calls[i]) /\ OfItsKind(calls[i]))'
    <3>1. \A i \in DOMAIN calls' : calls'[i] = c
      BY <1>1
    <3>2. Part(c)'
      BY <1>1, <1>3 DEF Part
    <3>3. OfItsKind(c)'
      BY <1>1, <1>3 DEF OfItsKind
    <3> QED BY <3>1, <3>2, <3>3, <1>1 DEF Part, OfItsKind
  <2> QED BY <2>1, <2>2, <2>3 DEF CallsFit
<1>6. AsksInTurn'
  BY <1>1, <1>3 DEF AsksInTurn
<1>7. TypeOK'
  <2>1. pendingMem' \in [Proc -> BOOLEAN]
    BY <1>1, <1>2
  <2>2. [proc |-> a.proc, base |-> a.base] \in Tags
    BY <1>2, <1>3 DEF Tags
  <2> QED BY <1>1, <1>4, <2>1, <2>2 DEF TypesFit, TypeOK, branchVars
<1> QED BY <1>5, <1>6, <1>7 DEF TypesFit

LEMMA NextFits == TypesFit /\ [Next]_vars => TypesFit'
<1> SUFFICES ASSUME TypesFit, [Next]_vars PROVE TypesFit'
  OBVIOUS
<1>0. /\ TypeOK /\ CallsFit /\ AsksInTurn /\ N \in Nat /\ N > 0
      /\ \A p \in Proc : p \in 0 .. N /\ p + 1 \in 0 .. N
      /\ 0 \in 0 .. N
  BY CountAssumption DEF TypesFit, Proc
<1>1. CASE UNCHANGED vars
  <2>1. CacheTypeOK' /\ CallsFit'
    BY <1>1, CallsStayFit DEF vars
  <2> QED BY <1>0, <1>1, <2>1 DEF TypesFit, TypeOK, AsksInTurn, vars, linesVars, branchVars,
                                  procVars, countVars
<1>2. CASE TickCache
  <2>1. CacheTypeOK' /\ CallsFit'
    BY <1>2, CallsStayFit DEF TickCache
  <2>2. memOpTag' \in [Proc -> 0 .. TagLimit - 1] /\ pendingMem' \in [Proc -> BOOLEAN]
    BY <1>0, <1>2, CallbackFits DEF TickCache
  <2>3. countDown' \in Nat
    BY <1>0, <1>2 DEF TickCache, TypeOK
  <2>4. AsksInTurn'
    <3>1. asking = NoTag
      BY <1>0, <1>2 DEF TickCache, AsksInTurn, CallsFit, Asks, Proc
    <3> QED BY <1>2, <3>1 DEF TickCache, AsksInTurn
  <2> QED BY <1>0, <1>2, <2>1, <2>2, <2>3, <2>4 DEF TypesFit, TypeOK, TickCache, branchVars
<1>3. ASSUME NEW p \in Proc, WaitForMemory(p) PROVE TypesFit'
  <2>1. CacheTypeOK' /\ CallsFit'
    BY <1>3, CallsStayFit DEF WaitForMemory
  <2> QED BY <1>0, <1>3, <2>1 DEF TypesFit, TypeOK, AsksInTurn, WaitForMemory, Turn, branchVars,
                                  procVars, countVars
<1>4. ASSUME NEW p \in Proc, WaitForBranch(p) PROVE TypesFit'
  <2>1. CacheTypeOK' /\ CallsFit'
    BY <1>4, CallsStayFit DEF WaitForBranch
  <2>2. pendingBranch' \in [Proc -> {0, 1}]
    BY <1>0, <1>4 DEF TypeOK, WaitForBranch
  <2> QED BY <1>0, <1>4, <2>1, <2>2 DEF TypesFit, TypeOK, AsksInTurn, WaitForBranch, Turn,
                                        branchVars, countVars
<1>5. ASSUME NEW p \in Proc, Pass(p) PROVE TypesFit'
  <2>1. CacheTypeOK' /\ CallsFit'
    BY <1>5, CallsStayFit DEF Pass
  <2> QED BY <1>0, <1>5, <2>1 DEF TypesFit, TypeOK, AsksInTurn, Pass, Runs, Turn, branchVars,
                                  procVars, countVars
<1>6. ASSUME NEW p \in Proc, NEW op \in program[p], op.op = "BRANCH", Branch(p, op.pc, op.next)
      PROVE  TypesFit'
  <2>1. CacheTypeOK' /\ CallsFit'
    BY <1>6, CallsStayFit DEF Branch
  <2>2. Taken(op.pc, op.next) => op.next \in Target
    BY <1>0, <1>6, OperationsFit DEF Covered
  <2>3. branchRequest(op.pc, op.next)
    BY <1>6 DEF Branch
  <2>4. /\ ptype' \in {"SMITH", "GSHARE", "PERFECT"}
        /\ BTB' \in [Index -> Entry]
        /\ BHR' \in 0 .. 2 ^ bBits - 1
    BY <1>0, <2>2, <2>3, BranchFits
  <2>5. pendingBranch' \in [Proc -> {0, 1}]
    BY <1>0, <1>6 DEF Branch, TypeOK
  <2>6. AsksInTurn'
    BY <1>6 DEF Branch, Runs, Turn, AsksInTurn
  <2>7. /\ turn' = p + 1
        /\ UNCHANGED <<program, pendingMem, memOpTag, countVars, asking>>
    BY <1>6 DEF Branch
  <2> QED BY <1>0, <2>1, <2>4, <2>5, <2>6, <2>7 DEF TypesFit, TypeOK, Entry, countVars
<1>7. ASSUME NEW p \in Proc, NEW op \in program[p], NEW isRead \in BOOLEAN, op.op # "BRANCH",
             MemoryRequest(p, isRead, op.addr, op.size)
      PROVE  TypesFit'
  <2>1. op \in Operation /\ Covered(op)
    BY <1>0, OperationsFit
  <2>2. op.addr \in Nat /\ op.size \in Int
    BY <1>7, <2>1 DEF Operation
  <2>3. \A a \in op.addr .. op.addr + op.size - 1 : TagOf(a) \in Tag
    BY <1>7, <2>1 DEF Covered
  <2> QED BY <1>7, <2>2, <2>3, RequestFits
<1>8. CASE CallLines
  <2>1. CacheTypeOK' /\ CallsFit'
    BY <1>8, CallFits DEF CallLines
  <2> QED BY <1>0, <1>8, <2>1 DEF TypesFit, TypeOK, AsksInTurn, CallLines, branchVars,
                                  procVars, countVars
<1>9. CASE Accept
  <2>1. /\ asking \in Asks /\ calls = <<>> /\ calls' = <<>> /\ asking' = NoTag /\ result' = 0
        /\ turn = asking.proc
        /\ UNCHANGED <<version, use_RRIP, cache_sim, branchVars, program, pendingBranch>>
        /\ countDown' = countDown + result /\ turn' = turn + 1
        /\ pendingTag' = [proc |-> asking.proc, base |-> asking.base]
    BY <1>0, <1>9 DEF Accept, CallsFit, AsksInTurn
  <2>2. CacheTypeOK'
    BY <1>0, <2>1 DEF TypeOK, CacheTypeOK
  <2>3. CallsFit'
    BY <2>1 DEF CallsFit
  <2>4. memOpTag' \in [Proc -> 0 .. TagLimit - 1] /\ pendingMem' \in [Proc -> BOOLEAN]
    BY <1>0, <1>9, CallbackFits DEF Accept
  <2>5. pendingTag' \in Tags
    BY <2>1 DEF Tags, Asks
  <2>6. countDown' \in Nat
    BY <1>0, <2>1 DEF TypeOK, CacheTypeOK
  <2>7. turn' \in 0 .. N
    BY <1>0, <2>1 DEF Asks
  <2> QED BY <1>0, <2>1, <2>2, <2>3, <2>4, <2>5, <2>6, <2>7
          DEF TypesFit, TypeOK, AsksInTurn, branchVars
<1>10. ASSUME NEW p \in Proc, Run(p) PROVE TypesFit'
  BY <1>5, <1>6, <1>7, <1>10 DEF Run
<1> QED BY <1>1, <1>2, <1>3, <1>4, <1>8, <1>9, <1>10 DEF Next

(* Every field keeps the range the code gives it: ages their width, the    *)
(* counters two bits, the history bBits, tags and targets those of the     *)
(* trace, whichever options, versions and traces are looked at.            *)
THEOREM TypeCorrect == Spec => []TypeOK
<1>1. TypesFit => TypeOK
  BY DEF TypesFit
<1> QED BY <1>1, InitFits, NextFits, PTL DEF Spec

-----------------------------------------------------------------------------
LEMMA LearnKnows ==
  ASSUME TypeOK, CounterKnowsTarget, NEW p \in Proc, NEW op \in program[p], op.op = "BRANCH",
         NEW idx, ptype = "SMITH" => idx = SmithIndex(op.pc),
         Learn(idx, op.pc, op.next), UNCHANGED <<program, ptype>>
  PROVE  CounterKnowsTarget'
<1> SUFFICES ASSUME NEW x \in Index, BTB'[x].predictor > 1
             PROVE  \E br \in TakenBranches :
                      /\ br.next = BTB'[x].pred_addr
                      /\ ptype = "SMITH" => SmithIndex(br.pc) = x
  BY DEF CounterKnowsTarget, TakenBranches
<1> DEFINE old == BTB[idx]
           new == IF Taken(op.pc, op.next)
                    THEN [pred_addr |-> op.next,
                          predictor |-> IF old.predictor = 3 THEN 3 ELSE old.predictor + 1]
                    ELSE [pred_addr |-> old.pred_addr,
                          predictor |-> IF old.predictor = 0 THEN 0 ELSE old.predictor - 1]
<1>1. BTB' = [BTB EXCEPT ![idx] = new] /\ BTB \in [Index -> Entry]
  BY DEF Learn, TypeOK, Entry
<1>2. CASE x # idx
  <2>1. BTB'[x] = BTB[x]
    <3> HIDE DEF new
    <3> QED BY <1>1, <1>2
  <2> QED BY <2>1 DEF CounterKnowsTarget
<1>3. CASE x = idx
  <2>1. BTB'[x] = new
    <3> HIDE DEF new
    <3> QED BY <1>1, <1>3
  <2>2. CASE Taken(op.pc, op.next)
    <3>1. op \in TakenBranches
      BY <2>2 DEF TakenBranches
    <3>2. op.next = BTB'[x].pred_addr
      BY <2>1, <2>2
    <3> QED BY <1>3, <3>1, <3>2
  <2>3. CASE ~Taken(op.pc, op.next)
    <3>1. /\ BTB'[x].pred_addr = old.pred_addr
          /\ BTB'[x].predictor = IF old.predictor = 0 THEN 0 ELSE old.predictor - 1
      BY <2>1, <2>3
    <3>2. old \in Entry
      BY <1>1, <1>3
    <3> HIDE DEF old
    <3>3. old.predictor \in 0 .. 3
      BY <3>2 DEF Entry
    <3>4. old.predictor > 1
      BY <3>1, <3>3
    <3>5. BTB[x].predictor > 1 /\ BTB[x].pred_addr = BTB'[x].pred_addr
      BY <1>3, <3>1, <3>4 DEF old
    <3> QED BY <3>5 DEF CounterKnowsTarget
  <2> QED BY <2>2, <2>3
<1> QED BY <1>2, <1>3

LEMMA NextKnows == TypesFit /\ CounterKnowsTarget /\ [Next]_vars => CounterKnowsTarget'
<1> SUFFICES ASSUME TypeOK, CounterKnowsTarget, [Next]_vars PROVE CounterKnowsTarget'
  BY DEF TypesFit
<1>1. CASE UNCHANGED <<branchVars, program>>
  BY <1>1 DEF CounterKnowsTarget, TakenBranches, branchVars
<1>2. ASSUME NEW p \in Proc, NEW op \in program[p], op.op = "BRANCH", Branch(p, op.pc, op.next)
      PROVE  CounterKnowsTarget'
  <2>1. branchRequest(op.pc, op.next) /\ UNCHANGED program
    BY <1>2 DEF Branch
  <2>2. CASE PredictSmith(op.pc, op.next)
    BY <1>2, <2>1, <2>2, LearnKnows DEF PredictSmith, smith_counter
  <2>3. CASE PredictGshare(op.pc, op.next)
    BY <1>2, <2>1, <2>3, LearnKnows DEF PredictGshare, gshare
  <2>4. CASE PredictPerfect(op.pc, op.next)
    BY <1>1, <2>1, <2>4 DEF PredictPerfect
  <2> QED BY <2>1, <2>2, <2>3, <2>4 DEF branchRequest
<1>3. ASSUME NEW p \in Proc, Run(p) PROVE CounterKnowsTarget'
  <2>1. CASE Pass(p)
    BY <1>1, <2>1 DEF Pass, procVars
  <2>2. ASSUME NEW isRead, NEW addr, NEW size, MemoryRequest(p, isRead, addr, size)
        PROVE  CounterKnowsTarget'
    BY <1>1, <2>2 DEF MemoryRequest
  <2> QED BY <1>2, <1>3, <2>1, <2>2 DEF Run
<1>4. TickCache \/ CallLines \/ Accept => UNCHANGED <<branchVars, program>>
  BY DEF TickCache, CallLines, Accept, procVars
<1>5. ASSUME NEW p \in Proc, WaitForMemory(p) \/ WaitForBranch(p)
      PROVE  UNCHANGED <<branchVars, program>>
  BY <1>5 DEF WaitForMemory, WaitForBranch, procVars
<1>6. CASE UNCHANGED vars
  BY <1>1, <1>6 DEF vars, procVars
<1> QED BY <1>1, <1>3, <1>4, <1>5, <1>6 DEF Next

(* Under every predictor, however branches share the entries of the table: *)
(* an entry that predicts taken names the target of a branch of the trace  *)
(* that was taken, with Smith's index one of this entry.                   *)
THEOREM CountersKnowTargets == Spec => []CounterKnowsTarget
<1>1. Init => CounterKnowsTarget
  BY DEF Init, init_predict, CounterKnowsTarget
<1> QED BY <1>1, InitFits, NextFits, NextKnows, PTL DEF Spec

-----------------------------------------------------------------------------
(* The bytes of a request.  The fields of an address, one from the other.  *)
LEMMA Geometry ==
  /\ 2 ^ b \in Nat /\ 2 ^ b > 0 /\ 2 ^ u \in Nat /\ 2 ^ u > 0
  /\ 2 ^ (b + u) \in Nat /\ 2 ^ (b + u) > 0 /\ 2 ^ s \in Nat /\ 2 ^ s > 0
  /\ 2 ^ (b + u) = 2 ^ b * 2 ^ u
  /\ 2 ^ (s + b + u) = 2 ^ (b + u) * 2 ^ s
  /\ \A x \in Nat : TagOf(x) = (x \div 2 ^ (b + u)) \div 2 ^ s
<1>1. b \in Nat /\ u \in Nat /\ s \in Nat /\ b + u \in Nat /\ s + b + u = (b + u) + s
  BY GeometryAssumption
<1>2. /\ 2 ^ b \in Nat /\ 2 ^ b > 0 /\ 2 ^ u \in Nat /\ 2 ^ u > 0
      /\ 2 ^ (b + u) \in Nat /\ 2 ^ (b + u) > 0 /\ 2 ^ s \in Nat /\ 2 ^ s > 0
  BY <1>1, Power
<1>3. 2 ^ (b + u) = 2 ^ b * 2 ^ u
  BY <1>1, PowerSum
<1>4. 2 ^ (s + b + u) = 2 ^ (b + u) * 2 ^ s
  <2> DEFINE m == b + u
  <2>1. m \in Nat /\ s \in Nat
    BY <1>1
  <2> HIDE DEF m
  <2>2. 2 ^ (m + s) = 2 ^ m * 2 ^ s
    BY <2>1, PowerSum
  <2> QED BY <1>1, <2>2 DEF m
<1>5. ASSUME NEW x \in Nat PROVE TagOf(x) = (x \div 2 ^ (b + u)) \div 2 ^ s
  <2> DEFINE W == 2 ^ (b + u)
             S == 2 ^ s
             V == 2 ^ (s + b + u)
  <2>1. W \in Nat /\ W > 0 /\ S \in Nat /\ S > 0 /\ V = W * S
    BY <1>2, <1>4
  <2>2. TagOf(x) = x \div V
    BY DEF TagOf
  <2> HIDE DEF W, S, V
  <2>3. x \div (W * S) = (x \div W) \div S
    BY <2>1, DivideTwice
  <2>4. TagOf(x) = (x \div W) \div S
    BY <2>1, <2>2, <2>3
  <2> QED BY <2>4 DEF W, S
<1> QED BY <1>2, <1>3, <1>4, <1>5

(* Up to the end of its block an address is in the same set and has the    *)
(* same tag.                                                               *)
LEMMA SameBlock ==
  ASSUME NEW a \in Nat, NEW x \in Nat, x <= a,
         a < 2 ^ (b + u) * (x \div 2 ^ (b + u)) + 2 ^ (b + u)
  PROVE  /\ a \div 2 ^ (b + u) = x \div 2 ^ (b + u)
         /\ SetOf(a) = SetOf(x) /\ TagOf(a) = TagOf(x)
<1> DEFINE W == 2 ^ (b + u)
           z == x \div W
<1>1. W \in Nat /\ W > 0
  BY Geometry
<1>2. a < W * z + W
  OBVIOUS
<1>3. a \div W = z
  <2>1. z \in Nat /\ x % W \in Nat /\ x = W * z + (x % W)
    <3> HIDE DEF W
    <3> QED BY <1>1, Divide
  <2> HIDE DEF W, z
  <2> DEFINE r == a - W * z
  <2>2. W * z \in Nat /\ W * z <= x
    BY <1>1, <2>1
  <2>3. r \in Int /\ 0 <= r /\ r < W /\ a = W * z + r
    BY <1>1, <1>2, <2>2
  <2> HIDE DEF r
  <2> QED BY <1>1, <2>1, <2>3, DivideOnce
<1>4. SetOf(a) = SetOf(x)
  BY <1>3 DEF SetOf
<1>5. TagOf(a) = TagOf(x)
  BY <1>3, Geometry
<1> QED BY <1>3, <1>4, <1>5

(* Two addresses of a set with different tags are more than a way less a   *)
(* block apart.                                                            *)
LEMMA FarApart ==
  ASSUME NEW a \in Nat, NEW x \in Nat, a < x,
         x - a < 2 ^ (s + b + u) - 2 ^ (b + u), SetOf(a) = SetOf(x)
  PROVE  TagOf(a) = TagOf(x)
<1> DEFINE W == 2 ^ (b + u)
           S == 2 ^ s
           V == 2 ^ (s + b + u)
           za == a \div W
           zx == x \div W
           ta == za \div S
           tx == zx \div S
           ra == a % W
           rx == x % W
           n == za % S
<1>1. W \in Nat /\ W > 0 /\ S \in Nat /\ S > 0 /\ V = W * S
  BY Geometry
<1>2. TagOf(a) = ta /\ TagOf(x) = tx
  BY Geometry
<1>3. /\ za \in Nat /\ ra \in Nat /\ ra < W /\ a = W * za + ra
      /\ zx \in Nat /\ rx \in Nat /\ rx < W /\ x = W * zx + rx
  <2> HIDE DEF W
  <2> QED BY <1>1, Divide
<1>4. n = zx % S
  BY DEF SetOf
<1>5. /\ ta \in Nat /\ n \in Nat /\ n < S /\ za = S * ta + n
      /\ tx \in Nat /\ zx = S * tx + n
  <2> HIDE DEF S, za, zx
  <2>1. ta \in Nat /\ za % S \in Nat /\ za % S < S /\ za = S * ta + (za % S)
    BY <1>1, <1>3, Divide
  <2>2. tx \in Nat /\ zx = S * tx + (zx % S)
    BY <1>1, <1>3, Divide
  <2> QED BY <1>4, <2>1, <2>2
<1>6. x - a < V - W
  OBVIOUS
<1> HIDE DEF W, S, V, za, zx, ta, tx, ra, rx, n
<1>7. ~(tx < ta)
  <2> SUFFICES ASSUME tx < ta PROVE FALSE
    OBVIOUS
  <2>1. S * tx + S <= S * ta
    BY <1>1, <1>5, Multiples
  <2>2. zx < za
    <3>1. S * tx \in Int /\ S * ta \in Int
      BY <1>1, <1>5
    <3> QED BY <1>1, <1>5, <2>1, <3>1
  <2>3. W * zx + W <= W * za
    BY <1>1, <1>3, <2>2, Multiples
  <2>4. W * zx \in Int /\ W * za \in Int
    BY <1>1, <1>3
  <2> QED BY <1>1, <1>3, <2>3, <2>4
<1>8. ~(ta < tx)
  <2> SUFFICES ASSUME ta < tx PROVE FALSE
    OBVIOUS
  <2>1. S * ta + S <= S * tx
    BY <1>1, <1>5, Multiples
  <2> DEFINE d == zx - za - S
  <2>2. d \in Nat /\ zx = za + S + d
    <3>1. S * tx \in Int /\ S * ta \in Int
      BY <1>1, <1>5
    <3> QED BY <1>1, <1>3, <1>5, <2>1, <3>1
  <2> HIDE DEF d
  <2>3. W * zx = W * za + W * S + W * d
    <3>1. za \in Int /\ S \in Int /\ d \in Int /\ W \in Int
      BY <1>1, <1>3, <2>2
    <3>2. W * (za + S + d) = W * za + W * S + W * d
      BY <3>1
    <3> QED BY <2>2, <3>2
  <2>4. W * za \in Int /\ W * S \in Int /\ W * d \in Nat /\ W * zx \in Int
    BY <1>1, <1>3, <2>2
  <2>5. x - a >= W * S - W
    BY <1>1, <1>3, <2>3, <2>4
  <2> QED BY <1>1, <1>6, <2>4, <2>5
<1>9. ta = tx
  BY <1>5, <1>7, <1>8
<1> QED BY <1>2, <1>9

(* A call at the start of a sub-block marks those of all its bytes that    *)
(* are in the block.                                                       *)
LEMMA TouchedCovers ==
  ASSUME NEW c \in CallRecord, OffsetOf(c.addr) = 0, NEW a \in Nat, c.addr <= a,
         a < c.addr + c.size, a \div 2 ^ (b + u) = c.addr \div 2 ^ (b + u)
  PROVE  SubBlockOf(a) \in Touched(c)
<1> DEFINE P == 2 ^ b
           Q == 2 ^ u
           W == 2 ^ (b + u)
           x == c.addr
           ya == a \div P
           yx == x \div P
           ra == a % P
           ja == ya % Q
           jx == yx % Q
           z == yx \div Q
<1>1. /\ P \in Nat /\ P > 0 /\ Q \in Nat /\ Q > 0 /\ W = P * Q
      /\ x \in Nat /\ c.size \in Int
  BY Geometry DEF CallRecord
<1>2. /\ ya \in Nat /\ ra \in Nat /\ a = P * ya + ra
      /\ yx \in Nat /\ x = P * yx
  <2>1. x % P = 0
    BY DEF OffsetOf
  <2> HIDE DEF P, x
  <2>2. ya \in Nat /\ ra \in Nat /\ a = P * ya + ra
    BY <1>1, Divide
  <2>3. yx \in Nat /\ x = P * yx + (x % P)
    BY <1>1, Divide
  <2>4. P * yx \in Int
    BY <1>1, <2>3
  <2> QED BY <2>1, <2>2, <2>3, <2>4
<1>3. a \div (P * Q) = ya \div Q /\ x \div (P * Q) = z
  <2> HIDE DEF P, Q, x
  <2> QED BY <1>1, DivideTwice
<1>4. ya \div Q = z
  BY <1>1, <1>3
<1>5. ja \in Nat /\ jx \in Nat /\ z \in Nat /\ ya = Q * z + ja /\ yx = Q * z + jx /\ ja < Q
  <2> HIDE DEF ya, yx, Q
  <2>1. ja \in Nat /\ ja < Q /\ ya = Q * (ya \div Q) + ja
    BY <1>1, <1>2, Divide
  <2>2. jx \in Nat /\ z \in Nat /\ yx = Q * z + jx
    BY <1>1, <1>2, Divide
  <2> QED BY <1>4, <2>1, <2>2
<1>6. SubBlockOf(a) = ja /\ SubBlockOf(x) = jx /\ ja \in Piece
  <2>1. SubBlockOf(a) = ja /\ SubBlockOf(x) = jx
    BY DEF SubBlockOf
  <2> QED BY <2>1, FieldsFit
<1> HIDE DEF P, Q, W, x, ya, yx, ra, ja, jx, z
<1>7. ~(ya < yx)
  <2> SUFFICES ASSUME ya < yx PROVE FALSE
    OBVIOUS
  <2>1. P * ya + P <= P * yx
    BY <1>1, <1>2, Multiples
  <2>2. a < x
    <3>1. P * ya \in Int /\ P * yx \in Int /\ ra < P
      BY <1>1, <1>2, Divide DEF ra
    <3> QED BY <1>1, <1>2, <2>1, <3>1
  <2> QED BY <1>1, <2>2 DEF x
<1> DEFINE d == ja - jx
<1>8. d \in Nat /\ ya = yx + d
  <2>1. Q * z \in Int
    BY <1>1, <1>5
  <2> QED BY <1>2, <1>5, <1>7, <2>1
<1> HIDE DEF d
<1>9. P * ya = P * yx + P * d
  BY <1>1, <1>2, <1>8
<1>10. c.size > P * d
  <2>1. P * ya \in Int /\ P * yx \in Int /\ P * d \in Int
    BY <1>1, <1>2, <1>8
  <2>2. a < x + c.size
    BY DEF x
  <2> QED BY <1>1, <1>2, <1>9, <2>1, <2>2
<1>11. ja >= jx
  BY <1>5, <1>8 DEF d
<1> QED BY <1>6, <1>10, <1>11 DEF Touched, P, x, d

(* The line a call chooses has its tag and the marks of the call; a line   *)
(* that had a tag keeps it and its marks, unless it is evicted.            *)
LEMMA AfterChosen ==
  ASSUME NEW set, \A i \in Slot : set[i].age \in Age, NEW c, NEW def
  PROVE  LET t == TagOf(c.addr)
             new == SetAfter(set, c, def)[Chosen(set, t)] IN
         /\ Chosen(set, t) \in Slot
         /\ new.tag = t /\ new.valid_line
         /\ Touched(c) \subseteq new.valid
         /\ ~Evicts(set, t) => set[Chosen(set, t)].valid \subseteq new.valid
<1> DEFINE t == TagOf(c.addr)
           i == Chosen(set, t)
           out == Outcome(set, t)
           age == cache_update(Aged(set, t, def)[i], out, 0)
           dirty == ~c.isRead \/ (out # "EVICT" /\ set[i].dirty)
           valid == Touched(c) \cup (IF out = "EVICT" THEN {} ELSE set[i].valid)
<1>1. i \in Slot
  BY ChosenIsSlot
<1>2. SetAfter(set, c, def)[i] =
        [tag |-> t, age |-> age, dirty |-> dirty, valid_line |-> TRUE, valid |-> valid]
  BY <1>1 DEF SetAfter
<1>3. ~Evicts(set, t) => out # "EVICT"
  BY DEF Outcome
<1> HIDE DEF age, dirty, i, out
<1>4. /\ SetAfter(set, c, def)[i].tag = t /\ SetAfter(set, c, def)[i].valid_line
      /\ SetAfter(set, c, def)[i].valid = valid
  BY <1>2
<1>5. Touched(c) \subseteq valid /\ (~Evicts(set, t) => set[i].valid \subseteq valid)
  BY <1>3
<1> QED BY <1>1, <1>4, <1>5 DEF i

Holds(set, a) ==
  \E i \in Slot :
    /\ set[i].valid_line /\ set[i].tag = TagOf(a)
    /\ OffsetOf(asking.addr) = 0 => SubBlockOf(a) \in set[i].valid

LEMMA AfterHolds ==
  ASSUME NEW set, SetShape(set), \A i \in Slot : set[i].age \in Age, NEW c, NEW def, NEW a,
         Holds(set, a), Evicts(set, TagOf(c.addr)) => TagOf(a) = TagOf(c.addr)
  PROVE  Holds(SetAfter(set, c, def), a)
<1> DEFINE t == TagOf(c.addr)
           ch == Chosen(set, t)
           new == SetAfter(set, c, def)
<1>1. PICK i \in Slot : /\ set[i].valid_line /\ set[i].tag = TagOf(a)
                        /\ OffsetOf(asking.addr) = 0 => SubBlockOf(a) \in set[i].valid
  BY DEF Holds
<1>2. ~Evicts(set, t)
  BY <1>1 DEF Evicts, Stops
<1>3. CASE i # ch
  <2>1. /\ new[i].tag = set[i].tag
        /\ new[i].valid_line = set[i].valid_line
        /\ new[i].valid = set[i].valid
    BY <1>3, AfterFields
  <2> HIDE DEF new
  <2> QED BY <1>1, <2>1 DEF Holds, new
<1>4. CASE i = ch
  <2>1. /\ new[ch].tag = t /\ new[ch].valid_line
        /\ set[ch].valid \subseteq new[ch].valid
    BY <1>2, AfterChosen
  <2>2. set[i].tag = t
    <3>1. \/ \A j \in Slot : set[j].valid_line /\ set[j].tag # t
          \/ /\ ch \in Slot
             /\ ~set[ch].valid_line \/ set[ch].tag = t
      BY ScanStops
    <3>2. ~(\A j \in Slot : set[j].valid_line /\ set[j].tag # t)
      BY <1>2 DEF Evicts, Stops
    <3> QED BY <1>1, <1>4, <3>1, <3>2
  <2> HIDE DEF new, ch
  <2>3. /\ new[i].valid_line /\ new[i].tag = TagOf(a)
        /\ OffsetOf(asking.addr) = 0 => SubBlockOf(a) \in new[i].valid
    BY <1>1, <1>4, <2>1, <2>2
  <2> QED BY <2>3 DEF Holds, new
<1> QED BY <1>3, <1>4

(* The premise of BytesAreCached but for the calls; what the calls still   *)
(* have to do; and the invariant.                                          *)
Whole ==
  /\ asking # NoTag
  /\ asking.size <= 2 ^ (s + b + u) - 2 ^ (b + u)
  /\ version = "cache_impl_final" \/ ~asking.isRead

StillToCome(a) == \E i \in DOMAIN calls : calls[i].addr <= a

Progress ==
  Whole =>
    /\ OffsetOf(asking.addr) = 0 => \A i \in DOMAIN calls : OffsetOf(calls[i].addr) = 0
    /\ \A a \in Bytes : Holds(cache_sim[SetOf(a)], a) \/ StillToCome(a)

(* A call in a whole request: what is before it stays, the block it starts *)
(* in is there, what is beyond the block is left to the rest.              *)
LEMMA ServeProgress ==
  ASSUME TypesFit, IInv, Progress, calls # <<>>, Head(calls).size > 0,
         NEW def, NEW more \in Seq(CallRecord),
         Whole => \/ Rest(Head(calls)) = <<>>
                  \/ /\ 1 \in DOMAIN more
                     /\ more[1].addr = Head(calls).addr + Jump(Head(calls)),
         Whole => \A i \in DOMAIN more :
                    more[i].addr = Head(calls).addr + Jump(Head(calls)),
         Serve(def, more), UNCHANGED asking
  PROVE  Progress'
<1> DEFINE c == Head(calls)
           st == SetOf(c.addr)
           rest == Tail(calls)
<1> SUFFICES ASSUME Whole' PROVE Progress'
  BY DEF Progress
<1>1. /\ cache_sim' = [cache_sim EXCEPT ![st] = SetAfter(@, c, def)]
      /\ calls' = more \o rest
      /\ UNCHANGED <<version, use_RRIP, asking>>
  BY DEF Serve
<1>2. Whole
  BY <1>1 DEF Whole
<1>3. /\ calls \in Seq(CallRecord)
      /\ c = calls[1] /\ 1 \in DOMAIN calls /\ c \in CallRecord /\ rest \in Seq(CallRecord)
      /\ \A i \in DOMAIN rest : i + 1 \in DOMAIN calls /\ rest[i] = calls[i + 1]
      /\ \A i \in DOMAIN calls : i = 1 \/ (i - 1 \in DOMAIN rest /\ calls[i] = rest[i - 1])
  <2>1. calls \in Seq(CallRecord)
    BY DEF TypesFit, TypeOK, CacheTypeOK, CallRecord
  <2> QED BY <2>1
<1>4. Part(c) /\ asking \in Asks
  BY <1>2, <1>3 DEF TypesFit, CallsFit, Whole
<1>5. /\ c.addr \in Nat /\ c.size \in Int /\ asking.addr \in Nat /\ asking.size \in Int
      /\ asking.addr <= c.addr /\ c.addr + c.size = asking.addr + asking.size /\ c.size > 0
  BY <1>3, <1>4 DEF CallRecord, Asks, Part
<1>6. /\ Jump(c) \in Nat /\ Jump(c) > 0
      /\ c.addr + Jump(c) = 2 ^ (b + u) * (c.addr \div 2 ^ (b + u)) + 2 ^ (b + u)
      /\ OffsetOf(c.addr + Jump(c)) = 0
  BY <1>5, JumpFits
<1>7. /\ Rest(c) = <<>> \/ (1 \in DOMAIN more /\ more[1].addr = c.addr + Jump(c))
      /\ \A i \in DOMAIN more : more[i].addr = c.addr + Jump(c)
  BY <1>2
<1>8. /\ SetShape(cache_sim[st]) /\ st \in SetIdx
      /\ \A i \in Slot : cache_sim[st][i].age \in Age
      /\ cache_sim'[st] = SetAfter(cache_sim[st], c, def)
      /\ \A x \in SetIdx : x # st => cache_sim'[x] = cache_sim[x]
  <2>1. st \in SetIdx
    BY <1>5, FieldsFit
  <2>2. cache_sim \in [SetIdx -> [Slot -> Line]]
    BY DEF TypesFit, TypeOK, CacheTypeOK
  <2> HIDE DEF c, st
  <2>3. \A i \in Slot : cache_sim[st][i].age \in Age
    BY <2>1, <2>2 DEF Line
  <2> QED BY <1>1, <2>1, <2>2, <2>3 DEF IInv
<1>9. /\ Len(more) \in Nat /\ DOMAIN more = 1 .. Len(more)
      /\ calls' = more \o rest
      /\ \A i \in DOMAIN more : i \in DOMAIN calls' /\ calls'[i] = more[i]
      /\ \A i \in DOMAIN rest : i + Len(more) \in DOMAIN calls' /\ calls'[i + Len(more)] = rest[i]
      /\ \A i \in DOMAIN calls' : i \in DOMAIN more \/ i - Len(more) \in DOMAIN rest
  <2> HIDE DEF rest
  <2> QED BY <1>1, <1>3
<1> HIDE DEF c, st, rest
<1>10. ASSUME OffsetOf(asking.addr) = 0, NEW i \in DOMAIN calls'
       PROVE  OffsetOf(calls'[i].addr) = 0
  <2>1. CASE i \in DOMAIN more
    BY <1>6, <1>7, <1>9, <2>1
  <2>2. CASE i - Len(more) \in DOMAIN rest
    <3>1. calls'[i] = rest[i - Len(more)]
      <4>1. (i - Len(more)) + Len(more) = i
        BY <1>9, <2>2, <1>3
      <4> QED BY <1>9, <2>2, <4>1
    <3>2. \A j \in DOMAIN calls : OffsetOf(calls[j].addr) = 0
      BY <1>2, <1>10 DEF Progress
    <3> QED BY <1>3, <2>2, <3>1, <3>2
  <2> QED BY <1>9, <2>1, <2>2
<1>11. ASSUME NEW a \in Bytes
       PROVE  Holds(cache_sim'[SetOf(a)], a) \/ StillToCome(a)'
  <2>1. a \in Nat /\ asking.addr <= a /\ a < asking.addr + asking.size
    BY <1>5 DEF Bytes
  <2>2. Holds(cache_sim[SetOf(a)], a) \/ StillToCome(a)
    BY <1>2 DEF Progress
  <2>3. CASE c.addr + Jump(c) <= a
    <3>1. c.size > Jump(c)
      BY <1>5, <1>6, <2>1, <2>3
    <3>2. Rest(c) # <<>>
      BY <3>1 DEF Rest
    <3>3. 1 \in DOMAIN calls' /\ calls'[1].addr <= a
      BY <1>7, <1>9, <2>3, <3>2
    <3> QED BY <3>3 DEF StillToCome
  <2>4. CASE c.addr <= a /\ a < c.addr + Jump(c)
    <3>1. /\ a \div 2 ^ (b + u) = c.addr \div 2 ^ (b + u)
          /\ SetOf(a) = st /\ TagOf(a) = TagOf(c.addr)
      BY <1>5, <1>6, <2>1, <2>4, SameBlock DEF st
    <3> DEFINE i == Chosen(cache_sim[st], TagOf(c.addr))
               line == SetAfter(cache_sim[st], c, def)[i]
    <3>2. /\ i \in Slot /\ line.tag = TagOf(c.addr) /\ line.valid_line
          /\ Touched(c) \subseteq line.valid
      BY <1>8, AfterChosen
    <3>3. cache_sim'[SetOf(a)][i] = line
      BY <1>8, <3>1
    <3>4. ASSUME OffsetOf(asking.addr) = 0 PROVE SubBlockOf(a) \in Touched(c)
      <4>1. OffsetOf(c.addr) = 0
        BY <1>2, <1>3, <3>4 DEF Progress
      <4>2. a < c.addr + c.size
        BY <1>5, <2>1
      <4> QED BY <1>3, <2>1, <2>4, <3>1, <4>1, <4>2, TouchedCovers
    <3> HIDE DEF i, line
    <3> QED BY <3>1, <3>2, <3>3, <3>4 DEF Holds
  <2>5. CASE a < c.addr /\ StillToCome(a)
    <3>1. PICK j \in DOMAIN calls : calls[j].addr <= a
      BY <2>5 DEF StillToCome
    <3>2. j # 1
      BY <1>3, <1>5, <2>1, <2>5, <3>1
    <3>3. j - 1 \in DOMAIN rest /\ calls[j] = rest[j - 1]
      BY <1>3, <3>2
    <3>4. \E i \in DOMAIN calls' : calls'[i].addr <= a
      <4>1. /\ (j - 1) + Len(more) \in DOMAIN calls'
            /\ calls'[(j - 1) + Len(more)] = rest[j - 1]
        BY <1>9, <3>3
      <4> QED BY <3>1, <3>3, <4>1
    <3> QED BY <3>4 DEF StillToCome
  <2>6. CASE a < c.addr /\ Holds(cache_sim[SetOf(a)], a)
    <3>1. CASE SetOf(a) # st
      <4>1. SetOf(a) \in SetIdx
        BY <2>1, FieldsFit
      <4> QED BY <1>8, <2>6, <3>1, <4>1
    <3>2. CASE SetOf(a) = st
      <4>1. TagOf(a) = TagOf(c.addr)
        <5> DEFINE V == 2 ^ (s + b + u)
                   W == 2 ^ (b + u)
        <5>1. asking.size <= V - W
          BY <1>2 DEF Whole
        <5>2. V \in Int /\ W \in Int
          BY Power, GeometryAssumption
        <5> HIDE DEF V, W
        <5>3. c.addr - a < V - W
          BY <1>5, <2>1, <5>1, <5>2
        <5> QED BY <1>5, <2>1, <2>6, <3>2, <5>3, FarApart DEF V, W, st
      <4>2. Holds(SetAfter(cache_sim[st], c, def), a)
        BY <1>8, <2>6, <3>2, <4>1, AfterHolds
      <4> QED BY <1>8, <3>2, <4>2
    <3> QED BY <3>1, <3>2
  <2>7. c.addr <= a \/ a < c.addr
    BY <1>5, <2>1
  <2>8. c.addr + Jump(c) <= a \/ a < c.addr + Jump(c)
    BY <1>5, <1>6, <2>1
  <2> QED BY <2>2, <2>3, <2>4, <2>5, <2>6, <2>7, <2>8
<1>12. (\A a \in Bytes : Holds(cache_sim[SetOf(a)], a) \/ StillToCome(a))'
  <2>1. Bytes' = Bytes
    BY <1>1 DEF Bytes
  <2> QED BY <1>1, <1>11, <2>1 DEF Holds
<1>13. (OffsetOf(asking.addr) = 0 => \A i \in DOMAIN calls : OffsetOf(calls[i].addr) = 0)'
  BY <1>1, <1>10
<1> QED BY <1>12, <1>13 DEF Progress

LEMMA CallProgress ==
  ASSUME TypesFit, IInv, Progress, Call, UNCHANGED asking
  PROVE  Progress'
<1> DEFINE c == Head(calls)
<1>1. calls \in Seq(CallRecord) /\ calls # <<>>
  BY DEF TypesFit, TypeOK, CacheTypeOK, CallRecord, Call, EmptyCall, Called,
         load_cache_impl, store_cache_impl, load_cache_final, store_cache_final
<1>2. /\ c = calls[1] /\ 1 \in DOMAIN calls /\ c \in CallRecord
      /\ \A i \in DOMAIN Tail(calls) : i + 1 \in DOMAIN calls /\ Tail(calls)[i] = calls[i + 1]
      /\ \A i \in DOMAIN calls :
           i = 1 \/ (i - 1 \in DOMAIN Tail(calls) /\ calls[i] = Tail(calls)[i - 1])
  BY <1>1
<1>3. asking \in Asks /\ Part(c) /\ OfItsKind(c)
  BY <1>1, <1>2 DEF TypesFit, CallsFit
<1>4. Rest(c) = <<>> \/ Rest(c) = <<[isRead |-> c.isRead, addr |-> c.addr + Jump(c),
                                     size |-> c.size - Jump(c)]>>
  BY DEF Rest
<1>5. /\ Rest(c) \in Seq(CallRecord)
      /\ Rest(c) = <<>> \/ (1 \in DOMAIN Rest(c) /\ Rest(c)[1].addr = c.addr + Jump(c))
      /\ \A i \in DOMAIN Rest(c) : Rest(c)[i].addr = c.addr + Jump(c)
  <2>1. Rest(c) \in Seq(CallRecord)
    BY <1>2, <1>3, RestFits
  <2> DEFINE d == [isRead |-> c.isRead, addr |-> c.addr + Jump(c), size |-> c.size - Jump(c)]
  <2>2. d.addr = c.addr + Jump(c)
    OBVIOUS
  <2>3. Rest(c) = <<>> \/ Rest(c) = <<d>>
    BY <1>4
  <2> HIDE DEF d
  <2> QED BY <2>1, <2>2, <2>3
<1>6. CASE EmptyCall
  <2> SUFFICES ASSUME Whole' PROVE Progress'
    BY DEF Progress
  <2>1. /\ c.size <= 0 /\ calls' = Tail(calls)
        /\ UNCHANGED <<version, use_RRIP, cache_sim, result, asking>>
    BY <1>6 DEF EmptyCall
  <2>2. Whole
    BY <2>1 DEF Whole
  <2>3. (OffsetOf(asking.addr) = 0 => \A i \in DOMAIN calls : OffsetOf(calls[i].addr) = 0)'
    BY <1>2, <2>1, <2>2 DEF Progress
  <2>4. ASSUME NEW a \in Bytes
        PROVE  Holds(cache_sim[SetOf(a)], a) \/ StillToCome(a)'
    <3>1. CASE Holds(cache_sim[SetOf(a)], a)
      BY <3>1
    <3>2. CASE StillToCome(a)
      <4>1. PICK i \in DOMAIN calls : calls[i].addr <= a
        BY <3>2 DEF StillToCome
      <4>2. i # 1
        <5>1. /\ c.addr \in Nat /\ c.size \in Int /\ asking.addr \in Nat /\ asking.size \in Int
              /\ c.addr + c.size = asking.addr + asking.size
          BY <1>2, <1>3 DEF CallRecord, Asks, Part
        <5> QED BY <1>2, <2>1, <4>1, <5>1 DEF Bytes
      <4>3. i - 1 \in DOMAIN Tail(calls) /\ Tail(calls)[i - 1].addr <= a
        BY <1>2, <4>1, <4>2
      <4> QED BY <2>1, <4>3 DEF StillToCome
    <3> QED BY <2>2, <3>1, <3>2 DEF Progress
  <2>5. (\A a \in Bytes : Holds(cache_sim[SetOf(a)], a) \/ StillToCome(a))'
    BY <2>1, <2>4 DEF Bytes, Holds
  <2> QED BY <2>3, <2>5 DEF Progress
<1>7. ASSUME NEW def, NEW more, more \in Seq(CallRecord), c.size > 0, Serve(def, more),
             Whole => Rest(c) = <<>> \/ (1 \in DOMAIN more /\ more[1].addr = c.addr + Jump(c)),
             Whole => \A i \in DOMAIN more : more[i].addr = c.addr + Jump(c)
      PROVE  Progress'
  BY <1>1, <1>7, ServeProgress
<1>8. CASE load_cache_impl
  <2>1. Serve(1, IF Ends THEN <<>> ELSE Rest(c)) /\ c.size > 0 /\ version = "cache_impl"
        /\ c.isRead = TRUE
    BY <1>8 DEF load_cache_impl, Called
  <2>2. ~Whole
    BY <1>3, <2>1 DEF Whole, OfItsKind
  <2>3. PICK more : more = IF Ends THEN <<>> ELSE Rest(c)
    OBVIOUS
  <2>4. more \in Seq(CallRecord)
    BY <1>5, <2>3
  <2>5. Serve(1, more)
    BY <2>1, <2>3
  <2> HIDE DEF c
  <2> QED BY <1>7, <2>1, <2>2, <2>4, <2>5
<1>9. CASE store_cache_impl \/ load_cache_final
  <2>1. (Serve(0, Rest(c)) \/ Serve(1, Rest(c))) /\ c.size > 0
    BY <1>9 DEF store_cache_impl, load_cache_final, Called
  <2> HIDE DEF c
  <2> QED BY <1>5, <1>7, <2>1
<1>10. CASE store_cache_final
  <2> DEFINE rest == Rest(c)
             again == IF Ends THEN AsLoads(rest) ELSE <<>>
             more == rest \o again
  <2>1. Serve(0, more) /\ c.size > 0 /\ version = "cache_impl_final"
    BY <1>10 DEF store_cache_final, Called
  <2>2. version # "cache_impl"
    BY <2>1
  <2>3. /\ AsLoads(rest) \in Seq(CallRecord)
        /\ \A i \in DOMAIN AsLoads(rest) : AsLoads(rest)[i].addr = c.addr + Jump(c)
    <3>1. \A i \in DOMAIN rest : Part(rest[i])
      BY <1>2, <1>3, RestFits
    <3>2. AsLoads(rest) \in Seq(CallRecord)
      BY <1>3, <1>5, <2>2, <3>1, AsLoadsFit
    <3>3. ASSUME NEW i \in DOMAIN AsLoads(rest) PROVE AsLoads(rest)[i].addr = c.addr + Jump(c)
      <4>1. i \in DOMAIN rest /\ AsLoads(rest)[i] = [rest[i] EXCEPT !.isRead = TRUE]
        BY DEF AsLoads
      <4>2. rest[i] \in CallRecord /\ rest[i].addr = c.addr + Jump(c)
        BY <1>5, <4>1
      <4> HIDE DEF rest, c
      <4>3. AsLoads(rest)[i].addr = rest[i].addr
        BY <4>1, <4>2 DEF CallRecord
      <4> QED BY <4>2, <4>3
    <3> QED BY <3>2, <3>3
  <2>4. again \in Seq(CallRecord) /\ \A i \in DOMAIN again : again[i].addr = c.addr + Jump(c)
    BY <2>3
  <2>5. /\ rest \in Seq(CallRecord)
        /\ rest = <<>> \/ (1 \in DOMAIN rest /\ rest[1].addr = c.addr + Jump(c))
        /\ \A i \in DOMAIN rest : rest[i].addr = c.addr + Jump(c)
    BY <1>5
  <2>6. more = rest \o again
    OBVIOUS
  <2> HIDE DEF rest, again, more, c
  <2>7. more \in Seq(CallRecord)
    BY <2>4, <2>5, <2>6
  <2>8. \A i \in DOMAIN more : more[i].addr = c.addr + Jump(c)
    <3> SUFFICES ASSUME NEW i \in DOMAIN more PROVE more[i].addr = c.addr + Jump(c)
      OBVIOUS
    <3>1. \/ i \in DOMAIN rest /\ more[i] = rest[i]
          \/ i - Len(rest) \in DOMAIN again /\ more[i] = again[i - Len(rest)]
      BY <2>4, <2>5, <2>6
    <3> QED BY <2>4, <2>5, <3>1
  <2>9. rest = <<>> \/ (1 \in DOMAIN more /\ more[1].addr = c.addr + Jump(c))
    BY <2>4, <2>5, <2>6
  <2> QED BY <1>7, <2>1, <2>7, <2>8, <2>9 DEF rest
<1> QED BY <1>6, <1>8, <1>9, <1>10 DEF Call

LEMMA NextProgress == TypesFit /\ IInv /\ Progress /\ [Next]_vars => Progress'
<1> SUFFICES ASSUME TypesFit, IInv, Progress, [Next]_vars PROVE Progress'
  OBVIOUS
<1>1. CASE UNCHANGED <<version, cache_sim, calls, asking>>
  BY <1>1 DEF Progress, Whole, Bytes, Holds, StillToCome
<1>2. ASSUME NEW p \in Proc, NEW isRead, NEW addr \in Nat, NEW size \in Int,
             MemoryRequest(p, isRead, addr, size)
      PROVE  Progress'
  <2>1. /\ calls' = <<[isRead |-> isRead, addr |-> addr, size |-> size]>>
        /\ asking' = [proc |-> p, base |-> memOpTag[p],
                      isRead |-> isRead, addr |-> addr, size |-> size]
    BY <1>2 DEF MemoryRequest
  <2>2. DOMAIN calls' = {1} /\ calls'[1].addr = addr /\ asking'.addr = addr /\ asking'.size = size
    BY <2>1
  <2>3. \A a \in addr .. addr + size - 1 : addr <= a
    OBVIOUS
  <2>4. (\A a \in Bytes : StillToCome(a))'
    BY <2>2, <2>3 DEF Bytes, StillToCome
  <2> QED BY <2>2, <2>4 DEF Progress
<1>3. CASE CallLines
  BY <1>3, CallProgress DEF CallLines
<1>4. CASE Accept
  BY <1>4 DEF Accept, Progress, Whole
<1>5. ASSUME NEW p \in Proc, Run(p) PROVE Progress'
  <2>1. CASE Pass(p)
    BY <1>1, <2>1 DEF Pass, linesVars
  <2>2. ASSUME NEW op, Branch(p, op.pc, op.next) PROVE Progress'
    BY <1>1, <2>2 DEF Branch, linesVars
  <2>3. ASSUME NEW op \in program[p], NEW isRead, op.op # "BRANCH",
               MemoryRequest(p, isRead, op.addr, op.size)
        PROVE  Progress'
    <3>1. op.addr \in Nat /\ op.size \in Int
      BY <2>3, OperationsFit DEF TypesFit, Operation
    <3> QED BY <1>2, <2>3, <3>1
  <2> QED BY <1>5, <2>1, <2>2, <2>3 DEF Run
<1>6. CASE TickCache
  BY <1>1, <1>6 DEF TickCache, linesVars
<1>7. ASSUME NEW p \in Proc, WaitForMemory(p) \/ WaitForBranch(p) PROVE Progress'
  BY <1>1, <1>7 DEF WaitForMemory, WaitForBranch, linesVars
<1>8. CASE UNCHANGED vars
  BY <1>1, <1>8 DEF vars, linesVars
<1> QED BY <1>3, <1>4, <1>5, <1>6, <1>7, <1>8 DEF Next

(* When the calls of a request are made, no call of it has evicted what    *)
(* another had brought: the request is shorter than the distance at which  *)
(* two of its addresses meet in a set with different tags.                 *)
THEOREM RequestsAreCached == Spec => []BytesAreCached
<1>1. Progress => BytesAreCached
  <2> SUFFICES ASSUME Progress, asking # NoTag, calls = <<>>,
                      asking.size <= 2 ^ (s + b + u) - 2 ^ (b + u),
                      version = "cache_impl_final" \/ ~asking.isRead,
                      NEW a \in Bytes
               PROVE  Holds(cache_sim[SetOf(a)], a)
    BY DEF BytesAreCached, Holds
  <2>1. ~StillToCome(a)
    BY DEF StillToCome
  <2> QED BY <2>1 DEF Progress, Whole
<1>2. Init => Progress
  BY DEF Init, Progress, Whole
<1> QED BY <1>1, <1>2, InitFits, NextFits, InitInv, NextKeepsInv, NextProgress, PTL DEF Spec

-----------------------------------------------------------------------------
(* LRU: what a call does to a set whose ages do not wrap.                  *)
YoungIn(set) == \A i \in Slot : set[i].age \in Nat /\ set[i].age < 2 ^ AgeBits - 1

LEMMA OneOlder ==
  ASSUME ~use_RRIP, NEW age \in Nat, age < 2 ^ AgeBits - 1, NEW d
  PROVE  cache_update(age, "DEFAULT", d) = age + 1
<1> DEFINE m == 2 ^ AgeBits
<1>1. m \in Nat /\ m > 0
  BY Power, GeometryAssumption
<1>2. cache_update(age, "DEFAULT", d) = (age + 1) % m
  BY DEF cache_update, lru_update
<1>3. age < m - 1
  OBVIOUS
<1> HIDE DEF m
<1> QED BY <1>1, <1>2, <1>3

LEMMA AfterByAge ==
  ASSUME ~use_RRIP, NEW set, SetShape(set), YoungIn(set), NEW c, NEW def, NEW j \in Slot
  PROVE  LET new == SetAfter(set, c, def)
             out == Outcome(set, TagOf(c.addr)) IN
         /\ j # Chosen(set, TagOf(c.addr)) =>
              /\ new[j].tag = set[j].tag /\ new[j].valid_line = set[j].valid_line
              /\ new[j].valid = set[j].valid /\ new[j].dirty = set[j].dirty
              /\ new[j].age = set[j].age + 1
         /\ j = Chosen(set, TagOf(c.addr)) =>
              /\ new[j].tag = TagOf(c.addr) /\ new[j].valid_line /\ new[j].age = 0
              /\ new[j].valid = Touched(c) \cup (IF out = "EVICT" THEN {} ELSE set[j].valid)
              /\ new[j].dirty = (~c.isRead \/ (out # "EVICT" /\ set[j].dirty))
<1> DEFINE t == TagOf(c.addr)
           ch == Chosen(set, t)
           out == Outcome(set, t)
           dd == IF Evicts(set, t) THEN (2 ^ k - 1 - set[ch].age) % 2 ^ AgeBits ELSE def
           a == Aged(set, t, def)[j]
<1>1. CASE j # ch
  <2>1. SetAfter(set, c, def)[j] = [set[j] EXCEPT !.age = a]
    BY <1>1 DEF SetAfter
  <2>2. a = set[j].age + 1
    <3>1. a = cache_update(set[j].age, "DEFAULT", dd)
      BY DEF Aged
    <3> HIDE DEF a, dd
    <3> QED BY <3>1, OneOlder DEF YoungIn
  <2>3. set[j] = Fields(set[j])
    BY DEF SetShape
  <2> HIDE DEF a
  <2>4. [set[j] EXCEPT !.age = a] =
          [tag |-> set[j].tag, age |-> a, dirty |-> set[j].dirty,
           valid_line |-> set[j].valid_line, valid |-> set[j].valid]
    BY <2>3 DEF Fields
  <2> QED BY <1>1, <2>1, <2>2, <2>4
<1>2. CASE j = ch
  <2> DEFINE age   == cache_update(Aged(set, t, def)[ch], out, 0)
             dirty == ~c.isRead \/ (out # "EVICT" /\ set[ch].dirty)
             valid == Touched(c) \cup (IF out = "EVICT" THEN {} ELSE set[ch].valid)
  <2>1. SetAfter(set, c, def)[j] =
          [tag |-> t, age |-> age, dirty |-> dirty, valid_line |-> TRUE, valid |-> valid]
    BY <1>2 DEF SetAfter
  <2>2. age = 0
    BY DEF cache_update, lru_update, Outcome
  <2> HIDE DEF age, dirty, valid
  <2>3. /\ SetAfter(set, c, def)[j].tag = t /\ SetAfter(set, c, def)[j].valid_line
        /\ SetAfter(set, c, def)[j].age = 0 /\ SetAfter(set, c, def)[j].valid = valid
        /\ SetAfter(set, c, def)[j].dirty = dirty
    BY <2>1, <2>2
  <2> QED BY <1>2, <2>3 DEF valid, dirty
<1> QED BY <1>1, <1>2

(* What the lines of a set are under LRU: those in use are filled, with a  *)
(* tag and an age of their own, and younger than the others, which are     *)
(* clean.                                                                  *)
SetLRU(set) ==
  /\ \A i \in UsedIn(set) : set[i].valid_line
  /\ \A i, j \in UsedIn(set) : i # j => set[i].age # set[j].age /\ set[i].tag # set[j].tag
  /\ \A i \in Slot \ UsedIn(set) : /\ ~set[i].dirty
                                   /\ \A j \in UsedIn(set) : set[j].age < set[i].age

(* The line a call takes: it stands for nothing but the call's block,      *)
(* except when it is evicted.                                              *)
LEMMA ChosenForTag ==
  ASSUME NEW set, SetSafe(set), SetLRU(set), YoungIn(set), NEW tag
  PROVE  /\ Chosen(set, tag) \in Slot
         /\ \A i \in UsedIn(set) : i # Chosen(set, tag) => set[i].tag # tag
         /\ ~Evicts(set, tag) => \/ Chosen(set, tag) \notin UsedIn(set)
                                 \/ set[Chosen(set, tag)].tag = tag
         /\ Evicts(set, tag) =>
              /\ \A i \in Slot : set[i].tag # tag
              /\ \A i \in Slot : set[i].age <= set[Chosen(set, tag)].age
              /\ Chosen(set, tag) \in UsedIn(set) => UsedIn(set) = Slot
<1> DEFINE ch == Chosen(set, tag)
<1>0. ch \in Slot
  <2>1. \A i \in Slot : set[i].age \in Age
    <3> DEFINE m == 2 ^ AgeBits
    <3>1. m \in Nat /\ \A i \in Slot : set[i].age \in Nat /\ set[i].age < m - 1
      BY Power, GeometryAssumption DEF YoungIn
    <3>2. Age = 0 .. m - 1
      BY DEF Age
    <3> HIDE DEF m
    <3> QED BY <3>1, <3>2
  <2> QED BY <2>1, ChosenIsSlot
<1>1. CASE Evicts(set, tag)
  <2>1. \A i \in Slot : set[i].tag # tag
    BY <1>1 DEF Evicts, Stops
  <2>2. ch \in Eldest(set)
    <3>1. Eldest(set) \subseteq Slot /\ Eldest(set) # {}
      <4>1. \A i \in Slot : set[i].age \in Age
        <5> DEFINE m == 2 ^ AgeBits
        <5>1. m \in Nat /\ \A i \in Slot : set[i].age \in Nat /\ set[i].age < m - 1
          BY Power, GeometryAssumption DEF YoungIn
        <5>2. Age = 0 .. m - 1
          BY DEF Age
        <5> HIDE DEF m
        <5> QED BY <5>1, <5>2
      <4> QED BY <4>1, EldestExists DEF Eldest
    <3>2. ch = FirstOf(Eldest(set))
      BY <1>1 DEF Chosen
    <3> QED BY <3>1, <3>2, FirstExists
  <2>3. \A i \in Slot : set[i].age <= set[ch].age
    BY <2>2 DEF Eldest
  <2>4. ch \in UsedIn(set) => UsedIn(set) = Slot
    <3> SUFFICES ASSUME ch \in UsedIn(set), NEW i \in Slot, i \notin UsedIn(set) PROVE FALSE
      BY DEF UsedIn
    <3>1. set[ch].age < set[i].age /\ set[i].age <= set[ch].age
      BY <2>3 DEF SetLRU
    <3> HIDE DEF ch
    <3> QED BY <1>0, <3>1 DEF YoungIn
  <2> QED BY <1>0, <1>1, <2>1, <2>3, <2>4 DEF UsedIn
<1>2. CASE ~Evicts(set, tag)
  <2>1. /\ ~set[ch].valid_line \/ set[ch].tag = tag
        /\ \A i \in Slot : i < ch => set[i].valid_line /\ set[i].tag # tag
    <3>1. ~(\A i \in Slot : set[i].valid_line /\ set[i].tag # tag)
      BY <1>2 DEF Evicts, Stops
    <3> QED BY <3>1, ScanStops
  <2>2. ASSUME NEW i \in UsedIn(set), i # ch PROVE set[i].tag # tag
    <3>1. i \in Slot /\ set[i].valid # {}
      BY DEF UsedIn
    <3>2. i < ch \/ ch < i
      <4> HIDE DEF ch
      <4> QED BY <1>0, <2>2, <3>1, GeometryAssumption DEF Slot
    <3>3. CASE i < ch
      BY <2>1, <3>1, <3>3
    <3>4. CASE ch < i
      <4> HIDE DEF ch
      <4> QED BY <1>0, <2>1, <3>1, <3>4 DEF SetSafe
    <3> QED BY <3>2, <3>3, <3>4
  <2>3. ch \in UsedIn(set) => set[ch].tag = tag
    BY <2>1 DEF SetLRU
  <2> QED BY <1>0, <1>2, <2>2, <2>3
<1> QED BY <1>1, <1>2

(* A call keeps the lines that way.                                        *)
LEMMA AfterLRU ==
  ASSUME ~use_RRIP, NEW set, SetShape(set), SetSafe(set), SetLRU(set), YoungIn(set),
         NEW c, NEW def, Touched(c) # {}
  PROVE  LET ch == Chosen(set, TagOf(c.addr)) IN
         /\ UsedIn(SetAfter(set, c, def)) = UsedIn(set) \cup {ch}
         /\ SetLRU(SetAfter(set, c, def))
<1> DEFINE t == TagOf(c.addr)
           ch == Chosen(set, t)
           new == SetAfter(set, c, def)
<1>1. /\ ch \in Slot
      /\ \A i \in UsedIn(set) : i # ch => set[i].tag # t
  BY ChosenForTag
<1>2. ASSUME NEW j \in Slot, j # ch
      PROVE  /\ new[j].tag = set[j].tag /\ new[j].valid_line = set[j].valid_line
             /\ new[j].valid = set[j].valid /\ new[j].dirty = set[j].dirty
             /\ new[j].age = set[j].age + 1 /\ set[j].age \in Nat
  BY <1>2, AfterByAge DEF YoungIn
<1>3. new[ch].tag = t /\ new[ch].valid_line /\ new[ch].age = 0 /\ new[ch].valid # {}
  BY <1>1, AfterByAge
<1> HIDE DEF new, ch, t
<1>4. UsedIn(new) = UsedIn(set) \cup {ch}
  BY <1>1, <1>2, <1>3 DEF UsedIn
<1>5. \A i \in UsedIn(new) : i = ch \/ (i # ch /\ i \in UsedIn(set) /\ i \in Slot)
  BY <1>4 DEF UsedIn
<1>6. \A i \in UsedIn(new) : new[i].valid_line
  BY <1>2, <1>3, <1>5 DEF SetLRU
<1>7. ASSUME NEW i \in UsedIn(new), NEW j \in UsedIn(new), i # j
      PROVE  new[i].age # new[j].age /\ new[i].tag # new[j].tag
  <2>1. CASE i = ch
    BY <1>1, <1>2, <1>3, <1>5, <1>7, <2>1
  <2>2. CASE j = ch
    BY <1>1, <1>2, <1>3, <1>5, <1>7, <2>2
  <2>3. CASE i # ch /\ j # ch
    <3>1. /\ set[i].age # set[j].age /\ set[i].tag # set[j].tag
      BY <1>5, <1>7, <2>3 DEF SetLRU
    <3> QED BY <1>2, <1>5, <2>3, <3>1
  <2> QED BY <2>1, <2>2, <2>3
<1>8. ASSUME NEW i \in Slot \ UsedIn(new)
      PROVE  ~new[i].dirty /\ \A j \in UsedIn(new) : new[j].age < new[i].age
  <2>1. i # ch /\ i \in Slot \ UsedIn(set)
    BY <1>4
  <2>2. ~new[i].dirty /\ \A j \in UsedIn(set) : set[j].age < set[i].age
    BY <1>2, <2>1 DEF SetLRU
  <2> QED BY <1>2, <1>3, <1>5, <2>1, <2>2
<1>9. SetLRU(new)
  BY <1>6, <1>7, <1>8 DEF SetLRU
<1> QED BY <1>4, <1>9 DEF new, ch, t

-----------------------------------------------------------------------------
(* What a set stands for, line by line.                                    *)
LEMMA StandsFor ==
  ASSUME NEW set, SetLRU(set), \A i \in UsedIn(set) : set[i].tag \in Tag
  PROVE  /\ \A i \in UsedIn(set) : HeldIn(set)[set[i].tag] = set[i].valid
         /\ \A x \in Tag : (\A i \in UsedIn(set) : set[i].tag # x) => HeldIn(set)[x] = {}
         /\ \A i \in UsedIn(set) : set[i].tag \in WrittenIn(set) <=> set[i].dirty
         /\ \A x \in WrittenIn(set) : \E i \in UsedIn(set) : x = set[i].tag
         /\ \A i, j \in UsedIn(set) :
              <<set[i].tag, set[j].tag>> \in OlderIn(set) <=> set[i].age > set[j].age
         /\ \A p \in OlderIn(set) :
              \E i, j \in UsedIn(set) : p = <<set[i].tag, set[j].tag>>
<1>1. \A i, j \in UsedIn(set) : set[i].tag = set[j].tag => i = j
  BY DEF SetLRU
<1>2. ASSUME NEW i \in UsedIn(set) PROVE HeldIn(set)[set[i].tag] = set[i].valid
  <2>1. {j \in UsedIn(set) : set[j].tag = set[i].tag} = {i}
    BY <1>1
  <2>2. HeldIn(set)[set[i].tag] = UNION {set[l].valid : l \in {j \in UsedIn(set) : set[j].tag = set[i].tag}}
    BY DEF HeldIn
  <2>3. {set[l].valid : l \in {i}} = {set[i].valid}
    OBVIOUS
  <2>4. UNION {set[i].valid} = set[i].valid
    OBVIOUS
  <2> QED BY <2>1, <2>2, <2>3, <2>4
<1>3. ASSUME NEW x \in Tag, \A i \in UsedIn(set) : set[i].tag # x PROVE HeldIn(set)[x] = {}
  <2>1. {j \in UsedIn(set) : set[j].tag = x} = {}
    BY <1>3
  <2> QED BY <2>1 DEF HeldIn
<1>4. /\ \A i \in UsedIn(set) : set[i].tag \in WrittenIn(set) <=> set[i].dirty
      /\ \A x \in WrittenIn(set) : \E i \in UsedIn(set) : x = set[i].tag
  BY <1>1 DEF WrittenIn
<1>5. ASSUME NEW i \in UsedIn(set), NEW j \in UsedIn(set)
      PROVE  <<set[i].tag, set[j].tag>> \in OlderIn(set) <=> set[i].age > set[j].age
  <2>1. set[i].age > set[j].age => <<set[i].tag, set[j].tag>> \in OlderIn(set)
    <3> SUFFICES ASSUME set[i].age > set[j].age
                 PROVE  <<set[i].tag, set[j].tag>> \in OlderIn(set)
      OBVIOUS
    <3>1. <<i, j>> \in {r \in UsedIn(set) \X UsedIn(set) : set[r[1]].age > set[r[2]].age}
      OBVIOUS
    <3> QED BY <3>1 DEF OlderIn
  <2>2. ASSUME <<set[i].tag, set[j].tag>> \in OlderIn(set) PROVE set[i].age > set[j].age
    <3>1. PICK q \in UsedIn(set) \X UsedIn(set) :
            set[q[1]].age > set[q[2]].age /\ <<set[i].tag, set[j].tag>> = <<set[q[1]].tag, set[q[2]].tag>>
      BY <2>2 DEF OlderIn
    <3>2. q[1] = i /\ q[2] = j
      BY <1>1, <3>1
    <3> QED BY <3>1, <3>2
  <2> QED BY <2>1, <2>2
<1>6. ASSUME NEW p \in OlderIn(set) PROVE \E i, j \in UsedIn(set) : p = <<set[i].tag, set[j].tag>>
  BY DEF OlderIn
<1> QED BY <1>2, <1>3, <1>4, <1>5, <1>6

-----------------------------------------------------------------------------
(* The terms of LRUSets for one set.                                       *)
OthersIn(set, t) == {x \in Tag \ {t} : HeldIn(set)[x] # {}}

LeavesIn(set, t) ==
  {x \in OthersIn(set, t) :
     /\ Cardinality(OthersIn(set, t)) = E
     /\ \A y \in OthersIn(set, t) \ {x} : <<x, y>> \in OlderIn(set)}

LEMMA SlotsCount == IsFiniteSet(Slot) /\ Cardinality(Slot) = E
<1>1. 0 \in Int /\ E - 1 \in Int
  BY GeometryAssumption
<1>2. IsFiniteSet(0 .. E - 1) /\ Cardinality(0 .. E - 1) = IF 0 > E - 1 THEN 0 ELSE E - 1 - 0 + 1
  BY <1>1, FS_Interval
<1> QED BY <1>2, GeometryAssumption DEF Slot

(* Fewer lines than slots hold fewer blocks than there are ways.           *)
LEMMA FewerThanWays ==
  ASSUME NEW set, NEW ch \in Slot
  PROVE  /\ IsFiniteSet({set[i].tag : i \in Slot \ {ch}})
         /\ Cardinality({set[i].tag : i \in Slot \ {ch}}) < E
<1> DEFINE I == Slot \ {ch}
           f == [i \in I |-> set[i].tag]
           R == {set[i].tag : i \in I}
<1>1. IsFiniteSet(I) /\ Cardinality(I) = E - 1
  BY SlotsCount, FS_RemoveElement
<1>2. f \in Surjection(I, R)
  <2>1. f \in [I -> R] /\ \A y \in R : \E x \in I : f[x] = y
    OBVIOUS
  <2> HIDE DEF f, I, R
  <2> QED BY <2>1 DEF Surjection
<1>3. IsFiniteSet(R) /\ Cardinality(R) <= Cardinality(I)
  BY <1>1, <1>2, FS_Surjection
<1>4. Cardinality(R) \in Nat
  BY <1>3, FS_CardinalityType
<1> QED BY <1>1, <1>3, <1>4, GeometryAssumption

(* Filled by blocks of their own, the slots hold as many as the ways.      *)
LEMMA AsManyAsWays ==
  ASSUME NEW set, \A i, j \in Slot : i # j => set[i].tag # set[j].tag
  PROVE  Cardinality({set[i].tag : i \in Slot}) = E
<1> DEFINE f == [i \in Slot |-> set[i].tag]
           R == {set[i].tag : i \in Slot}
<1>1. f \in Injection(Slot, R) /\ f \in Surjection(Slot, R)
  <2>1. /\ f \in [Slot -> R] /\ \A y \in R : \E x \in Slot : f[x] = y
        /\ \A x, y \in Slot : f[x] = f[y] => x = y
    OBVIOUS
  <2> HIDE DEF f, R
  <2> QED BY <2>1 DEF Injection, Surjection, IsInjective
<1> HIDE DEF f, R
<1>2. Cardinality(R) = Cardinality(Slot)
  BY <1>1, SlotsCount, FS_Surjection
<1> QED BY <1>2, SlotsCount DEF R

(* What a call to a set leaves there: the blocks of the other lines.       *)
LEMMA WhoLeaves ==
  ASSUME NEW set, SetSafe(set), SetLRU(set), YoungIn(set),
         \A i \in Slot : set[i].tag \in Tag, NEW t \in Tag
  PROVE  LET ch == Chosen(set, t) IN
         /\ OthersIn(set, t) \ LeavesIn(set, t) = {set[i].tag : i \in UsedIn(set) \ {ch}}
         /\ LeavesIn(set, t) = IF Evicts(set, t) /\ ch \in UsedIn(set) THEN {set[ch].tag} ELSE {}
<1> DEFINE ch == Chosen(set, t)
           O == OthersIn(set, t)
           L == LeavesIn(set, t)
<1>1. /\ ch \in Slot
      /\ \A i \in UsedIn(set) : i # ch => set[i].tag # t
      /\ ~Evicts(set, t) => ch \notin UsedIn(set) \/ set[ch].tag = t
      /\ Evicts(set, t) =>
           /\ \A i \in Slot : set[i].tag # t
           /\ \A i \in Slot : set[i].age <= set[ch].age
           /\ ch \in UsedIn(set) => UsedIn(set) = Slot
  BY ChosenForTag
<1>2. UsedIn(set) \subseteq Slot /\ \A i \in UsedIn(set) : set[i].valid # {}
  BY DEF UsedIn
<1>3. O = {set[i].tag : i \in {j \in UsedIn(set) : set[j].tag # t}}
  <2>1. \A x \in O : \E i \in UsedIn(set) : x = set[i].tag /\ set[i].tag # t
    BY <1>2, StandsFor DEF OthersIn
  <2>2. \A i \in UsedIn(set) : set[i].tag # t => set[i].tag \in O
    BY <1>2, StandsFor DEF OthersIn
  <2> HIDE DEF O
  <2> QED BY <2>1, <2>2
<1> HIDE DEF ch
<1>4. CASE Evicts(set, t) /\ ch \in UsedIn(set)
  <2>1. UsedIn(set) = Slot /\ \A i \in Slot : set[i].tag # t
    BY <1>1, <1>4
  <2>2. O = {set[i].tag : i \in Slot}
    BY <1>3, <2>1
  <2>3. \A i, j \in Slot : i # j => set[i].tag # set[j].tag /\ set[i].age # set[j].age
    BY <2>1 DEF SetLRU
  <2>4. Cardinality(O) = E
    BY <2>2, <2>3, AsManyAsWays
  <2>5. \A i, j \in Slot : <<set[i].tag, set[j].tag>> \in OlderIn(set) <=> set[i].age > set[j].age
    BY <1>2, <2>1, StandsFor
  <2>6. L = {x \in O : \A y \in O \ {x} : <<x, y>> \in OlderIn(set)}
    BY <2>4 DEF LeavesIn
  <2>7. set[ch].tag \in L
    <3> SUFFICES ASSUME NEW y \in O, y # set[ch].tag PROVE <<set[ch].tag, y>> \in OlderIn(set)
      BY <1>1, <2>2, <2>6
    <3>1. PICK j \in Slot : y = set[j].tag
      BY <2>2
    <3>2. j # ch /\ set[j].age # set[ch].age /\ set[j].age <= set[ch].age
      BY <1>1, <1>4, <2>3, <3>1
    <3>3. set[ch].age > set[j].age
      BY <1>1, <3>2 DEF YoungIn
    <3> QED BY <1>1, <2>5, <3>1, <3>3
  <2>8. ASSUME NEW x \in L PROVE x = set[ch].tag
    <3>1. PICK i \in Slot : x = set[i].tag
      BY <2>2, <2>6
    <3>2. CASE i # ch
      <4>1. set[ch].tag \in O /\ set[ch].tag # x
        BY <1>1, <2>2, <2>3, <3>1, <3>2
      <4>2. <<x, set[ch].tag>> \in OlderIn(set)
        BY <2>6, <2>8, <4>1
      <4>3. set[i].age > set[ch].age
        BY <1>1, <2>5, <3>1, <4>2
      <4> QED BY <1>1, <1>4, <4>3 DEF YoungIn
    <3> QED BY <3>1, <3>2
  <2>9. L = {set[ch].tag}
    BY <2>7, <2>8
  <2>10. O \ L = {set[i].tag : i \in UsedIn(set) \ {ch}}
    BY <1>1, <2>1, <2>2, <2>3, <2>9
  <2> HIDE DEF L, O
  <2>11. O \ L = {set[i].tag : i \in UsedIn(set) \ {ch}}
         /\ L = IF Evicts(set, t) /\ ch \in UsedIn(set) THEN {set[ch].tag} ELSE {}
    BY <1>4, <2>9, <2>10
  <2> QED BY <2>11 DEF L, O, ch
<1>5. CASE ~(Evicts(set, t) /\ ch \in UsedIn(set))
  <2>1. O = {set[i].tag : i \in UsedIn(set) \ {ch}}
    <3>1. {j \in UsedIn(set) : set[j].tag # t} = UsedIn(set) \ {ch}
      BY <1>1, <1>5
    <3> QED BY <1>3, <3>1
  <2>2. O \subseteq {set[i].tag : i \in Slot \ {ch}}
    BY <1>2, <2>1
  <2>3. Cardinality(O) # E
    <3> DEFINE R == {set[i].tag : i \in Slot \ {ch}}
    <3>1. Cardinality(R) < E
      BY <1>1, FewerThanWays
    <3>2. IsFiniteSet(R)
      BY <1>1, FewerThanWays
    <3>3. Cardinality(O) <= Cardinality(R) /\ IsFiniteSet(O)
      BY <2>2, <3>2, FS_Subset
    <3>4. Cardinality(O) \in Nat /\ Cardinality(R) \in Nat
      BY <3>2, <3>3, FS_CardinalityType
    <3> QED BY <3>1, <3>3, <3>4, GeometryAssumption
  <2>4. L = {}
    BY <2>3 DEF LeavesIn
  <2> HIDE DEF L, O
  <2>5. O \ L = {set[i].tag : i \in UsedIn(set) \ {ch}}
        /\ L = IF Evicts(set, t) /\ ch \in UsedIn(set) THEN {set[ch].tag} ELSE {}
    BY <1>5, <2>1, <2>4
  <2> QED BY <2>5 DEF L, O, ch
<1> QED BY <1>4, <1>5

(* A call is a touch of its block.                                         *)
LEMMA CallTouches ==
  ASSUME ~use_RRIP, NEW set, SetShape(set), SetSafe(set), SetLRU(set), YoungIn(set),
         \A i \in Slot : set[i].tag \in Tag,
         NEW c, TagOf(c.addr) \in Tag, Touched(c) # {}, NEW def
  PROVE  LET t    == TagOf(c.addr)
             subs == Touched(c)
             new  == SetAfter(set, c, def)
             gone == LeavesIn(set, t)
             stay == OthersIn(set, t) \ gone
         IN  /\ HeldIn(new) = [x \in Tag |-> IF x = t THEN HeldIn(set)[t] \cup subs
                                             ELSE IF x \in stay THEN HeldIn(set)[x] ELSE {}]
             /\ WrittenIn(new) = (WrittenIn(set) \ gone) \cup (IF ~c.isRead THEN {t} ELSE {})
             /\ OlderIn(new) = (OlderIn(set) \cap (stay \X stay)) \cup (stay \X {t})
             /\ Delay(set, c) = HitDelay * Cardinality(subs \cap HeldIn(set)[t])
                                  + MissDelay * Cardinality(subs \ HeldIn(set)[t])
                                  + (IF gone \cap WrittenIn(set) # {} THEN WriteBackDelay ELSE 0)
<1> DEFINE t    == TagOf(c.addr)
           subs == Touched(c)
           new  == SetAfter(set, c, def)
           gone == LeavesIn(set, t)
           stay == OthersIn(set, t) \ gone
           ch   == Chosen(set, t)
           out  == Outcome(set, t)
           U    == UsedIn(set)
<1>1. /\ ch \in Slot
      /\ \A i \in U : i # ch => set[i].tag # t
      /\ ~Evicts(set, t) => ch \notin U \/ set[ch].tag = t
      /\ Evicts(set, t) => \A i \in Slot : set[i].tag # t
  BY ChosenForTag
<1>2. /\ stay = {set[i].tag : i \in U \ {ch}}
      /\ gone = IF Evicts(set, t) /\ ch \in U THEN {set[ch].tag} ELSE {}
  BY WhoLeaves
<1>3. UsedIn(new) = U \cup {ch} /\ SetLRU(new)
  BY AfterLRU
<1>4. ASSUME NEW i \in U \ {ch}
      PROVE  /\ new[i].tag = set[i].tag /\ new[i].valid = set[i].valid
             /\ new[i].dirty = set[i].dirty /\ new[i].age = set[i].age + 1
             /\ set[i].tag \in stay /\ set[i].tag # t /\ set[i].age \in Nat
             /\ i \in Slot /\ i # ch
  <2>1. i \in Slot /\ i # ch
    BY DEF UsedIn
  <2>2. set[i].tag \in stay /\ set[i].tag # t
    <3> HIDE DEF stay, ch, t
    <3> QED BY <1>1, <1>2
  <2> QED BY <2>1, <2>2, AfterByAge DEF YoungIn
<1>5. /\ new[ch].tag = t /\ new[ch].age = 0
      /\ new[ch].valid = subs \cup (IF out = "EVICT" THEN {} ELSE set[ch].valid)
      /\ new[ch].dirty = (~c.isRead \/ (out # "EVICT" /\ set[ch].dirty))
  BY <1>1, AfterByAge
<1>6. out = "EVICT" <=> Evicts(set, t)
  BY DEF Outcome
<1>7. U \subseteq Slot /\ \A i \in Slot : i \notin U => set[i].valid = {} /\ ~set[i].dirty
  BY DEF UsedIn, SetLRU
<1>8. /\ \A i \in U : HeldIn(set)[set[i].tag] = set[i].valid
      /\ \A x \in Tag : (\A i \in U : set[i].tag # x) => HeldIn(set)[x] = {}
      /\ \A i \in U : set[i].tag \in WrittenIn(set) <=> set[i].dirty
      /\ \A x \in WrittenIn(set) : \E i \in U : x = set[i].tag
      /\ \A i, j \in U : <<set[i].tag, set[j].tag>> \in OlderIn(set) <=> set[i].age > set[j].age
      /\ \A p \in OlderIn(set) : \E i, j \in U : p = <<set[i].tag, set[j].tag>>
  BY <1>7, StandsFor
<1>9. /\ \A i \in UsedIn(new) : HeldIn(new)[new[i].tag] = new[i].valid
      /\ \A x \in Tag : (\A i \in UsedIn(new) : new[i].tag # x) => HeldIn(new)[x] = {}
      /\ \A i \in UsedIn(new) : new[i].tag \in WrittenIn(new) <=> new[i].dirty
      /\ \A x \in WrittenIn(new) : \E i \in UsedIn(new) : x = new[i].tag
      /\ \A i, j \in UsedIn(new) :
           <<new[i].tag, new[j].tag>> \in OlderIn(new) <=> new[i].age > new[j].age
      /\ \A p \in OlderIn(new) : \E i, j \in UsedIn(new) : p = <<new[i].tag, new[j].tag>>
  <2>1. \A i \in UsedIn(new) : new[i].tag \in Tag
    <3> HIDE DEF new, ch, t
    <3> QED BY <1>3, <1>4, <1>5, <1>7 DEF t
  <2> QED BY <1>3, <2>1, StandsFor
<1>10. t \in Tag
  OBVIOUS
<1>11. HeldIn(new) = [x \in Tag |-> HeldIn(new)[x]]
  BY DEF HeldIn
<1>12. Delay(set, c) =
         HitDelay * Cardinality(IF out = "HIT" THEN subs \cap set[ch].valid ELSE {})
         + MissDelay * Cardinality(subs \ (IF out = "HIT" THEN subs \cap set[ch].valid ELSE {}))
         + (IF out = "EVICT" /\ set[ch].dirty THEN WriteBackDelay ELSE 0)
  BY DEF Delay
<1>13. out = "MISS" => ch \notin U
  BY DEF Outcome, SetLRU
<1>14. out \in {"HIT", "MISS", "EVICT"}
  BY DEF Outcome
<1>15. \A i, j \in U : set[i].tag = set[j].tag => i = j
  BY DEF SetLRU
<1> HIDE DEF new, stay, gone, ch, out, t, U, subs
<1>16. HeldIn(set)[t] = IF out = "EVICT" THEN {} ELSE set[ch].valid
  <2>1. CASE ch \in U /\ ~Evicts(set, t)
    BY <1>1, <1>6, <1>8, <2>1
  <2>2. CASE ch \notin U
    <3>1. HeldIn(set)[t] = {}
      BY <1>1, <1>8, <1>10, <2>2
    <3> QED BY <1>1, <1>7, <2>2, <3>1
  <2>3. CASE Evicts(set, t)
    BY <1>1, <1>6, <1>7, <1>8, <1>10, <2>3
  <2> QED BY <2>1, <2>2, <2>3
<1>17. HeldIn(new) = [x \in Tag |-> IF x = t THEN HeldIn(set)[t] \cup subs
                                    ELSE IF x \in stay THEN HeldIn(set)[x] ELSE {}]
  <2>1. HeldIn(new)[t] = HeldIn(set)[t] \cup subs
    <3>1. HeldIn(new)[t] = new[ch].valid
      BY <1>3, <1>5, <1>9
    <3> QED BY <1>5, <1>16, <3>1
  <2>2. ASSUME NEW x \in Tag, x # t, x \in stay PROVE HeldIn(new)[x] = HeldIn(set)[x]
    <3>1. PICK i \in U \ {ch} : x = set[i].tag
      BY <1>2, <2>2
    <3> QED BY <1>3, <1>4, <1>8, <1>9, <3>1
  <2>3. ASSUME NEW x \in Tag, x # t, x \notin stay PROVE HeldIn(new)[x] = {}
    <3>1. \A i \in UsedIn(new) : new[i].tag # x
      BY <1>3, <1>4, <1>5, <2>3
    <3> QED BY <1>9, <3>1
  <2>4. \A x \in Tag : HeldIn(new)[x] = IF x = t THEN HeldIn(set)[t] \cup subs
                                        ELSE IF x \in stay THEN HeldIn(set)[x] ELSE {}
    BY <2>1, <2>2, <2>3
  <2> QED BY <1>11, <2>4, Zenon
<1>18. WrittenIn(new) = (WrittenIn(set) \ gone) \cup (IF ~c.isRead THEN {t} ELSE {})
  <2>1. ASSUME NEW x \in WrittenIn(new)
        PROVE  \/ x \in WrittenIn(set) /\ x \notin gone
               \/ ~c.isRead /\ x = t
    <3>1. PICK i \in UsedIn(new) : x = new[i].tag /\ new[i].dirty
      BY <1>9
    <3>2. CASE i = ch
      <4>1. CASE ~c.isRead
        BY <1>5, <3>1, <3>2, <4>1
      <4>2. CASE c.isRead
        <5>1. ~Evicts(set, t) /\ set[ch].dirty /\ x = t
          BY <1>5, <1>6, <3>1, <3>2, <4>2
        <5>2. ch \in U /\ set[ch].tag = t
          BY <1>1, <1>7, <5>1
        <5> QED BY <1>2, <1>8, <5>1, <5>2
      <4> QED BY <4>1, <4>2
    <3>3. CASE i # ch
      <4>1. i \in U \ {ch}
        BY <1>3, <3>3
      <4>2. x \in WrittenIn(set) /\ x = set[i].tag
        BY <1>4, <1>8, <3>1, <4>1
      <4> QED BY <1>2, <1>15, <4>1, <4>2
    <3> QED BY <3>2, <3>3
  <2>2. ASSUME ~c.isRead PROVE t \in WrittenIn(new)
    BY <1>3, <1>5, <1>9, <2>2
  <2>3. ASSUME NEW x \in WrittenIn(set), x \notin gone PROVE x \in WrittenIn(new)
    <3>1. PICK i \in U : x = set[i].tag /\ set[i].dirty
      BY <1>8
    <3>2. CASE i = ch
      <4>1. ~Evicts(set, t)
        BY <1>2, <2>3, <3>1, <3>2
      <4>2. x = t /\ new[ch].dirty
        BY <1>1, <1>5, <1>6, <3>1, <3>2, <4>1
      <4> QED BY <1>3, <1>5, <1>9, <4>2
    <3>3. CASE i # ch
      BY <1>3, <1>4, <1>9, <3>1, <3>3
    <3> QED BY <3>2, <3>3
  <2> QED BY <2>1, <2>2, <2>3
<1>19. OlderIn(new) = (OlderIn(set) \cap (stay \X stay)) \cup (stay \X {t})
  <2>1. ASSUME NEW p \in OlderIn(new)
        PROVE  p \in (OlderIn(set) \cap (stay \X stay)) \cup (stay \X {t})
    <3>1. PICK i \in UsedIn(new), j \in UsedIn(new) :
            p = <<new[i].tag, new[j].tag>> /\ new[i].age > new[j].age
      BY <1>9
    <3>2. i # ch
      <4>1. CASE j = ch
        BY <1>5, <3>1, <4>1
      <4>2. CASE j # ch
        BY <1>3, <1>4, <1>5, <3>1, <4>2
      <4> QED BY <4>1, <4>2
    <3>3. i \in U \ {ch}
      BY <1>3, <3>2
    <3>4. CASE j = ch
      BY <1>4, <1>5, <3>1, <3>3, <3>4
    <3>5. CASE j # ch
      <4>1. j \in U \ {ch}
        BY <1>3, <3>5
      <4>2. p = <<set[i].tag, set[j].tag>> /\ set[i].age > set[j].age
        BY <1>4, <3>1, <3>3, <4>1
      <4>3. p \in OlderIn(set)
        BY <1>8, <3>3, <4>1, <4>2
      <4> QED BY <1>4, <3>3, <4>1, <4>2, <4>3
    <3> QED BY <3>4, <3>5
  <2>2. ASSUME NEW p \in OlderIn(set), p \in stay \X stay PROVE p \in OlderIn(new)
    <3>1. PICK i \in U, j \in U : p = <<set[i].tag, set[j].tag>>
      BY <1>8
    <3>2. i # ch /\ j # ch
      <4>1. set[i].tag \in stay /\ set[j].tag \in stay
        BY <2>2, <3>1
      <4> QED BY <1>2, <1>15, <4>1
    <3>3. set[i].age > set[j].age
      BY <1>8, <3>1
    <3>4. new[i].age > new[j].age
      BY <1>4, <3>2, <3>3
    <3>5. i \in UsedIn(new) /\ j \in UsedIn(new)
      BY <1>3
    <3>6. <<new[i].tag, new[j].tag>> \in OlderIn(new)
      BY <1>9, <3>4, <3>5
    <3> QED BY <1>4, <3>1, <3>2, <3>6
  <2>3. ASSUME NEW x \in stay PROVE <<x, t>> \in OlderIn(new)
    <3>1. PICK i \in U \ {ch} : x = set[i].tag
      BY <1>2
    <3>2. new[i].age > new[ch].age
      BY <1>4, <1>5
    <3>3. <<new[i].tag, new[ch].tag>> \in OlderIn(new)
      BY <1>3, <1>9, <3>2
    <3> QED BY <1>4, <1>5, <3>1, <3>3
  <2>4. \A p \in stay \X {t} : p \in OlderIn(new)
    BY <2>3
  <2> QED BY <2>1, <2>2, <2>4
<1>20. Delay(set, c) = HitDelay * Cardinality(subs \cap HeldIn(set)[t])
                         + MissDelay * Cardinality(subs \ HeldIn(set)[t])
                         + (IF gone \cap WrittenIn(set) # {} THEN WriteBackDelay ELSE 0)
  <2> DEFINE here == IF out = "HIT" THEN subs \cap set[ch].valid ELSE {}
  <2>1. here = subs \cap HeldIn(set)[t]
    <3>1. CASE out = "HIT"
      BY <1>16, <3>1
    <3>2. CASE out = "MISS"
      BY <1>1, <1>7, <1>13, <1>16, <3>2
    <3>3. CASE out = "EVICT"
      BY <1>16, <3>3
    <3> QED BY <1>14, <3>1, <3>2, <3>3
  <2>2. subs \ here = subs \ HeldIn(set)[t]
    <3> HIDE DEF here
    <3> QED BY <2>1
  <2>3. (out = "EVICT" /\ set[ch].dirty) <=> (gone \cap WrittenIn(set) # {})
    <3>1. CASE Evicts(set, t) /\ ch \in U
      <4>1. gone = {set[ch].tag} /\ (set[ch].tag \in WrittenIn(set) <=> set[ch].dirty)
        BY <1>2, <1>8, <3>1
      <4> QED BY <1>6, <3>1, <4>1
    <3>2. CASE ~(Evicts(set, t) /\ ch \in U)
      BY <1>1, <1>2, <1>6, <1>7, <3>2
    <3> QED BY <3>1, <3>2
  <2> HIDE DEF here
  <2> QED BY <1>12, <2>1, <2>2, <2>3 DEF here
<1> QED BY <1>17, <1>18, <1>19, <1>20 DEF new, stay, gone, t, subs

-----------------------------------------------------------------------------
(* The steps of the machine as those of LRUSets.  The hypothesis is that   *)
(* no age is about to wrap: 64 bits wrap after 2^64 calls into a set.      *)
NoAgeWraps == use_RRIP \/ \A st \in SetIdx : YoungIn(cache_sim[st])

LRUInv == ~use_RRIP => \A st \in SetIdx : SetLRU(cache_sim[st])

(* The instance brings its own copy of Cardinality.                        *)
LEMMA SameCount == ASSUME NEW S PROVE LRU!Cardinality(S) = Cardinality(S)
BY DEF LRU!Cardinality, Cardinality, LRU!IsFiniteSet, IsFiniteSet

(* A touch, with the terms for one set.                                    *)
LEMMA TouchesSet ==
  ASSUME ~use_RRIP, use_RRIP' = use_RRIP, NEW st \in SetIdx,
         NEW t \in Tag, NEW subs, NEW isStore,
         \A x \in SetIdx \ {st} : cache_sim'[x] = cache_sim[x],
         LET set  == cache_sim[st]
             new  == cache_sim'[st]
             gone == LeavesIn(set, t)
             stay == OthersIn(set, t) \ gone
         IN  /\ HeldIn(new) = [x \in Tag |-> IF x = t THEN HeldIn(set)[t] \cup subs
                                             ELSE IF x \in stay THEN HeldIn(set)[x] ELSE {}]
             /\ WrittenIn(new) = (WrittenIn(set) \ gone) \cup (IF isStore THEN {t} ELSE {})
             /\ OlderIn(new) = (OlderIn(set) \cap (stay \X stay)) \cup (stay \X {t})
             /\ result' = result
                  + HitDelay * Cardinality(subs \cap HeldIn(set)[t])
                  + MissDelay * Cardinality(subs \ HeldIn(set)[t])
                  + (IF gone \cap WrittenIn(set) # {} THEN WriteBackDelay ELSE 0)
  PROVE  LRU!Touch(st, t, subs, isStore)
<1> DEFINE set == cache_sim[st]
           new == cache_sim'[st]
           h == [x \in SetIdx |-> IF use_RRIP THEN [y \in Tag |-> {}] ELSE HeldIn(cache_sim[x])]
           w == [x \in SetIdx |-> IF use_RRIP THEN {} ELSE WrittenIn(cache_sim[x])]
           o == [x \in SetIdx |-> IF use_RRIP THEN {} ELSE OlderIn(cache_sim[x])]
<1>1. /\ h = [x \in SetIdx |-> HeldIn(cache_sim[x])]
      /\ w = [x \in SetIdx |-> WrittenIn(cache_sim[x])]
      /\ o = [x \in SetIdx |-> OlderIn(cache_sim[x])]
      /\ (IF use_RRIP THEN 0 ELSE result) = result
  OBVIOUS
<1>2. /\ h' = [x \in SetIdx |-> HeldIn(cache_sim'[x])]
      /\ w' = [x \in SetIdx |-> WrittenIn(cache_sim'[x])]
      /\ o' = [x \in SetIdx |-> OlderIn(cache_sim'[x])]
      /\ (IF use_RRIP THEN 0 ELSE result)' = result'
  BY DEF HeldIn, WrittenIn, OlderIn, UsedIn
<1>3. LRU!Others(st, t) = OthersIn(set, t)
  BY <1>1 DEF LRU!Others, OthersIn
<1>4. LRU!Leaves(st, t) = LeavesIn(set, t)
  <2>1. o[st] = OlderIn(set)
    BY <1>1
  <2> HIDE DEF o, set
  <2>2. LRU!Leaves(st, t) =
          {x \in OthersIn(set, t) : /\ Cardinality(OthersIn(set, t)) = E
                                    /\ \A y \in OthersIn(set, t) \ {x} : <<x, y>> \in o[st]}
    BY <1>3, SameCount DEF LRU!Leaves, o
  <2> QED BY <2>1, <2>2 DEF LeavesIn
<1> DEFINE gone == LeavesIn(set, t)
           stay == OthersIn(set, t) \ gone
<1>5. /\ HeldIn(new) = [x \in Tag |-> IF x = t THEN HeldIn(set)[t] \cup subs
                                      ELSE IF x \in stay THEN HeldIn(set)[x] ELSE {}]
      /\ WrittenIn(new) = (WrittenIn(set) \ gone) \cup (IF isStore THEN {t} ELSE {})
      /\ OlderIn(new) = (OlderIn(set) \cap (stay \X stay)) \cup (stay \X {t})
      /\ result' = result
           + HitDelay * Cardinality(subs \cap HeldIn(set)[t])
           + MissDelay * Cardinality(subs \ HeldIn(set)[t])
           + (IF gone \cap WrittenIn(set) # {} THEN WriteBackDelay ELSE 0)
  OBVIOUS
<1>6. /\ h[st] = HeldIn(set) /\ w[st] = WrittenIn(set) /\ o[st] = OlderIn(set)
  BY <1>1
<1>7. /\ h' = [h EXCEPT ![st] = HeldIn(new)]
      /\ w' = [w EXCEPT ![st] = WrittenIn(new)]
      /\ o' = [o EXCEPT ![st] = OlderIn(new)]
  BY <1>1, <1>2
<1> HIDE DEF set, new, stay, gone
<1>8. h' = [h EXCEPT ![st] = [x \in Tag |-> IF x = t THEN @[t] \cup subs
                                           ELSE IF x \in stay THEN @[x] ELSE {}]]
  BY <1>5, <1>6, <1>7
<1>9. w' = [w EXCEPT ![st] = (@ \ gone) \cup (IF isStore THEN {t} ELSE {})]
  BY <1>5, <1>6, <1>7
<1>10. o' = [o EXCEPT ![st] = (@ \cap (stay \X stay)) \cup (stay \X {t})]
  BY <1>5, <1>6, <1>7
<1>11. (IF use_RRIP THEN 0 ELSE result)' =
         (IF use_RRIP THEN 0 ELSE result)
         + HitDelay * LRU!Cardinality(subs \cap h[st][t])
         + MissDelay * LRU!Cardinality(subs \ h[st][t])
         + (IF gone \cap w[st] # {} THEN WriteBackDelay ELSE 0)
  BY <1>1, <1>2, <1>5, <1>6, SameCount
<1>12. /\ gone = LRU!Leaves(st, t) /\ stay = LRU!Others(st, t) \ LRU!Leaves(st, t)
  BY <1>3, <1>4 DEF gone, stay
<1> QED BY <1>8, <1>9, <1>10, <1>11, <1>12 DEF LRU!Touch

(* A call into the lines.                                                  *)
LEMMA ServeTouches ==
  ASSUME TypesFit, IInv, LRUInv, NoAgeWraps, ~use_RRIP, asking \in Asks, calls # <<>>,
         Head(calls).size > 0, NEW def \in Nat, NEW more, Serve(def, more)
  PROVE  LRU!Next /\ LRUInv'
<1> DEFINE c == Head(calls)
           st == SetOf(c.addr)
           t == TagOf(c.addr)
<1>1. calls \in Seq(CallRecord)
  BY DEF TypesFit, TypeOK, CacheTypeOK, CallRecord
<1>2. c = calls[1] /\ 1 \in DOMAIN calls /\ c \in CallRecord
  BY <1>1
<1>3. Part(c) /\ asking # NoTag
  BY <1>2, NoTagAssumption DEF TypesFit, CallsFit
<1>4. t \in Tag
  <2>1. c.addr \in Nat /\ c.size \in Int /\ asking.addr \in Nat /\ asking.size \in Int
    BY <1>2 DEF CallRecord, Asks
  <2>2. c.addr \in Bytes
    BY <1>3, <2>1 DEF Part, Bytes
  <2> QED BY <1>3, <2>2 DEF TypesFit, CallsFit
<1>5. st \in SetIdx
  BY <1>2, FieldsFit DEF CallRecord
<1>6. Touched(c) # {} /\ Touched(c) \subseteq Piece
  <2> DEFINE j == SubBlockOf(c.addr)
             P == 2 ^ b
             Q == 2 ^ u
  <2>1. P \in Nat /\ Q \in Nat /\ Piece = 0 .. Q - 1
    BY Geometry DEF Piece
  <2>2. j \in Piece
    BY <1>2, FieldsFit DEF CallRecord
  <2>3. c.size > 0
    OBVIOUS
  <2> HIDE DEF c, P, Q, j
  <2>4. j >= j /\ P * (j - j) = 0
    <3>1. j \in Int
      BY <2>1, <2>2
    <3>2. j - j = 0 /\ P * 0 = 0
      BY <2>1, <3>1
    <3> QED BY <3>1, <3>2
  <2>5. j \in Touched(c)
    <3> DEFINE d == P * (j - j)
    <3>1. d = 0
      BY <2>4
    <3> HIDE DEF d
    <3>2. c.size > d
      BY <2>3, <3>1
    <3> QED BY <2>2, <2>4, <3>2 DEF Touched, P, j, d
  <2> QED BY <2>5 DEF Touched
<1>7. /\ cache_sim' = [cache_sim EXCEPT ![st] = SetAfter(@, c, def)]
      /\ result' = result + Delay(cache_sim[st], c)
      /\ UNCHANGED <<version, use_RRIP>>
  BY DEF Serve
<1>8. /\ cache_sim \in [SetIdx -> [Slot -> Line]] /\ use_RRIP \in BOOLEAN /\ result \in Nat
  BY DEF TypesFit, TypeOK, CacheTypeOK
<1> DEFINE set == cache_sim[st]
           new == SetAfter(set, c, def)
<1>9. /\ SetShape(set) /\ SetSafe(set) /\ SetLRU(set) /\ YoungIn(set)
      /\ \A i \in Slot : set[i].tag \in Tag
  BY <1>5, <1>8 DEF IInv, LRUInv, NoAgeWraps, Line
<1> HIDE DEF c, st
<1>10. cache_sim'[st] = new /\ \A x \in SetIdx \ {st} : cache_sim'[x] = cache_sim[x]
  BY <1>5, <1>7, <1>8
<1>11. SetLRU(new)
  <2> HIDE DEF set
  <2> QED BY <1>6, <1>9, AfterLRU
<1>12. LRUInv'
  <2>1. \A x \in SetIdx : SetLRU(cache_sim'[x])
    BY <1>10, <1>11 DEF LRUInv
  <2> QED BY <2>1 DEF LRUInv, SetLRU, UsedIn
<1> DEFINE gone == LeavesIn(set, t)
           stay == OthersIn(set, t) \ gone
<1>13. /\ HeldIn(new) = [x \in Tag |-> IF x = t THEN HeldIn(set)[t] \cup Touched(c)
                                       ELSE IF x \in stay THEN HeldIn(set)[x] ELSE {}]
       /\ WrittenIn(new) = (WrittenIn(set) \ gone) \cup (IF ~c.isRead THEN {t} ELSE {})
       /\ OlderIn(new) = (OlderIn(set) \cap (stay \X stay)) \cup (stay \X {t})
       /\ Delay(set, c) = HitDelay * Cardinality(Touched(c) \cap HeldIn(set)[t])
                            + MissDelay * Cardinality(Touched(c) \ HeldIn(set)[t])
                            + (IF gone \cap WrittenIn(set) # {} THEN WriteBackDelay ELSE 0)
  <2> HIDE DEF set
  <2> QED BY <1>4, <1>6, <1>9, CallTouches
<1>14. result' = result
         + HitDelay * Cardinality(Touched(c) \cap HeldIn(set)[t])
         + MissDelay * Cardinality(Touched(c) \ HeldIn(set)[t])
         + (IF gone \cap WrittenIn(set) # {} THEN WriteBackDelay ELSE 0)
  <2> DEFINE x == Cardinality(Touched(c) \cap HeldIn(set)[t])
             y == Cardinality(Touched(c) \ HeldIn(set)[t])
             z == IF gone \cap WrittenIn(set) # {} THEN WriteBackDelay ELSE 0
  <2>1. x \in Nat /\ y \in Nat
    <3>1. IsFiniteSet(Piece)
      <4>1. 0 \in Int /\ 2 ^ u - 1 \in Int
        BY Power, GeometryAssumption
      <4> QED BY <4>1, FS_Interval, Zenon DEF Piece
    <3>2. IsFiniteSet(Touched(c) \cap HeldIn(set)[t]) /\ IsFiniteSet(Touched(c) \ HeldIn(set)[t])
      <4>1. /\ Touched(c) \cap HeldIn(set)[t] \subseteq Piece
            /\ Touched(c) \ HeldIn(set)[t] \subseteq Piece
        BY <1>6
      <4> QED BY <3>1, <4>1, FS_Subset
    <3> QED BY <3>2, FS_CardinalityType
  <2>2. z \in Nat /\ HitDelay \in Nat /\ MissDelay \in Nat
    BY DelayAssumption
  <2>3. result' = result + (HitDelay * x + MissDelay * y + z)
    BY <1>7, <1>13
  <2> HIDE DEF x, y, z
  <2>4. HitDelay * x \in Nat /\ MissDelay * y \in Nat
    BY <2>1, <2>2
  <2>5. result' = result + HitDelay * x + MissDelay * y + z
    BY <1>8, <2>2, <2>3, <2>4
  <2> QED BY <2>5 DEF x, y, z
<1>15. LRU!Touch(st, t, Touched(c), ~c.isRead)
  <2>1. cache_sim'[st] = new
    BY <1>10
  <2> HIDE DEF new, t
  <2>2. t \in Tag /\ st \in SetIdx /\ use_RRIP' = use_RRIP
    BY <1>4, <1>5, <1>7
  <2> QED BY <1>10, <1>13, <1>14, <2>1, <2>2, TouchesSet
<1>16. Touched(c) \in (SUBSET Piece) \ {{}} /\ (~c.isRead) \in BOOLEAN
  BY <1>6
<1>17. LRU!Next
  BY <1>4, <1>5, <1>15, <1>16 DEF LRU!Next
<1> QED BY <1>12, <1>17

(* What LRUSets sees of the machine.                                       *)
LRUHeld    == [st \in SetIdx |-> IF use_RRIP THEN [t \in Tag |-> {}] ELSE HeldIn(cache_sim[st])]
LRUWritten == [st \in SetIdx |-> IF use_RRIP THEN {} ELSE WrittenIn(cache_sim[st])]
LRUOlder   == [st \in SetIdx |-> IF use_RRIP THEN {} ELSE OlderIn(cache_sim[st])]
LRUResult  == IF use_RRIP THEN 0 ELSE result
LRUView    == <<LRUHeld, LRUWritten, LRUOlder, LRUResult>>

LEMMA SameLines ==
  ASSUME UNCHANGED <<cache_sim, use_RRIP>>, LRUInv
  PROVE  UNCHANGED <<LRUHeld, LRUWritten, LRUOlder>> /\ LRUInv'
BY DEF LRUHeld, LRUWritten, LRUOlder, HeldIn, WrittenIn, OlderIn, UsedIn, LRUInv, SetLRU

LEMMA InitLRU == Init => LRU!Init /\ LRUInv
<1> SUFFICES ASSUME Init PROVE LRU!Init /\ LRUInv
  OBVIOUS
<1>1. PICK filled \in SUBSET Stale :
        cache_sim = [st \in SetIdx |-> [i \in Slot |-> init_line(<<st, i>> \in filled)]]
  BY DEF Init, CacheInit
<1>2. result = 0
  BY DEF Init, CacheInit
<1>3. ASSUME NEW st \in SetIdx, NEW i \in Slot
      PROVE  cache_sim[st][i].valid = {} /\ ~cache_sim[st][i].dirty
  BY <1>1 DEF init_line
<1>4. \A st \in SetIdx : UsedIn(cache_sim[st]) = {}
  BY <1>3 DEF UsedIn
<1>5. LRUInv
  BY <1>3, <1>4 DEF LRUInv, SetLRU
<1>6. \A st \in SetIdx : /\ HeldIn(cache_sim[st]) = [t \in Tag |-> {}]
                         /\ WrittenIn(cache_sim[st]) = {}
                         /\ OlderIn(cache_sim[st]) = {}
  BY <1>4 DEF HeldIn, WrittenIn, OlderIn
<1>7. LRU!Init
  BY <1>2, <1>6 DEF LRU!Init
<1> QED BY <1>5, <1>7

LEMMA CallMaps ==
  ASSUME TypesFit, IInv, LRUInv, NoAgeWraps, ~use_RRIP, Call
  PROVE  (LRU!Next \/ UNCHANGED LRUView) /\ LRUInv'
<1> DEFINE c == Head(calls)
<1>1. calls # <<>> /\ asking \in Asks
  BY DEF TypesFit, CallsFit, Call, EmptyCall, Called,
         load_cache_impl, store_cache_impl, load_cache_final, store_cache_final
<1>2. ASSUME NEW def \in Nat, NEW more, c.size > 0, Serve(def, more)
      PROVE  (LRU!Next \/ UNCHANGED LRUView) /\ LRUInv'
  BY <1>1, <1>2, ServeTouches
<1>3. CASE EmptyCall
  <2>1. UNCHANGED <<use_RRIP, cache_sim, result>>
    BY <1>3 DEF EmptyCall
  <2>2. UNCHANGED LRUResult
    BY <2>1 DEF LRUResult
  <2> QED BY <2>1, <2>2, SameLines DEF LRUView
<1>4. CASE load_cache_impl
  <2>1. c.size > 0 /\ Serve(1, IF Ends THEN <<>> ELSE Rest(c))
    BY <1>4 DEF load_cache_impl, Called
  <2> HIDE DEF c
  <2> QED BY <1>2, <2>1
<1>5. CASE store_cache_impl
  <2>1. c.size > 0 /\ Serve(0, Rest(c))
    BY <1>5 DEF store_cache_impl, Called
  <2> HIDE DEF c
  <2> QED BY <1>2, <2>1
<1>6. CASE load_cache_final
  <2>1. c.size > 0 /\ Serve(1, Rest(c))
    BY <1>6 DEF load_cache_final, Called
  <2> HIDE DEF c
  <2> QED BY <1>2, <2>1
<1>7. CASE store_cache_final
  <2>1. c.size > 0 /\ Serve(0, Rest(c) \o (IF Ends THEN AsLoads(Rest(c)) ELSE <<>>))
    BY <1>7 DEF store_cache_final, Called
  <2> HIDE DEF c
  <2> QED BY <1>2, <2>1
<1> QED BY <1>3, <1>4, <1>5, <1>6, <1>7 DEF Call

LEMMA NextMaps ==
  ASSUME TypesFit, IInv, LRUInv, NoAgeWraps, [Next]_vars
  PROVE  (LRU!Next \/ UNCHANGED LRUView) /\ LRUInv'
<1>1. CASE UNCHANGED <<cache_sim, use_RRIP, result>>
  <2>1. UNCHANGED LRUResult
    BY <1>1 DEF LRUResult
  <2> QED BY <1>1, <2>1, SameLines DEF LRUView
<1>2. CASE CallLines /\ ~use_RRIP
  BY <1>2, CallMaps DEF CallLines
<1>3. CASE CallLines /\ use_RRIP
  <2>1. use_RRIP' = use_RRIP
    BY <1>3 DEF CallLines, Call, EmptyCall, load_cache_impl, store_cache_impl,
                load_cache_final, store_cache_final, Serve
  <2>2. /\ LRUHeld = [st \in SetIdx |-> [t \in Tag |-> {}]] /\ LRUHeld' = LRUHeld
        /\ UNCHANGED <<LRUWritten, LRUOlder, LRUResult>>
    BY <1>3, <2>1 DEF LRUHeld, LRUWritten, LRUOlder, LRUResult
  <2> QED BY <1>3, <2>1, <2>2 DEF LRUInv, LRUView
<1>4. CASE Accept
  <2>1. UNCHANGED <<cache_sim, use_RRIP>> /\ result' = 0
    BY <1>4 DEF Accept
  <2>2. UNCHANGED <<LRUHeld, LRUWritten, LRUOlder>> /\ LRUInv' /\ LRUResult' = 0
    BY <2>1, SameLines DEF LRUResult
  <2>3. LRU!Answer
    BY <2>2 DEF LRU!Answer, LRUHeld, LRUWritten, LRUOlder, LRUResult
  <2> QED BY <2>2, <2>3 DEF LRU!Next
<1>5. Next => CallLines \/ Accept \/ UNCHANGED <<cache_sim, use_RRIP, result>>
  BY DEF Next, TickCache, WaitForMemory, WaitForBranch, Run, Pass, Branch, MemoryRequest,
         linesVars
<1>6. UNCHANGED vars => UNCHANGED <<cache_sim, use_RRIP, result>>
  BY DEF vars, linesVars
<1> QED BY <1>1, <1>2, <1>3, <1>4, <1>5, <1>6

(* As long as no age wraps, the lines are sets of at most E blocks in      *)
(* order of use with LRU: the same sub-blocks are there, the same block    *)
(* leaves, and every request costs the same hits, misses and write-backs,  *)
(* whatever malloc leaves in valid_line.                                   *)
THEOREM LinesImplementLRU == Spec /\ []NoAgeWraps => ImplementsLRU
<1>1. TypesFit /\ IInv /\ LRUInv /\ NoAgeWraps /\ [Next]_vars
        => LRUInv' /\ [LRU!Next]_LRUView
  BY NextMaps
<1>2. Init => LRU!Init /\ LRUInv
  BY InitLRU
<1>3. ImplementsLRU <=> LRU!Init /\ [][LRU!Next]_LRUView
  BY DEF ImplementsLRU, LRU!Spec, LRUView, LRUHeld, LRUWritten, LRUOlder, LRUResult
<1> QED BY <1>1, <1>2, <1>3, InitInv, NextKeepsInv, InitFits, NextFits, PTL DEF Spec
=============================================================================
