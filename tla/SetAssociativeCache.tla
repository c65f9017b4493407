------------------------- MODULE SetAssociativeCache -------------------------
(***************************************************************************)
(* The caches of cache_impl/ and cache_impl_final/: 2^s sets of E lines of *)
(* 2^u sub-blocks of 2^b bytes, replaced by age, with LRU or RRIP.  One    *)
(* call of load_cache or store_cache is a step; the calls it makes for     *)
(* what lies beyond the block are on a stack.  The two versions differ in  *)
(* what they still do for such a rest after an eviction.                   *)
(***************************************************************************)
EXTENDS Integers, FiniteSets, Sequences

CONSTANTS
  s, E, b, u, k,   \* options -s, -E, -b, -u and -R
  AgeBits,         \* width of an age; 64 in the code
  HitDelay, MissDelay, WriteBackDelay,   \* 1, 100 and 50 in the code
  Tag,             \* the tags of the addresses that are used
  Stale            \* the lines <<set, slot>> malloc may leave marked as filled

ASSUME GeometryAssumption == {s, b, u, k} \subseteq Nat /\ E \in Nat \ {0} /\ AgeBits \in Nat \ {0}
ASSUME ShiftAssumption == k <= AgeBits   \* rrip_update shifts an age by k
ASSUME TagAssumption == 0 \in Tag        \* init_line
ASSUME DelayAssumption == {HitDelay, MissDelay, WriteBackDelay} \subseteq Nat \ {0}

VARIABLES
  version,    \* "cache_impl" or "cache_impl_final", fixed at the start
  use_RRIP,   \* set by option -R, fixed at the start
  cache_sim,  \* cache_sim[st][i]: line i of set st
  calls,      \* the calls of load_cache and store_cache still to be made
  result      \* the delay of the calls made so far: return_stack

linesVars == <<version, use_RRIP, cache_sim, calls, result>>

SetIdx == 0 .. 2 ^ s - 1
Slot   == 0 .. E - 1
Piece  == 0 .. 2 ^ u - 1
Age    == 0 .. 2 ^ AgeBits - 1
Line   == [tag : Tag, age : Age, dirty : BOOLEAN, valid_line : BOOLEAN, valid : SUBSET Piece]

(* init_line: valid_line is not set, and is what the memory holds.         *)
init_line(filled) ==
  [tag |-> 0, age |-> 0, dirty |-> FALSE, valid_line |-> filled, valid |-> {}]

CacheInit ==
  /\ \E filled \in SUBSET Stale :
       cache_sim = [st \in SetIdx |-> [i \in Slot |-> init_line(<<st, i>> \in filled)]]
  /\ calls = <<>>
  /\ result = 0

-----------------------------------------------------------------------------
(* The fields of an address.                                               *)
TagOf(addr)       == addr \div 2 ^ (s + b + u)
SetOf(addr)       == (addr \div 2 ^ (b + u)) % 2 ^ s
SubBlockOf(addr)  == (addr \div 2 ^ b) % 2 ^ u
OffsetOf(addr)    == addr % 2 ^ b

(* The sub-blocks a call marks: as many as its size needs, from the first  *)
(* one on, whatever the offset.                                            *)
Touched(c) == {j \in Piece : j >= SubBlockOf(c.addr)
                             /\ c.size > 2 ^ b * (j - SubBlockOf(c.addr))}

(* What lies beyond the block is the subject of another call.              *)
(* Mutant of Jump: the offset is forgotten.                                *)
JumpTooFar(c) == 2 ^ b * (2 ^ u - SubBlockOf(c.addr))

Jump(c) == 2 ^ b * (2 ^ u - SubBlockOf(c.addr)) - OffsetOf(c.addr)
Rest(c) == IF c.size > Jump(c)
             THEN <<[isRead |-> c.isRead, addr |-> c.addr + Jump(c), size |-> c.size - Jump(c)]>>
             ELSE <<>>
AsLoads(q) == [i \in DOMAIN q |-> [q[i] EXCEPT !.isRead = TRUE]]

(* Mutant: a hit is forgotten.                                             *)
lru_update_fifo(age, outcome, def) ==
  IF outcome \in {"MISS", "EVICT"} THEN 0 ELSE (age + 1) % 2 ^ AgeBits

(* lru_update and rrip_update.                                             *)
lru_update(age, outcome, def) ==
  IF outcome \in {"MISS", "HIT", "EVICT"} THEN 0 ELSE (age + 1) % 2 ^ AgeBits

rrip_update(age, outcome, def) ==
  IF outcome = "MISS" THEN (2 ^ k - 2) % 2 ^ AgeBits
  ELSE IF outcome = "EVICT" THEN 2 ^ k - 1
  ELSE IF outcome = "HIT" THEN 0
  ELSE (age + def) % 2 ^ AgeBits

cache_update(age, outcome, def) ==
  IF use_RRIP THEN rrip_update(age, outcome, def) ELSE lru_update(age, outcome, def)

-----------------------------------------------------------------------------
(* The scan of a set ends at the first line that is not filled or has the  *)
(* tag; if none is, the eldest line, the first of them, is the victim.     *)
(* Mutant: the tags are not compared.                                      *)
StopsAtFree(set, tag) == {i \in Slot : ~set[i].valid_line}

Stops(set, tag) == {i \in Slot : ~set[i].valid_line \/ set[i].tag = tag}
Eldest(set)     == {i \in Slot : \A j \in Slot : set[j].age <= set[i].age}
FirstOf(I)      == CHOOSE i \in I : \A j \in I : i <= j

Evicts(set, tag) == Stops(set, tag) = {}
Chosen(set, tag) == FirstOf(IF Evicts(set, tag) THEN Eldest(set) ELSE Stops(set, tag))

Outcome(set, tag) ==
  IF Evicts(set, tag) THEN "EVICT"
  ELSE IF set[Chosen(set, tag)].valid_line THEN "HIT" ELSE "MISS"

(* Every line ages: by def after a hit or a cold miss, before an eviction  *)
(* by what the eldest lacks of the greatest age of RRIP (which wraps when  *)
(* it is beyond).                                                          *)
Aged(set, tag, def) ==
  LET i == Chosen(set, tag)
      d == IF Evicts(set, tag) THEN (2 ^ k - 1 - set[i].age) % 2 ^ AgeBits ELSE def
  IN  [j \in Slot |-> cache_update(set[j].age, "DEFAULT", d)]

(* The set after a call, and the delay of the call.                        *)
SetAfter(set, c, def) ==
  LET t    == TagOf(c.addr)
      i    == Chosen(set, t)
      out  == Outcome(set, t)
      aged == Aged(set, t, def)
  IN  [j \in Slot |->
        IF j # i THEN [set[j] EXCEPT !.age = aged[j]]
        ELSE [tag        |-> t,
              age        |-> cache_update(aged[i], out, 0),
              dirty      |-> ~c.isRead \/ (out # "EVICT" /\ set[i].dirty),
              valid_line |-> TRUE,
              valid      |-> Touched(c) \cup (IF out = "EVICT" THEN {} ELSE set[i].valid)]]

Delay(set, c) ==
  LET i    == Chosen(set, TagOf(c.addr))
      out  == Outcome(set, TagOf(c.addr))
      here == IF out = "HIT" THEN Touched(c) \cap set[i].valid ELSE {}
  IN  HitDelay * Cardinality(here) + MissDelay * Cardinality(Touched(c) \ here)
      + (IF out = "EVICT" /\ set[i].dirty THEN WriteBackDelay ELSE 0)

-----------------------------------------------------------------------------
(* The next call is made, and leaves the calls more to be made after it.   *)
Serve(def, more) ==
  LET c  == Head(calls)
      st == SetOf(c.addr)
  IN  /\ cache_sim' = [cache_sim EXCEPT ![st] = SetAfter(@, c, def)]
      /\ result' = result + Delay(cache_sim[st], c)
      /\ calls' = more \o Tail(calls)
      /\ UNCHANGED <<version, use_RRIP>>

Called(v, isRead) ==
  calls # <<>> /\ Head(calls).isRead = isRead /\ Head(calls).size > 0 /\ version = v

Ends == Evicts(cache_sim[SetOf(Head(calls).addr)], TagOf(Head(calls).addr))

(* A call for nothing.                                                     *)
EmptyCall ==
  /\ calls # <<>>
  /\ Head(calls).size <= 0
  /\ calls' = Tail(calls)
  /\ UNCHANGED <<version, use_RRIP, cache_sim, result>>

(* cache_impl: a load that evicts forgets the rest.                        *)
load_cache_impl ==
  Called("cache_impl", TRUE) /\ Serve(1, IF Ends THEN <<>> ELSE Rest(Head(calls)))

store_cache_impl ==
  Called("cache_impl", FALSE) /\ Serve(0, Rest(Head(calls)))

(* cache_impl_final: a store that evicts stores the rest and loads it.     *)
load_cache_final ==
  Called("cache_impl_final", TRUE) /\ Serve(1, Rest(Head(calls)))

store_cache_final ==
  /\ Called("cache_impl_final", FALSE)
  /\ Serve(0, Rest(Head(calls)) \o (IF Ends THEN AsLoads(Rest(Head(calls))) ELSE <<>>))

Call == EmptyCall \/ load_cache_impl \/ store_cache_impl
                  \/ load_cache_final \/ store_cache_final

-----------------------------------------------------------------------------
CacheTypeOK ==
  /\ version \in {"cache_impl", "cache_impl_final"}
  /\ use_RRIP \in BOOLEAN
  /\ cache_sim \in [SetIdx -> [Slot -> Line]]
  /\ calls \in Seq([isRead : BOOLEAN, addr : Nat, size : Int])
  /\ result \in Nat

=============================================================================
