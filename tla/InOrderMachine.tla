--------------------------- MODULE InOrderMachine ----------------------------
(***************************************************************************)
(* The in-order processors of processor/ with a set-associative cache and  *)
(* a branch predictor, which all processors share.  A tick lets the cache  *)
(* tick and then visits the processors in turn; one that waits for memory, *)
(* or pays for a branch, is passed over, the others run their next         *)
(* operation.  The cache has room for one operation under way: another     *)
(* request completes the first at once and adds to its countdown.          *)
(***************************************************************************)
EXTENDS SetAssociativeCache, BranchPredictor

CONSTANTS
  N,         \* processorCount
  Setups,    \* the simulations looked at: components, options and traces
  NoTag,     \* no operation is under way: memCallback is NULL
  TagLimit,  \* bound: the tags memOpTag counts wrap at TagLimit
  AgeLimit   \* bound: no request while a line has this age

ASSUME CountAssumption == N \in Nat \ {0} /\ TagLimit \in Nat \ {0} /\ AgeLimit \in Age

Proc == 0 .. N - 1

(* What a trace may hold: addresses are unsigned, the size of an access is *)
(* an int.  Tag and Target are to cover the traces of the setups.          *)
Operation == [op : {"MEM_LOAD", "MEM_STORE"}, addr : Nat, size : Int]
             \cup [op : {"BRANCH"}, pc : Nat, next : Nat]

Covered(op) ==
  IF op.op = "BRANCH"
    THEN Taken(op.pc, op.next) => op.next \in Target
    ELSE \A a \in op.addr .. op.addr + op.size - 1 : TagOf(a) \in Tag

ASSUME SetupAssumption ==
  \A su \in Setups :
    /\ su.version \in {"cache_impl", "cache_impl_final"}
    /\ su.use_RRIP \in BOOLEAN
    /\ su.ptype \in {"SMITH", "GSHARE", "PERFECT"}
    /\ su.program \in [Proc -> SUBSET Operation]
    /\ \A p \in Proc : \A op \in su.program[p] : Covered(op)

VARIABLES
  program,        \* the operations each processor's trace is made of
  turn,           \* the processor whose turn it is; N: the tick is over
  pendingMem, pendingBranch, memOpTag,
  countDown, pendingTag,   \* the cache's operation under way
  asking          \* the request memoryRequest is computing the delay of, or NoTag

procVars  == <<program, pendingMem, pendingBranch, memOpTag>>
countVars == <<countDown, pendingTag>>
vars      == <<linesVars, branchVars, procVars, turn, countVars, asking>>

Tags == [proc : Proc, base : 0 .. TagLimit - 1]
Asks == [proc : Proc, base : 0 .. TagLimit - 1, isRead : BOOLEAN, addr : Nat, size : Int]

ASSUME NoTagAssumption == NoTag \notin Tags \cup Asks

Init ==
  /\ \E su \in Setups :
       /\ program = su.program
       /\ version = su.version
       /\ use_RRIP = su.use_RRIP
       /\ ptype = su.ptype
  /\ CacheInit
  /\ init_predict
  /\ turn = N
  /\ pendingMem = [p \in Proc |-> FALSE]
  /\ pendingBranch = [p \in Proc |-> 0]
  /\ memOpTag = [p \in Proc |-> 0]
  /\ countDown = 0
  /\ pendingTag = NoTag
  /\ asking = NoTag

-----------------------------------------------------------------------------
(* memOpCallback: a tag that is not the processor's current one is only    *)
(* reported.                                                               *)
MemOpCallback(t) ==
  IF t.base = memOpTag[t.proc]
    THEN /\ memOpTag' = [memOpTag EXCEPT ![t.proc] = (@ + 1) % TagLimit]
         /\ pendingMem' = [pendingMem EXCEPT ![t.proc] = FALSE]
    ELSE UNCHANGED <<memOpTag, pendingMem>>

NoCallback == UNCHANGED <<memOpTag, pendingMem>>

(* The tick of the cache.                                                  *)
TickCache ==
  /\ turn = N
  /\ turn' = 0
  /\ countDown' = IF countDown > 0 THEN countDown - 1 ELSE 0
  /\ IF countDown = 1 THEN MemOpCallback(pendingTag) ELSE NoCallback
  /\ UNCHANGED <<linesVars, branchVars, program, pendingBranch, pendingTag, asking>>

Turn(p) == turn = p /\ asking = NoTag

WaitForMemory(p) ==
  /\ Turn(p)
  /\ pendingMem[p]
  /\ turn' = p + 1
  /\ UNCHANGED <<linesVars, branchVars, procVars, countVars, asking>>

WaitForBranch(p) ==
  /\ Turn(p)
  /\ ~pendingMem[p]
  /\ pendingBranch[p] > 0
  /\ pendingBranch' = [pendingBranch EXCEPT ![p] = @ - 1]
  /\ turn' = p + 1
  /\ UNCHANGED <<linesVars, branchVars, program, pendingMem, memOpTag, countVars, asking>>

Runs(p) == Turn(p) /\ ~pendingMem[p] /\ pendingBranch[p] = 0

(* An ALU operation, or the end of the trace.                              *)
Pass(p) ==
  /\ Runs(p)
  /\ turn' = p + 1
  /\ UNCHANGED <<linesVars, branchVars, procVars, countVars, asking>>

Branch(p, pc, next) ==
  /\ Runs(p)
  /\ pendingBranch' = [pendingBranch EXCEPT ![p] = IF Prediction(pc, next) = next THEN 0 ELSE 1]
  /\ branchRequest(pc, next)
  /\ turn' = p + 1
  /\ UNCHANGED <<linesVars, program, pendingMem, memOpTag, countVars, asking>>

(* memoryRequest: the calls into the lines ...                             *)
MemoryRequest(p, isRead, addr, size) ==
  /\ Runs(p)
  /\ \A st \in SetIdx, i \in Slot : cache_sim[st][i].age # AgeLimit
  /\ pendingMem' = [pendingMem EXCEPT ![p] = TRUE]
  /\ calls' = <<[isRead |-> isRead, addr |-> addr, size |-> size]>>
  /\ asking' = [proc |-> p, base |-> memOpTag[p],
                isRead |-> isRead, addr |-> addr, size |-> size]
  /\ UNCHANGED <<version, use_RRIP, cache_sim, result, branchVars, program, pendingBranch,
                 memOpTag, turn, countVars>>

CallLines ==
  Call /\ UNCHANGED <<branchVars, procVars, turn, countVars, asking>>

(* Mutant: the operation that was under way is forgotten.                  *)
AcceptSilently ==
  /\ asking # NoTag
  /\ calls = <<>>
  /\ NoCallback
  /\ pendingTag' = [proc |-> asking.proc, base |-> asking.base]
  /\ countDown' = countDown + result
  /\ result' = 0
  /\ asking' = NoTag
  /\ turn' = turn + 1
  /\ UNCHANGED <<version, use_RRIP, cache_sim, calls, branchVars, program, pendingBranch>>

(* ... and then the slot for the operation under way.                      *)
Accept ==
  /\ asking # NoTag
  /\ calls = <<>>
  /\ IF countDown # 0 THEN MemOpCallback(pendingTag) ELSE NoCallback
  /\ pendingTag' = [proc |-> asking.proc, base |-> asking.base]
  /\ countDown' = countDown + result
  /\ result' = 0
  /\ asking' = NoTag
  /\ turn' = turn + 1
  /\ UNCHANGED <<version, use_RRIP, cache_sim, calls, branchVars, program, pendingBranch>>

Run(p) ==
  \/ Pass(p)
  \/ \E op \in program[p] :
       \/ op.op = "BRANCH" /\ Branch(p, op.pc, op.next)
       \/ op.op = "MEM_LOAD" /\ MemoryRequest(p, TRUE, op.addr, op.size)
       \/ op.op = "MEM_STORE" /\ MemoryRequest(p, FALSE, op.addr, op.size)

Next ==
  \/ TickCache
  \/ \E p \in Proc : WaitForMemory(p) \/ WaitForBranch(p) \/ Run(p)
  \/ CallLines
  \/ Accept

Spec == Init /\ [][Next]_vars

(* The engine ticks on while a processor makes progress, and one that      *)
(* waits for memory counts as that.                                        *)
FairSpec == Spec /\ WF_vars(Next)

-----------------------------------------------------------------------------
TypeOK ==
  /\ CacheTypeOK
  /\ ptype \in {"SMITH", "GSHARE", "PERFECT"}
  /\ BTB \in [Index -> [pred_addr : Target \cup {0}, predictor : 0 .. 3]]
  /\ BHR \in 0 .. 2 ^ bBits - 1
  /\ program \in {su.program : su \in Setups}
  /\ turn \in 0 .. N
  /\ pendingMem \in [Proc -> BOOLEAN]
  /\ pendingBranch \in [Proc -> {0, 1}]
  /\ memOpTag \in [Proc -> 0 .. TagLimit - 1]
  /\ countDown \in Nat
  /\ pendingTag \in Tags \cup {NoTag}
  /\ asking # NoTag => [proc |-> asking.proc, base |-> asking.base] \in Tags

(* A sub-block is in one line at most, even when malloc leaves lines       *)
(* marked as filled: there is never a second copy to go stale.             *)
HeldOnce ==
  \A st \in SetIdx : \A i, j \in Slot :
    /\ i # j
    /\ cache_sim[st][i].tag = cache_sim[st][j].tag
    => cache_sim[st][i].valid = {} \/ cache_sim[st][j].valid = {}

(* When memoryRequest has made its calls, every byte asked for is in the   *)
(* cache, unless the request is longer than a way or a load of cache_impl, *)
(* which forgets what follows an eviction.  The right sub-blocks are valid *)
(* if the address is aligned with one: the marking forgets the offset.     *)
Bytes == asking.addr .. asking.addr + asking.size - 1

BytesAreCached ==
  (/\ asking # NoTag
   /\ calls = <<>>
   /\ asking.size <= 2 ^ (s + b + u) - 2 ^ (b + u)
   /\ version = "cache_impl_final" \/ ~asking.isRead) =>
    \A a \in Bytes : \E i \in Slot :
      LET line == cache_sim[SetOf(a)][i] IN
      /\ line.valid_line /\ line.tag = TagOf(a)
      /\ OffsetOf(asking.addr) = 0 => SubBlockOf(a) \in line.valid

(* A counter that predicts taken stands beside the target of a branch that *)
(* was taken: never the address 0 an entry starts with, and with Smith's   *)
(* table the target of a branch of this very entry.                        *)
TakenBranches == {op \in UNION {program[p] : p \in Proc} : op.op = "BRANCH" /\ Taken(op.pc, op.next)}

CounterKnowsTarget ==
  \A idx \in Index : BTB[idx].predictor > 1 =>
    \E br \in TakenBranches :
      /\ br.next = BTB[idx].pred_addr
      /\ ptype = "SMITH" => SmithIndex(br.pc) = idx

(* Every operation of a processor whose operations have a size returns,    *)
(* although a request adds to the countdown of the one before and an       *)
(* operation may be called back early by the next request.                 *)
Sized(p) == \A op \in program[p] : op.op # "BRANCH" => op.size > 0

SizedOperationsReturn == \A p \in Proc : Sized(p) /\ pendingMem[p] ~> ~pendingMem[p]

(* With LRU the lines implement sets in order of use, with the same hits   *)
(* and misses, whatever malloc leaves in valid_line.  A block is there if  *)
(* a line of its tag has a valid sub-block, and was used before another if *)
(* its line is older.                                                      *)
UsedIn(set)    == {i \in Slot : set[i].valid # {}}
HeldIn(set)    == [t \in Tag |->
                    UNION {set[i].valid : i \in {j \in UsedIn(set) : set[j].tag = t}}]
WrittenIn(set) == {set[i].tag : i \in {j \in UsedIn(set) : set[j].dirty}}
OlderIn(set)   == {<<set[q[1]].tag, set[q[2]].tag>> :
                     q \in {r \in UsedIn(set) \X UsedIn(set) : set[r[1]].age > set[r[2]].age}}

LRU == INSTANCE LRUSets WITH
         Sets    <- SetIdx, Tags <- Tag, Pieces <- Piece, Ways <- E,
         held    <- [st \in SetIdx |-> IF use_RRIP THEN [t \in Tag |-> {}] ELSE HeldIn(cache_sim[st])],
         written <- [st \in SetIdx |-> IF use_RRIP THEN {} ELSE WrittenIn(cache_sim[st])],
         older   <- [st \in SetIdx |-> IF use_RRIP THEN {} ELSE OlderIn(cache_sim[st])],
         result  <- IF use_RRIP THEN 0 ELSE result

ImplementsLRU == LRU!Spec

=============================================================================
