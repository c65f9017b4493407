----------------------------- MODULE OutOfOrder -----------------------------
(***************************************************************************)
(* The out-of-order processor (processor_impl/) with one memory operation  *)
(* at a time in the cache (cache_impl/cache.c): a Tomasulo pipeline whose  *)
(* stages are functions that tick() calls one after the other, told apart  *)
(* here by stage.                                                          *)
(*                                                                         *)
(* An instruction is its tag, its place in the program.  disp_queue and    *)
(* defer_queue are filled and emptied in the order of the tags, so they    *)
(* are intervals of tags; the schedule queues are filled in that order and *)
(* busQueue is sorted, so they are sets read by increasing tags.           *)
(***************************************************************************)
EXTENDS Integers, Sequences, FiniteSets, Functions

CONSTANTS
  Reg,       \* the registers
  NoReg,     \* -1, no operand
  Op,        \* the operations the trace holds
  D, F, M, J, K, C,  \* p_params: queue factors D and M, fetch rate F, J short
                     \* and K long functional units, C result buses
  Latency,   \* the delays a memory operation may take in the cache, 0 if the
             \* trace gives it no bytes
  MaxIns     \* bound: the instructions fetched

(* getNextOp: what a line of a trace can say.  Loads write no register and *)
(* stores read none.                                                       *)
TraceOp ==
       [op : {"ALU", "ALU_LONG"}, src : {S \in SUBSET Reg : Cardinality(S) <= 2},
        dest : Reg \cup {NoReg}]
  \cup [op : {"BRANCH", "MEM_LOAD"}, src : {S \in SUBSET Reg : Cardinality(S) <= 1},
        dest : {NoReg}]
  \cup [op : {"MEM_STORE"}, src : {{}}, dest : Reg \cup {NoReg}]

(* instruction_t: an operation and whether its branch was mispredicted.    *)
Instruction == [op : {"ALU", "ALU_LONG", "BRANCH", "MEM_LOAD", "MEM_STORE"}, src : SUBSET Reg,
                dest : Reg \cup {NoReg}, mispredict : BOOLEAN]

ASSUME RegAssumption == NoReg \notin Reg
ASSUME OpAssumption == Op \subseteq TraceOp
ASSUME ParamAssumption ==
  /\ D \in Nat /\ F \in Nat \ {0} /\ M \in Nat /\ J \in Nat /\ K \in Nat /\ C \in Nat
  /\ MaxIns \in Nat
ASSUME LatencyAssumption == Latency \subseteq Nat /\ Latency # {}

VARIABLES
  stage,       \* the function tick() calls next, or "stopped"
  ins,         \* the instructions fetched so far; curr_tag is the next tag
  reserved,    \* the last tag that left disp_queue for defer_queue
  dispatched,  \* the last tag that left defer_queue for a schedule queue
  sche,        \* the tags in sche_queue_0 and sche_queue_1
  executed,    \* the tags marked executed: handed to a unit or the cache
  insReady,    \* the tags marked ins_ready
  waitsFor,    \* of a dispatched tag, the src_tag of its operands not ready
  fu0,         \* stage1 of the short units
  fu1,         \* stage1 to stage3 of the long units
  busQueue,    \* results that wait for a bus
  cdb,         \* the tags on the resBusses that are busy
  regTag,      \* registers[r].tag
  regBusy,     \* registers[r].busy
  cacheQueue,  \* memory operations, the first one in the cache if cacheBusy
  cacheBusy,
  pendingTag,  \* the cache's pendingTag
  countDown,   \* the cache's countDown
  fetchGo,     \* p_fetch_go
  unitGo,      \* fetch_unit_go
  fetched,     \* p_fetch_go when the tick began
  slots        \* fetches left in this tick

frontVars == <<ins, reserved, fetchGo, unitGo, fetched, slots>>
execVars  == <<sche, executed, insReady, waitsFor, fu0, fu1, busQueue, cdb>>
regVars   == <<regTag, regBusy>>
cacheVars == <<cacheQueue, cacheBusy, pendingTag, countDown>>
vars == <<stage, dispatched, frontVars, execVars, regVars, cacheVars>>

Stage == {"cache", "reserve", "state", "registers", "execute", "ready", "wake",
          "defer", "fetch", "stopped"}

Tags == 1 .. Len(ins)
Mem(t)  == ins[t].op \in {"MEM_LOAD", "MEM_STORE"}
Long(t) == ins[t].op = "ALU_LONG"
Short(t) == ~Long(t)

(* The first n tags of S.                                                  *)
FirstOf(n, S) == {t \in S : Cardinality({u \in S : u < t}) < n}

(* The tags whose result has been on a bus, which frees their place in the *)
(* schedule queue.                                                         *)
Done == {t \in Tags : t <= dispatched /\ t \notin sche}

Init ==
  /\ stage = "cache" /\ ins = <<>> /\ reserved = 0 /\ dispatched = 0
  /\ sche = {} /\ executed = {} /\ insReady = {} /\ waitsFor = <<>>
  /\ fu0 = {} /\ fu1 = [s \in 1 .. 3 |-> {}] /\ busQueue = {} /\ cdb = {}
  /\ regTag = [r \in Reg |-> 0] /\ regBusy = [r \in Reg |-> FALSE]
  /\ cacheQueue = <<>> /\ cacheBusy = FALSE /\ pendingTag = 0 /\ countDown = 0
  /\ fetchGo = TRUE /\ unitGo = TRUE /\ fetched = TRUE /\ slots = 0

(* memOpCallback: the operation at the head has finished if it is the one  *)
(* the cache was asked for; either way the cache is taken to be free.      *)
(* Mutant: the cache is not freed.                                         *)
MemOpCallbackBusy(tag) ==
  /\ UNCHANGED cacheBusy
  /\ IF cacheQueue # <<>> /\ Head(cacheQueue) = tag
     THEN cacheQueue' = Tail(cacheQueue) /\ busQueue' = busQueue \cup {tag}
     ELSE UNCHANGED <<cacheQueue, busQueue>>

MemOpCallback(tag) ==
  /\ cacheBusy' = IF cacheQueue = <<>> THEN cacheBusy ELSE FALSE
  /\ IF cacheQueue # <<>> /\ Head(cacheQueue) = tag
     THEN cacheQueue' = Tail(cacheQueue) /\ busQueue' = busQueue \cup {tag}
     ELSE UNCHANGED <<cacheQueue, busQueue>>

(* The start of tick(): the cache's tick() counts down and calls back.     *)
CacheTick ==
  /\ stage = "cache" /\ stage' = "reserve"
  /\ fetched' = fetchGo
  /\ countDown' = IF countDown > 0 THEN countDown - 1 ELSE countDown
  /\ IF countDown = 1 THEN MemOpCallback(pendingTag)
                      ELSE UNCHANGED <<cacheQueue, cacheBusy, busQueue>>
  /\ UNCHANGED <<ins, reserved, dispatched, fetchGo, unitGo, slots, sche, executed,
                 insReady, waitsFor, fu0, fu1, cdb, regVars, pendingTag>>

(* p_dispatch_reserve: takes instructions off disp_queue as long as the    *)
(* schedule queues have room for them, up to the first that finds none.    *)
(* Mutant: the room of the second queue is not counted.                    *)
Room0 == M * J - Cardinality({t \in sche : Short(t)})
Room1 == M * K - Cardinality({t \in sche : Long(t)})
FitsShort(n) == Cardinality({t \in reserved + 1 .. n : Short(t)}) <= Room0
Fits(n) == /\ Cardinality({t \in reserved + 1 .. n : Short(t)}) <= Room0
           /\ Cardinality({t \in reserved + 1 .. n : Long(t)}) <= Room1

DispatchReserve ==
  /\ stage = "reserve" /\ stage' = "state"
  /\ \E n \in reserved .. Len(ins) :
       /\ Fits(n)
       /\ n < Len(ins) => ~Fits(n + 1)
       /\ reserved' = n
  /\ UNCHANGED <<ins, dispatched, fetchGo, unitGo, fetched, slots, execVars, regVars, cacheVars>>

(* A branch on a bus ends the wait it caused; mutant: any branch does.     *)
ResolvesAny(t) == ins[t].op = "BRANCH"
Resolves(t) == ins[t].op = "BRANCH" /\ ins[t].mispredict

(* p_state_update: the units' results join busQueue, the long units move   *)
(* on, and the oldest results get the buses.                               *)
StateUpdate ==
  /\ stage = "state" /\ stage' = "registers"
  /\ LET results == busQueue \cup fu0 \cup fu1[3]
     IN  /\ cdb' = FirstOf(C, results)
         /\ busQueue' = results \ cdb'
  /\ fu0' = {}
  /\ fu1' = [s \in 1 .. 3 |-> IF s = 1 THEN {} ELSE fu1[s - 1]]
  /\ sche' = sche \ cdb'
  /\ unitGo' = (unitGo \/ \E t \in cdb' : Resolves(t))
  /\ UNCHANGED <<ins, reserved, dispatched, fetchGo, fetched, slots, executed, insReady,
                 waitsFor, regVars, cacheVars>>

(* Mutant: the register's tag is not compared.                             *)
RegisterUpdateAnyTag ==
  /\ stage = "registers" /\ stage' = "execute"
  /\ regBusy' = [r \in Reg |-> regBusy[r] /\ ~\E t \in cdb : ins[t].dest = r]
  /\ UNCHANGED <<dispatched, frontVars, execVars, regTag, cacheVars>>

(* p_register_update: a register is free if its last writer is on a bus.   *)
RegisterUpdate ==
  /\ stage = "registers" /\ stage' = "execute"
  /\ regBusy' = [r \in Reg |-> regBusy[r] /\ ~\E t \in cdb : ins[t].dest = r /\ regTag[r] = t]
  /\ UNCHANGED <<dispatched, frontVars, execVars, regTag, cacheVars>>

(* memoryRequest: the cache notes the tag and counts down for as long as   *)
(* the operation takes.  load_cache and store_cache return 0 for a size    *)
(* that is not positive: then nothing is counted and nobody called back.   *)
(* It would first call back for an operation under way, but p_execute asks *)
(* only when there is none: CallbackMatchesHead.                           *)
MemoryRequest(tag) ==
  /\ pendingTag' = tag
  /\ \E delay \in Latency : countDown' = countDown + delay

(* p_execute: hands ready instructions to the units, memory operations to  *)
(* cache_queue as long as a short unit is free, and the head of            *)
(* cache_queue to the cache if that is not busy.                           *)
(* Mutant: executed is not looked at.                                      *)
ReadyAgain0 == {t \in sche \cap insReady : Short(t)}
Ready0 == {t \in (sche \cap insReady) \ executed : Short(t)}
Ready1 == {t \in (sche \cap insReady) \ executed : Long(t)}
Issued0 == {t \in Ready0 : Cardinality({u \in Ready0 : u < t /\ ~Mem(u)}) < J}
Issued1 == FirstOf(K, Ready1)
MemIssued == {t \in Issued0 : Mem(t)}

Execute ==
  /\ stage = "execute" /\ stage' = "ready"
  /\ fu0' = fu0 \cup {t \in Issued0 : ~Mem(t)}
  /\ fu1' = [fu1 EXCEPT ![1] = @ \cup Issued1]
  /\ executed' = executed \cup Issued0 \cup Issued1
  /\ \E order \in [1 .. Cardinality(MemIssued) -> MemIssued] :
       /\ \A m, n \in DOMAIN order : m < n => order[m] < order[n]
       /\ cacheQueue' = cacheQueue \o order
  /\ IF ~cacheBusy /\ cacheQueue' # <<>>
     THEN cacheBusy' = TRUE /\ MemoryRequest(Head(cacheQueue'))
     ELSE UNCHANGED <<cacheBusy, pendingTag, countDown>>
  /\ UNCHANGED <<dispatched, frontVars, sche, insReady, waitsFor, busQueue, cdb, regVars>>

(* p_sq_update: an instruction whose operands are ready may execute.       *)
SqUpdate ==
  /\ stage = "ready" /\ stage' = "wake"
  /\ insReady' = {t \in sche : IF t \in executed THEN t \in insReady ELSE waitsFor[t] = {}}
  /\ UNCHANGED <<dispatched, frontVars, sche, executed, waitsFor, fu0, fu1, busQueue, cdb,
                 regVars, cacheVars>>

(* p_sche_q_update: the operands on the buses are ready.                   *)
ScheQUpdate ==
  /\ stage = "wake" /\ stage' = "defer"
  /\ waitsFor' = [t \in 1 .. dispatched |-> IF t \in sche THEN waitsFor[t] \ cdb ELSE waitsFor[t]]
  /\ UNCHANGED <<dispatched, frontVars, sche, executed, insReady, fu0, fu1, busQueue, cdb,
                 regVars, cacheVars>>

(* p_defer, one turn of its loop: the next instruction enters its schedule *)
(* queue, reads the registers and is noted as the writer of its own.       *)
(* Mutant: the busy flags are not looked at.                               *)
SourcesAlways(t) == {regTag[r] : r \in ins[t].src}
Sources(t) == {regTag[r] : r \in {s \in ins[t].src : regBusy[s]}}

DeferOne ==
  /\ stage = "defer" /\ UNCHANGED stage
  /\ dispatched < reserved
  /\ LET t == dispatched + 1 IN
       /\ dispatched' = t
       /\ sche' = sche \cup {t}
       /\ waitsFor' = Append(waitsFor, Sources(t))
       /\ regTag' = [r \in Reg |-> IF ins[t].dest = r THEN t ELSE regTag[r]]
       /\ regBusy' = [r \in Reg |-> ins[t].dest = r \/ regBusy[r]]
  /\ UNCHANGED <<frontVars, executed, insReady, fu0, fu1, busQueue, cdb, cacheVars>>

(* Its end, and the test whether disp_queue has room for F instructions.   *)
DispatchRoom == D * (M * J + M * K) - (Len(ins) - reserved)

DeferEnd ==
  /\ stage = "defer" /\ stage' = "fetch"
  /\ dispatched = reserved
  /\ slots' = IF DispatchRoom >= F THEN F ELSE 0
  /\ UNCHANGED <<dispatched, ins, reserved, fetchGo, unitGo, fetched, execVars, regVars, cacheVars>>

(* Mutant: the room is not looked at.                                      *)
FetchUncounted(o, mispredict) ==
  /\ stage = "fetch" /\ UNCHANGED stage
  /\ fetchGo
  /\ Len(ins) < MaxIns
  /\ slots' = slots - 1
  /\ ins' = Append(ins, [op |-> o.op, src |-> o.src, dest |-> o.dest, mispredict |-> mispredict])
  /\ UNCHANGED <<fetchGo, unitGo>>
  /\ UNCHANGED <<dispatched, reserved, fetched, execVars, regVars, cacheVars>>

(* One turn of the fetch loop: the next operation enters disp_queue; the   *)
(* processor waits for a branch that was not predicted.                    *)
Fetch(o, mispredict) ==
  /\ stage = "fetch" /\ UNCHANGED stage
  /\ slots > 0 /\ fetchGo
  /\ Len(ins) < MaxIns
  /\ slots' = slots - 1
  /\ ins' = Append(ins, [op |-> o.op, src |-> o.src, dest |-> o.dest, mispredict |-> mispredict])
  /\ IF o.op = "BRANCH" THEN fetchGo' = ~mispredict /\ unitGo' = ~mispredict
                        ELSE UNCHANGED <<fetchGo, unitGo>>
  /\ UNCHANGED <<dispatched, reserved, fetched, execVars, regVars, cacheVars>>

(* getNextOp has nothing for this turn.                                    *)
FetchNothing ==
  /\ stage = "fetch" /\ UNCHANGED stage
  /\ slots > 0 /\ fetchGo
  /\ slots' = slots - 1
  /\ UNCHANGED <<dispatched, ins, reserved, fetchGo, unitGo, fetched, execVars, regVars, cacheVars>>

(* stage_su is set when a result leaves its unit, that of a memory         *)
(* operation when it gets a bus.                                           *)
Updated == Done \cup {t \in busQueue : ~Mem(t)}

(* The end of tick(): vbs_dq drops what is complete; the engine stops when *)
(* nothing is left and no branch was waited for.                           *)
EndTick ==
  /\ stage = "fetch"
  /\ slots = 0 \/ ~fetchGo
  /\ stage' = IF Tags \subseteq Updated /\ fetched THEN "stopped" ELSE "cache"
  /\ fetchGo' = unitGo
  /\ slots' = 0
  /\ UNCHANGED <<dispatched, ins, reserved, unitGo, fetched, execVars, regVars, cacheVars>>

Stopped == stage = "stopped" /\ UNCHANGED vars

Next ==
  \/ CacheTick \/ DispatchReserve \/ StateUpdate \/ RegisterUpdate \/ Execute
  \/ SqUpdate \/ ScheQUpdate \/ DeferOne \/ DeferEnd
  \/ \E o \in Op, mispredict \in BOOLEAN : (mispredict => o.op = "BRANCH") /\ Fetch(o, mispredict)
  \/ FetchNothing \/ EndTick \/ Stopped

Spec == Init /\ [][Next]_vars
FairSpec == Spec /\ WF_vars(Next)

-----------------------------------------------------------------------------
FrontTypes ==
  /\ stage \in Stage
  /\ ins \in Seq(Instruction)
  /\ reserved \in 0 .. Len(ins)
  /\ dispatched \in 0 .. reserved
  /\ fetchGo \in BOOLEAN /\ unitGo \in BOOLEAN /\ fetched \in BOOLEAN
  /\ slots \in 0 .. F

ExecTypes ==
  /\ sche \subseteq 1 .. dispatched /\ executed \subseteq 1 .. dispatched
  /\ insReady \subseteq 1 .. dispatched /\ fu0 \subseteq 1 .. dispatched
  /\ busQueue \subseteq 1 .. dispatched /\ cdb \subseteq 1 .. dispatched
  /\ fu1 \in [1 .. 3 -> SUBSET (1 .. dispatched)]

ReadTypes ==
  /\ waitsFor \in [1 .. dispatched -> SUBSET (0 .. dispatched)]
  /\ regTag \in [Reg -> 0 .. dispatched]
  /\ regBusy \in [Reg -> BOOLEAN]

CacheTypes ==
  /\ cacheQueue \in Seq(1 .. dispatched) /\ cacheBusy \in BOOLEAN
  /\ pendingTag \in 0 .. dispatched /\ countDown \in Nat

(* Types of the pipeline's state.                                          *)
OutOfOrderTypeOK == FrontTypes /\ ExecTypes /\ ReadTypes /\ CacheTypes

(* The pointers into the schedule queues: an instruction that has been     *)
(* handed out and is still in its queue is in one unit or queue and only   *)
(* there, and nothing else is, so p_state_update frees what nobody points  *)
(* to any more.                                                            *)
Places == <<fu0, fu1[1], fu1[2], fu1[3], busQueue, Range(cacheQueue)>>
HandedOutOnce ==
  /\ UNION Range(Places) = executed \cap sche
  /\ \A m, n \in DOMAIN Places : m # n => Places[m] \cap Places[n] = {}
  /\ IsInjective(cacheQueue)

(* The queues keep their size: p_defer always finds the room that          *)
(* p_dispatch_reserve has counted, where the code would exit, and tick()   *)
(* always finds room for what it fetches.                                  *)
QueuesHaveRoom ==
  LET sent == sche \cup dispatched + 1 .. reserved
  IN  /\ Cardinality({t \in sent : Short(t)}) <= M * J
      /\ Cardinality({t \in sent : Long(t)}) <= M * K
      /\ Len(ins) - reserved + slots <= D * (M * J + M * K)

(* What the cache counts down for is the head of cache_queue, and the      *)
(* processor knows the cache to be busy: memoryRequest never finds an      *)
(* operation under way, which it would call back at once, and              *)
(* memOpCallback never gets another tag, whose result would be lost.       *)
CallbackMatchesHead ==
  /\ countDown > 0 => cacheBusy
  /\ cacheBusy => cacheQueue # <<>> /\ Head(cacheQueue) = pendingTag

(* When a tick begins no operand and no register waits for a result that   *)
(* has been broadcast: a broadcast passes an instruction that is about to  *)
(* enter its queue, but not unnoticed.                                     *)
NoLostWakeup ==
  stage = "cache" =>
    /\ \A t \in sche : waitsFor[t] \cap Done = {}
    /\ \A r \in Reg : regBusy[r] => regTag[r] \notin Done

(* Fetching is held exactly while a branch that was not predicted has not  *)
(* been on a bus, and the engine does not stop while it is held.           *)
MispredictHoldsFetch ==
  LET resolved == \A t \in Tags : ins[t].mispredict => t \in Done
  IN  /\ \A t \in Tags : ins[t].mispredict /\ t < Len(ins) => t \in Done
      /\ stage = "cache" => (fetchGo <=> resolved)
      /\ stage = "stopped" => resolved

(* The cache holds an operation it will never call back for, one without   *)
(* bytes: it stays busy and counts nothing down.                           *)
CacheHangs == cacheBusy /\ countDown = 0

(* Whatever is fetched gets a result, unless the cache was asked for an    *)
(* operation of size 0 or less (cache_internal.c:69-72, 188-191): then     *)
(* cache_busy is never cleared, and what needs the cache waits for good.   *)
SizedProgramsComplete ==
  \A t \in 1 .. MaxIns : (t \in Tags) ~> (t \in Updated \/ CacheHangs)

(* The pipeline as the machine that executes by dataflow.                  *)
Abstract == INSTANCE Dataflow WITH
  done <- Done

ExecutesByDataflow == Abstract!DataflowSpec
=============================================================================
