-------------------------- MODULE OutOfOrderProof ---------------------------
(***************************************************************************)
(* Theorems about OutOfOrder, for any program, any numbers of units, buses *)
(* and places in the queues, and any delays of the cache.                  *)
(***************************************************************************)
EXTENDS OutOfOrder, FiniteSetTheorems, SequenceTheorems, TLAPS

(* Sets of tags are finite.                                                *)
LEMMA TagSets ==
  ASSUME NEW n \in Int, NEW S, S \subseteq 1 .. n
  PROVE  IsFiniteSet(S) /\ Cardinality(S) \in Nat
<1>1. IsFiniteSet(1 .. n)
  BY FS_Interval
<1> QED BY <1>1, FS_Subset, FS_CardinalityType

(* What gets a bus or a unit is one of those that ask for it.              *)
LEMMA FirstOfSubset ==
  ASSUME NEW n, NEW S
  PROVE  FirstOf(n, S) \subseteq S
BY DEF FirstOf

(* The head and the rest of a queue.                                       *)
LEMMA QueueHead ==
  ASSUME NEW S, NEW q \in Seq(S), q # <<>>
  PROVE  Head(q) \in S /\ Tail(q) \in Seq(S)
BY HeadTailProperties

-----------------------------------------------------------------------------
(* Types.                                                                  *)
LEMMA TypesInit == Init => OutOfOrderTypeOK
<1> SUFFICES ASSUME Init PROVE OutOfOrderTypeOK
  OBVIOUS
<1>1. FrontTypes
  BY ParamAssumption DEF Init, FrontTypes, Stage
<1>2. ExecTypes
  <2>1. fu1 \in [1 .. 3 -> SUBSET (1 .. dispatched)]
    BY DEF Init
  <2> QED BY <2>1 DEF Init, ExecTypes
<1>4. CacheTypes
  <2>1. <<>> \in Seq(1 .. dispatched)
    BY EmptySeq
  <2>2. dispatched = 0 /\ cacheQueue = <<>> /\ cacheBusy = FALSE /\ pendingTag = 0 /\ countDown = 0
    BY DEF Init
  <2>3. cacheQueue \in Seq(1 .. dispatched)
    BY <2>1, <2>2
  <2>4. cacheBusy \in BOOLEAN
    BY <2>2
  <2> QED BY <2>2, <2>3, <2>4 DEF CacheTypes
<1>3. ReadTypes
  <2>1. <<>> \in [1 .. 0 -> SUBSET (0 .. 0)]
    OBVIOUS
  <2> QED BY <2>1 DEF Init, ReadTypes
<1> QED BY <1>1, <1>2, <1>3, <1>4 DEF OutOfOrderTypeOK

LEMMA TypesCache ==
  ASSUME OutOfOrderTypeOK, CacheTick
  PROVE  OutOfOrderTypeOK'
<1> USE DEF OutOfOrderTypeOK, CacheTick
<1>1. FrontTypes' /\ ReadTypes'
  BY DEF FrontTypes, ReadTypes, Stage, regVars
<1>2. countDown' \in Nat /\ UNCHANGED <<dispatched, pendingTag>>
  BY DEF CacheTypes
<1>3. ExecTypes' /\ CacheTypes'
  <2>1. CASE countDown = 1 /\ cacheQueue # <<>> /\ Head(cacheQueue) = pendingTag
    <3>1. Head(cacheQueue) \in 1 .. dispatched /\ Tail(cacheQueue) \in Seq(1 .. dispatched)
      BY <2>1, QueueHead DEF CacheTypes
    <3>2. cacheQueue' = Tail(cacheQueue) /\ busQueue' = busQueue \cup {Head(cacheQueue)}
          /\ cacheBusy' = FALSE
      BY <2>1 DEF MemOpCallback
    <3>3. ExecTypes'
      BY <3>1, <3>2, <1>2 DEF ExecTypes
    <3>4. CacheTypes'
      BY <3>1, <3>2, <1>2 DEF CacheTypes
    <3> QED BY <3>3, <3>4
  <2>2. CASE ~(countDown = 1 /\ cacheQueue # <<>> /\ Head(cacheQueue) = pendingTag)
    <3>1. UNCHANGED <<cacheQueue, busQueue>> /\ cacheBusy' \in BOOLEAN
      BY <2>2 DEF MemOpCallback, CacheTypes
    <3> QED BY <3>1, <1>2 DEF ExecTypes, CacheTypes
  <2> QED BY <2>1, <2>2
<1> QED BY <1>1, <1>3

LEMMA TypesReserve ==
  ASSUME OutOfOrderTypeOK, DispatchReserve
  PROVE  OutOfOrderTypeOK'
<1> USE DEF OutOfOrderTypeOK, DispatchReserve
<1>1. FrontTypes'
  BY DEF FrontTypes, Stage
<1>2. ExecTypes' /\ ReadTypes' /\ CacheTypes'
  BY DEF ExecTypes, ReadTypes, CacheTypes, execVars, regVars, cacheVars
<1> QED BY <1>1, <1>2

LEMMA TypesState ==
  ASSUME OutOfOrderTypeOK, StateUpdate
  PROVE  OutOfOrderTypeOK'
<1> USE DEF OutOfOrderTypeOK, StateUpdate
<1>1. cdb' \subseteq busQueue \cup fu0 \cup fu1[3]
  BY FirstOfSubset
<1>2. FrontTypes'
  BY DEF FrontTypes, Stage
<1>3. ExecTypes'
  <2>1. fu1' \in [1 .. 3 -> SUBSET (1 .. dispatched)]
    <3>1. \A s \in 1 .. 3 : s = 1 \/ s - 1 \in 1 .. 3
      OBVIOUS
    <3> QED BY <3>1 DEF ExecTypes
  <2>2. fu1[3] \subseteq 1 .. dispatched
    BY DEF ExecTypes
  <2> QED BY <1>1, <2>1, <2>2 DEF ExecTypes
<1>4. ReadTypes' /\ CacheTypes'
  BY DEF ReadTypes, CacheTypes, regVars, cacheVars
<1> QED BY <1>2, <1>3, <1>4

LEMMA TypesRegisters ==
  ASSUME OutOfOrderTypeOK, RegisterUpdate
  PROVE  OutOfOrderTypeOK'
<1> USE DEF OutOfOrderTypeOK, RegisterUpdate
<1>1. FrontTypes' /\ ExecTypes' /\ CacheTypes'
  BY DEF FrontTypes, Stage, ExecTypes, CacheTypes, frontVars, execVars, cacheVars
<1>2. ReadTypes'
  BY DEF ReadTypes, execVars
<1> QED BY <1>1, <1>2

(* p_execute takes ready instructions from the schedule queues.            *)
LEMMA IssuedTypes ==
  /\ Issued0 \subseteq Ready0 /\ Issued1 \subseteq Ready1 /\ MemIssued \subseteq Issued0
  /\ Ready0 \subseteq sche /\ Ready1 \subseteq sche
BY FirstOfSubset DEF Issued0, Issued1, MemIssued, Ready0, Ready1

(* A function on 1 .. n is a sequence.                                     *)
LEMMA FunctionIsSeq ==
  ASSUME NEW n \in Nat, NEW S, NEW f \in [1 .. n -> S]
  PROVE  f \in Seq(S)
BY SeqDef

(* What p_execute appends to cache_queue.                                  *)
LEMMA MemOrder ==
  ASSUME OutOfOrderTypeOK, Execute
  PROVE  \E order \in Seq(1 .. dispatched) :
           /\ cacheQueue' = cacheQueue \o order
           /\ order \in [1 .. Cardinality(MemIssued) -> MemIssued]
           /\ \A m, n \in DOMAIN order : m < n => order[m] < order[n]
<1>1. MemIssued \subseteq 1 .. dispatched /\ dispatched \in Int
  BY IssuedTypes DEF OutOfOrderTypeOK, ExecTypes, FrontTypes
<1>2. Cardinality(MemIssued) \in Nat
  BY <1>1, TagSets
<1>3. PICK order \in [1 .. Cardinality(MemIssued) -> MemIssued] :
        /\ \A m, n \in DOMAIN order : m < n => order[m] < order[n]
        /\ cacheQueue' = cacheQueue \o order
  BY DEF Execute
<1>4. order \in Seq(1 .. dispatched)
  <2>1. order \in [1 .. Cardinality(MemIssued) -> 1 .. dispatched]
    BY <1>1, <1>3
  <2> QED BY <1>2, <2>1, FunctionIsSeq
<1> QED BY <1>3, <1>4

LEMMA TypesExecute ==
  ASSUME OutOfOrderTypeOK, Execute
  PROVE  OutOfOrderTypeOK'
<1>1. FrontTypes' /\ ReadTypes'
  BY DEF OutOfOrderTypeOK, Execute, FrontTypes, Stage, ReadTypes, frontVars, regVars
<1>2. ExecTypes'
  BY IssuedTypes DEF OutOfOrderTypeOK, Execute, ExecTypes
<1>3. cacheQueue' \in Seq(1 .. dispatched)
  <2>1. PICK order \in Seq(1 .. dispatched) : cacheQueue' = cacheQueue \o order
    BY MemOrder
  <2>2. cacheQueue \in Seq(1 .. dispatched)
    BY DEF OutOfOrderTypeOK, CacheTypes
  <2> QED BY <2>1, <2>2, ConcatProperties
<1>4. dispatched' = dispatched
  BY DEF Execute
<1>5. pendingTag' \in 0 .. dispatched /\ countDown' \in Nat /\ cacheBusy' \in BOOLEAN
  <2>1. CASE ~cacheBusy /\ cacheQueue' # <<>>
    <3>1. Head(cacheQueue') \in 1 .. dispatched
      BY <1>3, <2>1, QueueHead
    <3>2. /\ pendingTag' = Head(cacheQueue') /\ cacheBusy'
          /\ \E delay \in Latency : countDown' = countDown + delay
      BY <2>1 DEF Execute, MemoryRequest
    <3>3. PICK delay \in Latency : countDown' = countDown + delay
      BY <3>2
    <3>4. delay \in Nat /\ countDown \in Nat
      BY LatencyAssumption DEF OutOfOrderTypeOK, CacheTypes
    <3>5. pendingTag' \in 0 .. dispatched
      BY <3>1, <3>2
    <3>6. cacheBusy' \in BOOLEAN
      BY <2>1 DEF Execute
    <3> QED BY <3>3, <3>4, <3>5, <3>6
  <2>2. CASE ~(~cacheBusy /\ cacheQueue' # <<>>)
    <3>1. UNCHANGED <<cacheBusy, pendingTag, countDown>>
      BY <2>2 DEF Execute
    <3> QED BY <3>1 DEF OutOfOrderTypeOK, CacheTypes
  <2> QED BY <2>1, <2>2
<1> QED BY <1>1, <1>2, <1>3, <1>4, <1>5 DEF OutOfOrderTypeOK, CacheTypes

LEMMA TypesReady ==
  ASSUME OutOfOrderTypeOK, SqUpdate
  PROVE  OutOfOrderTypeOK'
<1> USE DEF OutOfOrderTypeOK, SqUpdate
<1>1. FrontTypes' /\ ReadTypes' /\ CacheTypes'
  BY DEF FrontTypes, Stage, ReadTypes, CacheTypes, frontVars, regVars, cacheVars
<1>2. ExecTypes'
  BY DEF ExecTypes
<1> QED BY <1>1, <1>2

LEMMA TypesWake ==
  ASSUME OutOfOrderTypeOK, ScheQUpdate
  PROVE  OutOfOrderTypeOK'
<1> USE DEF OutOfOrderTypeOK, ScheQUpdate
<1>1. FrontTypes' /\ ExecTypes' /\ CacheTypes'
  BY DEF FrontTypes, Stage, ExecTypes, CacheTypes, frontVars, cacheVars
<1>2. ReadTypes'
  BY DEF ReadTypes, regVars
<1> QED BY <1>1, <1>2

(* p_defer adds one instruction to what is dispatched.                     *)
LEMMA DeferStep ==
  ASSUME OutOfOrderTypeOK, DeferOne
  PROVE  /\ dispatched \in Nat /\ dispatched' = dispatched + 1
         /\ dispatched + 1 \in 1 .. Len(ins) /\ dispatched + 1 <= reserved
         /\ ins' = ins /\ reserved' = reserved
         /\ sche' = sche \cup {dispatched + 1}
         /\ waitsFor' \in [1 .. dispatched + 1 -> SUBSET (0 .. dispatched + 1)]
         /\ \A t \in 1 .. dispatched : waitsFor'[t] = waitsFor[t]
         /\ waitsFor'[dispatched + 1] = Sources(dispatched + 1)
         /\ regTag' = [r \in Reg |-> IF ins[dispatched + 1].dest = r THEN dispatched + 1 ELSE regTag[r]]
         /\ regBusy' = [r \in Reg |-> ins[dispatched + 1].dest = r \/ regBusy[r]]
<1>1. /\ dispatched \in Nat /\ dispatched' = dispatched + 1 /\ reserved \in Nat /\ Len(ins) \in Nat
      /\ dispatched < reserved /\ reserved <= Len(ins)
      /\ ins' = ins /\ reserved' = reserved
  BY DEF OutOfOrderTypeOK, FrontTypes, DeferOne, frontVars
<1>2. ins[dispatched + 1].src \subseteq Reg
  <2>1. ins[dispatched + 1] \in Instruction
    BY <1>1 DEF OutOfOrderTypeOK, FrontTypes
  <2> QED BY <2>1 DEF Instruction
<1>3. Sources(dispatched + 1) \subseteq 0 .. dispatched
  BY <1>2 DEF OutOfOrderTypeOK, ReadTypes, Sources
<1>4. waitsFor' = Append(waitsFor, Sources(dispatched + 1))
  BY DEF DeferOne
<1>5. waitsFor \in Seq(SUBSET (0 .. dispatched)) /\ Len(waitsFor) = dispatched
  BY <1>1 DEF OutOfOrderTypeOK, ReadTypes
<1>6. /\ \A t \in 1 .. dispatched : waitsFor'[t] = waitsFor[t]
      /\ waitsFor'[dispatched + 1] = Sources(dispatched + 1)
      /\ waitsFor' \in Seq(SUBSET (0 .. dispatched)) /\ Len(waitsFor') = dispatched + 1
  BY <1>1, <1>3, <1>4, <1>5, AppendProperties
<1>7. waitsFor' \in [1 .. dispatched + 1 -> SUBSET (0 .. dispatched + 1)]
  <2>1. waitsFor' \in [1 .. dispatched + 1 -> SUBSET (0 .. dispatched)]
    BY <1>1, <1>6
  <2>2. 0 .. dispatched \subseteq 0 .. dispatched + 1
    BY <1>1
  <2> QED BY <2>1, <2>2
<1> QED BY <1>1, <1>6, <1>7 DEF DeferOne

LEMMA TypesDefer ==
  ASSUME OutOfOrderTypeOK, DeferOne
  PROVE  OutOfOrderTypeOK'
<1>1. dispatched \in Nat /\ dispatched' = dispatched + 1
  BY DeferStep
<1>2. FrontTypes'
  BY DeferStep DEF OutOfOrderTypeOK, FrontTypes, Stage, DeferOne, frontVars
<1>3. ExecTypes'
  <2>1. 1 .. dispatched \subseteq 1 .. dispatched' /\ dispatched + 1 \in 1 .. dispatched'
    BY <1>1
  <2>2. sche' = sche \cup {dispatched + 1} /\ UNCHANGED <<executed, insReady, fu0, fu1, busQueue, cdb>>
    BY DeferStep DEF DeferOne
  <2>3. fu1' \in [1 .. 3 -> SUBSET (1 .. dispatched')]
    BY <2>1, <2>2 DEF OutOfOrderTypeOK, ExecTypes
  <2> QED BY <2>1, <2>2, <2>3 DEF OutOfOrderTypeOK, ExecTypes
<1>4. ReadTypes'
  <2>1. waitsFor' \in [1 .. dispatched' -> SUBSET (0 .. dispatched')]
    BY <1>1, DeferStep
  <2>2. 0 .. dispatched \subseteq 0 .. dispatched' /\ dispatched + 1 \in 0 .. dispatched'
    BY <1>1
  <2>3. regTag' \in [Reg -> 0 .. dispatched'] /\ regBusy' \in [Reg -> BOOLEAN]
    <3>1. /\ regTag' = [r \in Reg |-> IF ins[dispatched + 1].dest = r THEN dispatched + 1 ELSE regTag[r]]
          /\ regBusy' = [r \in Reg |-> ins[dispatched + 1].dest = r \/ regBusy[r]]
      BY DeferStep
    <3>2. regTag \in [Reg -> 0 .. dispatched] /\ regBusy \in [Reg -> BOOLEAN]
      BY DEF OutOfOrderTypeOK, ReadTypes
    <3>3. regTag' \in [Reg -> 0 .. dispatched']
      BY <2>2, <3>1, <3>2
    <3>4. regBusy' \in [Reg -> BOOLEAN]
      BY <3>1, <3>2
    <3> QED BY <3>3, <3>4
  <2> QED BY <2>1, <2>3 DEF ReadTypes
<1>5. CacheTypes'
  <2>1. cacheQueue \in Seq(1 .. dispatched + 1)
    BY <1>1 DEF OutOfOrderTypeOK, CacheTypes
  <2> QED BY <1>1, <2>1 DEF OutOfOrderTypeOK, CacheTypes, DeferOne, cacheVars
<1> QED BY <1>2, <1>3, <1>4, <1>5 DEF OutOfOrderTypeOK

(* A fetched operation is an instruction.                                  *)
LEMMA FetchStep ==
  ASSUME OutOfOrderTypeOK, NEW o \in Op, NEW mispredict \in BOOLEAN, Fetch(o, mispredict)
  PROVE  /\ Len(ins) \in Nat /\ Len(ins') = Len(ins) + 1 /\ ins' \in Seq(Instruction)
         /\ \A t \in 1 .. Len(ins) : ins'[t] = ins[t]
         /\ ins'[Len(ins) + 1].mispredict = mispredict
         /\ ins'[Len(ins) + 1].op = o.op
         /\ \E i \in Instruction : ins' = Append(ins, i)
<1> DEFINE i == [op |-> o.op, src |-> o.src, dest |-> o.dest, mispredict |-> mispredict]
<1>1. i \in Instruction
  BY OpAssumption DEF TraceOp, Instruction
<1>2. ins \in Seq(Instruction) /\ ins' = Append(ins, i)
  BY DEF Fetch, OutOfOrderTypeOK, FrontTypes
<1> HIDE DEF i
<1>3. /\ Len(ins) \in Nat /\ Len(ins') = Len(ins) + 1 /\ ins' \in Seq(Instruction)
      /\ \A t \in 1 .. Len(ins) : ins'[t] = ins[t]
      /\ ins'[Len(ins) + 1] = i
  BY <1>1, <1>2, AppendProperties
<1> QED BY <1>1, <1>2, <1>3 DEF i

LEMMA TypesFront ==
  ASSUME OutOfOrderTypeOK,
         \/ DeferEnd
         \/ \E o \in Op, mispredict \in BOOLEAN : Fetch(o, mispredict)
         \/ FetchNothing
         \/ EndTick
  PROVE  OutOfOrderTypeOK'
<1>1. ExecTypes' /\ ReadTypes' /\ CacheTypes'
  BY DEF OutOfOrderTypeOK, ExecTypes, ReadTypes, CacheTypes, execVars, regVars, cacheVars,
         DeferEnd, Fetch, FetchNothing, EndTick
<1>2. FrontTypes'
  <2>1. CASE DeferEnd
    BY <2>1, ParamAssumption DEF OutOfOrderTypeOK, FrontTypes, Stage, DeferEnd
  <2>2. ASSUME NEW o \in Op, NEW mispredict \in BOOLEAN, Fetch(o, mispredict)
        PROVE  FrontTypes'
    <3>1. Len(ins) \in Nat /\ Len(ins') = Len(ins) + 1 /\ ins' \in Seq(Instruction)
      BY <2>2, FetchStep
    <3>2. /\ UNCHANGED <<stage, reserved, dispatched, fetched>>
          /\ slots > 0 /\ slots' = slots - 1
          /\ fetchGo' \in BOOLEAN /\ unitGo' \in BOOLEAN
      BY <2>2 DEF Fetch, OutOfOrderTypeOK, FrontTypes
    <3>3. slots' \in 0 .. F
      BY <3>2, ParamAssumption DEF OutOfOrderTypeOK, FrontTypes
    <3>4. reserved' \in 0 .. Len(ins')
      BY <3>1, <3>2 DEF OutOfOrderTypeOK, FrontTypes
    <3> QED BY <3>1, <3>2, <3>3, <3>4 DEF OutOfOrderTypeOK, FrontTypes, Stage
  <2>3. CASE FetchNothing
    BY <2>3, ParamAssumption DEF OutOfOrderTypeOK, FrontTypes, Stage, FetchNothing
  <2>4. CASE EndTick
    BY <2>4, ParamAssumption DEF OutOfOrderTypeOK, FrontTypes, Stage, EndTick
  <2> QED BY <2>1, <2>2, <2>3, <2>4
<1> QED BY <1>1, <1>2 DEF OutOfOrderTypeOK

LEMMA TypesNext == OutOfOrderTypeOK /\ [Next]_vars => OutOfOrderTypeOK'
<1> SUFFICES ASSUME OutOfOrderTypeOK, [Next]_vars PROVE OutOfOrderTypeOK'
  OBVIOUS
<1>1. CASE UNCHANGED vars
  BY <1>1 DEF vars, frontVars, execVars, regVars, cacheVars, OutOfOrderTypeOK, FrontTypes,
              ExecTypes, ReadTypes, CacheTypes, Stage
<1> QED BY <1>1, TypesCache, TypesReserve, TypesState, TypesRegisters, TypesExecute, TypesReady,
           TypesWake, TypesDefer, TypesFront DEF Next, Stopped

(* Types, for any program and any configuration.                           *)
THEOREM OutOfOrderTypes == Spec => []OutOfOrderTypeOK
BY TypesInit, TypesNext, PTL DEF Spec

-----------------------------------------------------------------------------
(* The cache and the head of cache_queue.                                  *)
LEMMA CallbackCacheTick ==
  ASSUME OutOfOrderTypeOK, CallbackMatchesHead, CacheTick
  PROVE  CallbackMatchesHead'
<1>1. countDown \in Nat /\ UNCHANGED pendingTag
  BY DEF OutOfOrderTypeOK, CacheTypes, CacheTick
<1>2. CASE countDown = 1
  <2>1. cacheBusy /\ cacheQueue # <<>> /\ Head(cacheQueue) = pendingTag
    BY <1>2 DEF CallbackMatchesHead
  <2>2. cacheBusy' = FALSE /\ countDown' = 0
    BY <1>2, <2>1 DEF CacheTick, MemOpCallback
  <2> QED BY <2>2 DEF CallbackMatchesHead
<1>3. CASE countDown # 1
  <2>1. UNCHANGED <<cacheQueue, cacheBusy>> /\ (countDown' > 0 => countDown > 0)
    BY <1>1, <1>3 DEF CacheTick
  <2> QED BY <1>1, <2>1 DEF CallbackMatchesHead
<1> QED BY <1>2, <1>3

LEMMA CallbackExecute ==
  ASSUME OutOfOrderTypeOK, CallbackMatchesHead, Execute
  PROVE  CallbackMatchesHead'
<1>1. PICK order \in Seq(1 .. dispatched) : cacheQueue' = cacheQueue \o order
  BY MemOrder
<1>2. cacheQueue \in Seq(1 .. dispatched) /\ countDown \in Nat
  BY DEF OutOfOrderTypeOK, CacheTypes
<1>3. CASE cacheBusy
  <2>1. cacheQueue # <<>> /\ Head(cacheQueue) = pendingTag
    BY <1>3 DEF CallbackMatchesHead
  <2>2. cacheQueue' # <<>> /\ Head(cacheQueue') = Head(cacheQueue)
    <3>1. Len(cacheQueue) \in Nat /\ Len(cacheQueue) > 0 /\ Len(order) \in Nat
      BY <1>1, <1>2, <2>1, EmptySeq, LenProperties
    <3>2. Len(cacheQueue') = Len(cacheQueue) + Len(order) /\ cacheQueue'[1] = cacheQueue[1]
      BY <1>1, <1>2, <3>1, ConcatProperties
    <3>3. cacheQueue' \in Seq(1 .. dispatched)
      BY <1>1, <1>2, ConcatProperties
    <3> QED BY <1>2, <2>1, <3>1, <3>2, <3>3, EmptySeq, HeadTailProperties
  <2>3. UNCHANGED <<cacheBusy, pendingTag, countDown>>
    BY <1>3 DEF Execute
  <2> QED BY <2>1, <2>2, <2>3 DEF CallbackMatchesHead
<1>4. CASE ~cacheBusy /\ cacheQueue' # <<>>
  <2>1. cacheBusy' /\ pendingTag' = Head(cacheQueue')
    BY <1>4 DEF Execute, MemoryRequest
  <2> QED BY <1>4, <2>1 DEF CallbackMatchesHead
<1>5. CASE ~cacheBusy /\ cacheQueue' = <<>>
  <2>1. UNCHANGED <<cacheBusy, pendingTag, countDown>>
    BY <1>5 DEF Execute
  <2> QED BY <1>5, <2>1 DEF CallbackMatchesHead
<1> QED BY <1>3, <1>4, <1>5

(* memoryRequest never finds an operation under way and memOpCallback only *)
(* ever gets the tag at the head of cache_queue, for any delays, 0 among   *)
(* them.                                                                   *)
THEOREM CallbackMatches == Spec => []CallbackMatchesHead
<1>1. Init => CallbackMatchesHead
  BY DEF Init, CallbackMatchesHead
<1>2. OutOfOrderTypeOK /\ CallbackMatchesHead /\ [Next]_vars => CallbackMatchesHead'
  <2> SUFFICES ASSUME OutOfOrderTypeOK, CallbackMatchesHead, [Next]_vars
               PROVE  CallbackMatchesHead'
    OBVIOUS
  <2>1. CASE UNCHANGED cacheVars
    BY <2>1 DEF cacheVars, CallbackMatchesHead
  <2>2. [Next]_vars => CacheTick \/ Execute \/ UNCHANGED cacheVars
    BY DEF Next, vars, DispatchReserve, StateUpdate, RegisterUpdate, SqUpdate, ScheQUpdate,
           DeferOne, DeferEnd, Fetch, FetchNothing, EndTick, Stopped
  <2> QED BY <2>1, <2>2, CallbackCacheTick, CallbackExecute
<1> QED BY <1>1, <1>2, OutOfOrderTypes, PTL DEF Spec

-----------------------------------------------------------------------------
(* Instructions execute by dataflow.                                       *)
LEMMA DoneIs ==
  ASSUME OutOfOrderTypeOK
  PROVE  Done = (1 .. dispatched) \ sche
BY DEF OutOfOrderTypeOK, FrontTypes, Done, Tags

(* What has been dispatched stays as it was fetched.                       *)
LEMMA InsStable ==
  ASSUME OutOfOrderTypeOK, [Next]_vars
  PROVE  /\ dispatched \in Nat /\ dispatched <= Len(ins) /\ Len(ins) \in Nat
         /\ Len(ins) <= Len(ins')
         /\ \A t \in 1 .. Len(ins) : ins'[t] = ins[t]
<1>1. dispatched \in Nat /\ dispatched <= Len(ins) /\ Len(ins) \in Nat
  BY DEF OutOfOrderTypeOK, FrontTypes
<1>2. ASSUME NEW o \in Op, NEW mispredict \in BOOLEAN, Fetch(o, mispredict)
      PROVE  Len(ins) <= Len(ins') /\ \A t \in 1 .. Len(ins) : ins'[t] = ins[t]
  BY <1>2, FetchStep
<1>3. CASE UNCHANGED ins
  BY <1>1, <1>3
<1>4. \/ UNCHANGED ins
      \/ \E o \in Op, mispredict \in BOOLEAN : Fetch(o, mispredict)
  BY DEF Next, vars, frontVars, CacheTick, DispatchReserve, StateUpdate, RegisterUpdate, Execute,
         SqUpdate, ScheQUpdate, DeferOne, DeferEnd, FetchNothing, EndTick, Stopped
<1> QED BY <1>1, <1>2, <1>3, <1>4

(* What is dispatched has been fetched.                                    *)
LEMMA DispatchedFetched ==
  ASSUME OutOfOrderTypeOK, NEW t \in 1 .. dispatched
  PROVE  t \in 1 .. Len(ins)
<1>1. dispatched \in Nat /\ Len(ins) \in Nat /\ dispatched <= Len(ins)
  BY DEF OutOfOrderTypeOK, FrontTypes
<1> QED BY <1>1

(* Nor do the producers of an instruction change.                          *)
LEMMA ProducersStable ==
  ASSUME OutOfOrderTypeOK, [Next]_vars, NEW t \in 1 .. Len(ins)
  PROVE  Abstract!Producers(t)' = Abstract!Producers(t)
<1>1. Len(ins) \in Nat /\ \A u \in 1 .. Len(ins) : ins'[u] = ins[u]
  BY InsStable
<1>2. \A u \in 1 .. t - 1 : u \in 1 .. Len(ins) /\ u + 1 .. t - 1 \subseteq 1 .. Len(ins)
  BY <1>1
<1> QED BY <1>1, <1>2 DEF Abstract!Producers

(* Who is in a unit, in a queue or on a bus has been handed out.           *)
HandedOut ==
  /\ Done \subseteq executed /\ cdb \subseteq Done
  /\ fu0 \subseteq executed /\ busQueue \subseteq executed
  /\ \A s \in 1 .. 3 : fu1[s] \subseteq executed
  /\ cacheQueue \in Seq(executed)

(* Who has not been handed out waits for all its producers.                *)
WaitsForProducers ==
  \A t \in sche \ executed : Abstract!Producers(t) \subseteq waitsFor[t] \cup Done

ReadyHasProducers ==
  \A t \in insReady \ executed : Abstract!Producers(t) \subseteq Done

(* The last writer of a register is noted there and marks it busy until    *)
(* its result is there.                                                    *)
LastWriter(r, u) == ins[u].dest = r /\ \A v \in u + 1 .. dispatched : ins[v].dest # r
LastWriterNoted ==
  \A r \in Reg, u \in 1 .. dispatched :
    LastWriter(r, u) => regTag[r] = u /\ (u \in Done \/ regBusy[r])

DataflowInv == HandedOut /\ WaitsForProducers /\ ReadyHasProducers /\ LastWriterNoted

(* The actions that dispatch nothing.                                      *)
LEMMA LastWriterStable ==
  ASSUME OutOfOrderTypeOK, [Next]_vars, UNCHANGED dispatched,
         NEW r \in Reg, NEW u \in 1 .. dispatched
  PROVE  LastWriter(r, u)' <=> LastWriter(r, u)
<1>1. /\ dispatched \in Nat /\ dispatched <= Len(ins) /\ Len(ins) \in Nat
      /\ \A t \in 1 .. Len(ins) : ins'[t] = ins[t]
  BY InsStable
<1>2. u \in 1 .. Len(ins) /\ u + 1 .. dispatched \subseteq 1 .. Len(ins)
  BY <1>1
<1> QED BY <1>1, <1>2 DEF LastWriter

handedVars == <<dispatched, sche, executed, fu0, fu1, busQueue, cdb, cacheQueue>>

(* The functions that hand out, move or finish instructions.               *)
LEMMA HandedSteps ==
  [Next]_vars => CacheTick \/ StateUpdate \/ Execute \/ DeferOne \/ UNCHANGED handedVars
BY DEF Next, vars, frontVars, execVars, cacheVars, handedVars, DispatchReserve, RegisterUpdate,
       SqUpdate, ScheQUpdate, DeferEnd, Fetch, FetchNothing, EndTick, Stopped

(* Results appear only when the schedule queues change.                    *)
LEMMA DoneUnchanged ==
  ASSUME OutOfOrderTypeOK, OutOfOrderTypeOK', UNCHANGED <<dispatched, sche>>
  PROVE  Done' = Done
<1>1. Done = (1 .. dispatched) \ sche
  BY DoneIs
<1>2. Done' = (1 .. dispatched') \ sche'
  BY DEF OutOfOrderTypeOK, FrontTypes, Done, Tags
<1> QED BY <1>1, <1>2

(* A result on a bus is done.                                              *)
LEMMA DoneStateUpdate ==
  ASSUME OutOfOrderTypeOK, OutOfOrderTypeOK', StateUpdate
  PROVE  /\ cdb' \subseteq busQueue \cup fu0 \cup fu1[3] /\ cdb' \subseteq 1 .. dispatched
         /\ Done' = Done \cup cdb'
<1>1. Done = (1 .. dispatched) \ sche
  BY DoneIs
<1>2. Done' = (1 .. dispatched') \ sche'
  BY DEF OutOfOrderTypeOK, FrontTypes, Done, Tags
<1>3. cdb' \subseteq busQueue \cup fu0 \cup fu1[3]
  BY FirstOfSubset DEF StateUpdate
<1>4. dispatched' = dispatched /\ sche' = sche \ cdb'
  BY DEF StateUpdate
<1>5. cdb' \subseteq 1 .. dispatched
  BY <1>4 DEF OutOfOrderTypeOK, ExecTypes
<1> QED BY <1>1, <1>2, <1>3, <1>4, <1>5

(* An instruction that has just been dispatched has no result.             *)
LEMMA DoneDeferOne ==
  ASSUME OutOfOrderTypeOK, OutOfOrderTypeOK', DeferOne
  PROVE  Done' = Done
<1>1. Done = (1 .. dispatched) \ sche
  BY DoneIs
<1>2. Done' = (1 .. dispatched') \ sche'
  BY DEF OutOfOrderTypeOK, FrontTypes, Done, Tags
<1>3. sche' = sche \cup {dispatched + 1} /\ dispatched' = dispatched + 1 /\ dispatched \in Nat
  BY DeferStep
<1> QED BY <1>1, <1>2, <1>3

(* Instructions get into units, queues and buses by being handed out.      *)
LEMMA HandedOutNext ==
  ASSUME OutOfOrderTypeOK, OutOfOrderTypeOK', HandedOut, [Next]_vars
  PROVE  HandedOut'
<1>1. CASE CacheTick
  <2>1. UNCHANGED <<dispatched, sche, executed, fu0, fu1, cdb>>
    BY <1>1 DEF CacheTick
  <2>2. Done' = Done
    BY <2>1, DoneUnchanged
  <2>3. busQueue' \subseteq executed /\ cacheQueue' \in Seq(executed)
    <3>1. CASE UNCHANGED <<cacheQueue, busQueue>>
      BY <3>1 DEF HandedOut
    <3>2. CASE /\ cacheQueue # <<>> /\ cacheQueue' = Tail(cacheQueue)
               /\ busQueue' = busQueue \cup {Head(cacheQueue)}
      <4>1. Head(cacheQueue) \in executed /\ Tail(cacheQueue) \in Seq(executed)
        BY <3>2, QueueHead DEF HandedOut
      <4> QED BY <3>2, <4>1 DEF HandedOut
    <3> QED BY <1>1, <3>1, <3>2 DEF CacheTick, MemOpCallback
  <2> QED BY <2>1, <2>2, <2>3 DEF HandedOut
<1>2. CASE StateUpdate
  <2>1. Done' = Done \cup cdb' /\ cdb' \subseteq busQueue \cup fu0 \cup fu1[3]
    BY <1>2, DoneStateUpdate
  <2>2. cdb' \subseteq executed
    BY <2>1 DEF HandedOut
  <2>3. /\ UNCHANGED <<executed, cacheQueue>> /\ fu0' = {}
        /\ busQueue' \subseteq busQueue \cup fu0 \cup fu1[3]
    BY <1>2 DEF StateUpdate, cacheVars
  <2>4. fu1' = [s \in 1 .. 3 |-> IF s = 1 THEN {} ELSE fu1[s - 1]]
    BY <1>2 DEF StateUpdate
  <2>5. \A s \in 1 .. 3 : fu1'[s] \subseteq executed
    <3>1. \A s \in 1 .. 3 : s = 1 \/ s - 1 \in 1 .. 3
      OBVIOUS
    <3> QED BY <2>4, <3>1 DEF HandedOut
  <2> QED BY <2>1, <2>2, <2>3, <2>5 DEF HandedOut
<1>3. CASE Execute
  <2>1. /\ UNCHANGED <<dispatched, sche, busQueue, cdb>>
        /\ executed' = executed \cup Issued0 \cup Issued1
        /\ fu0' = fu0 \cup {t \in Issued0 : ~Mem(t)}
        /\ fu1' = [fu1 EXCEPT ![1] = @ \cup Issued1]
    BY <1>3 DEF Execute
  <2>2. Done' = Done
    BY <2>1, DoneUnchanged
  <2>3. \A s \in 1 .. 3 : fu1'[s] \subseteq executed'
    BY <2>1 DEF HandedOut, OutOfOrderTypeOK, ExecTypes
  <2>4. cacheQueue' \in Seq(executed')
    <3>1. PICK order : /\ cacheQueue' = cacheQueue \o order
                       /\ order \in [1 .. Cardinality(MemIssued) -> MemIssued]
      BY <1>3, MemOrder
    <3>2. Cardinality(MemIssued) \in Nat /\ MemIssued \subseteq executed'
      <4>1. MemIssued \subseteq 1 .. dispatched /\ dispatched \in Int
        BY IssuedTypes DEF OutOfOrderTypeOK, ExecTypes, FrontTypes
      <4> QED BY <4>1, <2>1, TagSets, IssuedTypes
    <3>3. order \in [1 .. Cardinality(MemIssued) -> executed']
      BY <3>1, <3>2
    <3>4. order \in Seq(executed')
      BY <3>2, <3>3, FunctionIsSeq
    <3>5. cacheQueue \in Seq(executed')
      BY <2>1 DEF HandedOut
    <3> QED BY <3>1, <3>4, <3>5, ConcatProperties
  <2> QED BY <2>1, <2>2, <2>3, <2>4 DEF HandedOut
<1>4. CASE DeferOne
  <2>1. UNCHANGED <<executed, fu0, fu1, busQueue, cdb, cacheQueue>>
    BY <1>4 DEF DeferOne, cacheVars
  <2>2. Done' = Done
    BY <1>4, DoneDeferOne
  <2> QED BY <2>1, <2>2 DEF HandedOut
<1>5. CASE UNCHANGED handedVars
  <2>1. Done' = Done
    BY <1>5, DoneUnchanged DEF handedVars
  <2> QED BY <1>5, <2>1 DEF HandedOut, handedVars
<1> QED BY <1>1, <1>2, <1>3, <1>4, <1>5, HandedSteps

(* Results stay.                                                           *)
LEMMA DoneGrows ==
  ASSUME OutOfOrderTypeOK, OutOfOrderTypeOK', [Next]_vars
  PROVE  Done \subseteq Done'
<1>1. CASE StateUpdate
  BY <1>1, DoneStateUpdate
<1>2. CASE DeferOne
  BY <1>2, DoneDeferOne
<1>3. CASE CacheTick \/ Execute \/ UNCHANGED handedVars
  <2>1. UNCHANGED <<dispatched, sche>>
    BY <1>3 DEF handedVars, CacheTick, Execute
  <2> QED BY <2>1, DoneUnchanged
<1> QED BY <1>1, <1>2, <1>3, HandedSteps

(* p_execute and p_state_update take from the instructions that wait.      *)
LEMMA WaitSteps ==
  [Next]_vars => \/ ScheQUpdate \/ DeferOne
                 \/ /\ UNCHANGED <<dispatched, waitsFor>>
                    /\ sche' \subseteq sche /\ executed \subseteq executed'
BY DEF Next, vars, frontVars, execVars, cacheVars, CacheTick, DispatchReserve, StateUpdate,
       RegisterUpdate, Execute, SqUpdate, DeferEnd, Fetch, FetchNothing, EndTick, Stopped

(* The registers name the producers of the instruction that reads them.    *)
LEMMA SourcesAreProducers ==
  ASSUME OutOfOrderTypeOK, LastWriterNoted, DeferOne
  PROVE  Abstract!Producers(dispatched + 1) \subseteq Sources(dispatched + 1) \cup Done
<1> DEFINE t == dispatched + 1
<1>1. dispatched \in Nat /\ t \in 1 .. Len(ins) /\ t - 1 = dispatched
  BY DeferStep
<1>2. ins[t] \in Instruction
  BY <1>1 DEF OutOfOrderTypeOK, FrontTypes
<1>3. ins[t].src \subseteq Reg
  BY <1>2 DEF Instruction
<1>4. SUFFICES ASSUME NEW u \in Abstract!Producers(t) PROVE u \in Sources(t) \cup Done
  OBVIOUS
<1>5. /\ u \in 1 .. dispatched /\ ins[u].dest \in ins[t].src
      /\ \A v \in u + 1 .. dispatched : ins[v].dest # ins[u].dest
  BY <1>1 DEF Abstract!Producers
<1> HIDE DEF t
<1>6. ins[u].dest \in Reg /\ LastWriter(ins[u].dest, u)
  BY <1>3, <1>5 DEF LastWriter
<1>7. regTag[ins[u].dest] = u /\ (u \in Done \/ regBusy[ins[u].dest])
  BY <1>5, <1>6 DEF LastWriterNoted
<1> QED BY <1>5, <1>7 DEF Sources

(* A wait ends for results that are there, and starts for the others.      *)
LEMMA WaitsNext ==
  ASSUME OutOfOrderTypeOK, OutOfOrderTypeOK', DataflowInv, [Next]_vars
  PROVE  WaitsForProducers'
<1> SUFFICES ASSUME NEW t \in sche' \ executed'
             PROVE  Abstract!Producers(t)' \subseteq waitsFor'[t] \cup Done'
  BY DEF WaitsForProducers
<1>1. Done \subseteq Done'
  BY DoneGrows
<1>2. ASSUME t \in sche \ executed
      PROVE  /\ Abstract!Producers(t)' = Abstract!Producers(t)
             /\ Abstract!Producers(t) \subseteq waitsFor[t] \cup Done
             /\ t \in 1 .. dispatched
  <2>1. t \in 1 .. dispatched
    BY <1>2 DEF OutOfOrderTypeOK, ExecTypes
  <2>2. Abstract!Producers(t)' = Abstract!Producers(t)
    BY <2>1, DispatchedFetched, ProducersStable
  <2> QED BY <1>2, <2>1, <2>2 DEF DataflowInv, WaitsForProducers
<1>3. CASE ScheQUpdate
  <2>1. t \in sche \ executed
    BY <1>3 DEF ScheQUpdate
  <2>2. waitsFor'[t] = waitsFor[t] \ cdb
    BY <1>2, <1>3, <2>1 DEF ScheQUpdate
  <2>3. cdb \subseteq Done
    BY DEF DataflowInv, HandedOut
  <2> QED BY <1>1, <1>2, <2>1, <2>2, <2>3
<1>4. CASE DeferOne
  <2>1. CASE t = dispatched + 1
    <3>1. t \in 1 .. Len(ins) /\ waitsFor'[t] = Sources(t)
      BY <1>4, <2>1, DeferStep
    <3>2. Abstract!Producers(t)' = Abstract!Producers(t)
      BY <3>1, ProducersStable
    <3> QED BY <1>1, <1>4, <2>1, <3>1, <3>2, SourcesAreProducers DEF DataflowInv
  <2>2. CASE t # dispatched + 1
    <3>1. sche' = sche \cup {dispatched + 1} /\ executed' = executed
      BY <1>4, DeferStep DEF DeferOne
    <3>2. t \in sche \ executed
      BY <2>2, <3>1
    <3>3. waitsFor'[t] = waitsFor[t]
      BY <1>2, <1>4, <3>2, DeferStep
    <3> QED BY <1>1, <1>2, <3>2, <3>3
  <2> QED BY <2>1, <2>2
<1>5. CASE /\ UNCHANGED <<dispatched, waitsFor>>
           /\ sche' \subseteq sche /\ executed \subseteq executed'
  BY <1>1, <1>2, <1>5
<1> QED BY <1>3, <1>4, <1>5, WaitSteps

(* ins_ready is written by p_sq_update only.                               *)
LEMMA ReadySteps ==
  [Next]_vars => SqUpdate \/ (UNCHANGED insReady /\ executed \subseteq executed')
BY DEF Next, vars, frontVars, execVars, cacheVars, CacheTick, DispatchReserve, StateUpdate,
       RegisterUpdate, Execute, ScheQUpdate, DeferOne, DeferEnd, Fetch, FetchNothing, EndTick,
       Stopped

(* p_sq_update marks who waits for nothing.                                *)
LEMMA ReadyNext ==
  ASSUME OutOfOrderTypeOK, OutOfOrderTypeOK', DataflowInv, [Next]_vars
  PROVE  ReadyHasProducers'
<1> SUFFICES ASSUME NEW t \in insReady' \ executed'
             PROVE  Abstract!Producers(t)' \subseteq Done'
  BY DEF ReadyHasProducers
<1>1. Done \subseteq Done'
  BY DoneGrows
<1>2. ASSUME t \in 1 .. dispatched
      PROVE  Abstract!Producers(t)' = Abstract!Producers(t)
  <2>1. t \in 1 .. Len(ins)
    BY <1>2, DispatchedFetched
  <2> QED BY <2>1, ProducersStable
<1>3. CASE SqUpdate
  <2>1. t \in sche \ executed /\ waitsFor[t] = {}
    BY <1>3 DEF SqUpdate
  <2>2. t \in 1 .. dispatched
    BY <2>1 DEF OutOfOrderTypeOK, ExecTypes
  <2> QED BY <1>1, <1>2, <2>1, <2>2 DEF DataflowInv, WaitsForProducers
<1>4. CASE UNCHANGED insReady /\ executed \subseteq executed'
  <2>1. t \in insReady \ executed
    BY <1>4
  <2>2. t \in 1 .. dispatched
    BY <2>1 DEF OutOfOrderTypeOK, ExecTypes
  <2> QED BY <1>1, <1>2, <2>1, <2>2 DEF DataflowInv, ReadyHasProducers
<1> QED BY <1>3, <1>4, ReadySteps

(* The registers are written by p_register_update and p_defer only.        *)
LEMMA RegisterSteps ==
  [Next]_vars => RegisterUpdate \/ DeferOne \/ UNCHANGED <<dispatched, regTag, regBusy>>
BY DEF Next, vars, frontVars, regVars, execVars, cacheVars, CacheTick, DispatchReserve, StateUpdate,
       Execute, SqUpdate, ScheQUpdate, DeferEnd, Fetch, FetchNothing, EndTick, Stopped

(* p_defer notes the last writer, p_register_update its result.            *)
LEMMA LastWriterNext ==
  ASSUME OutOfOrderTypeOK, OutOfOrderTypeOK', DataflowInv, [Next]_vars
  PROVE  LastWriterNoted'
<1> SUFFICES ASSUME NEW r \in Reg, NEW u \in 1 .. dispatched', LastWriter(r, u)'
             PROVE  regTag'[r] = u /\ (u \in Done' \/ regBusy'[r])
  BY DEF LastWriterNoted
<1>1. Done \subseteq Done'
  BY DoneGrows
<1>2. ASSUME UNCHANGED dispatched
      PROVE  u \in 1 .. dispatched /\ regTag[r] = u /\ (u \in Done \/ regBusy[r])
  <2>1. u \in 1 .. dispatched /\ LastWriter(r, u)
    BY <1>2, LastWriterStable
  <2> QED BY <2>1 DEF DataflowInv, LastWriterNoted
<1>3. CASE RegisterUpdate
  <2>1. UNCHANGED <<dispatched, regTag>>
    BY <1>3 DEF RegisterUpdate
  <2>2. regBusy'[r] = (regBusy[r] /\ ~\E t \in cdb : ins[t].dest = r /\ regTag[r] = t)
    BY <1>3 DEF RegisterUpdate
  <2>3. cdb \subseteq Done
    BY DEF DataflowInv, HandedOut
  <2> QED BY <1>1, <1>2, <2>1, <2>2, <2>3
<1>4. CASE DeferOne
  <2>1. /\ dispatched \in Nat /\ dispatched' = dispatched + 1 /\ ins' = ins
        /\ regTag'[r] = IF ins[dispatched + 1].dest = r THEN dispatched + 1 ELSE regTag[r]
        /\ regBusy'[r] = (ins[dispatched + 1].dest = r \/ regBusy[r])
    BY <1>4, DeferStep
  <2>2. ins[u].dest = r /\ \A v \in u + 1 .. dispatched + 1 : ins[v].dest # r
    BY <2>1 DEF LastWriter
  <2>3. CASE u = dispatched + 1
    BY <2>1, <2>2, <2>3
  <2>4. CASE u # dispatched + 1
    <3>1. u \in 1 .. dispatched /\ dispatched + 1 \in u + 1 .. dispatched + 1
      BY <2>1, <2>4
    <3>2. LastWriter(r, u) /\ ins[dispatched + 1].dest # r
      BY <2>1, <2>2, <3>1 DEF LastWriter
    <3>3. regTag[r] = u /\ (u \in Done \/ regBusy[r])
      BY <3>1, <3>2 DEF DataflowInv, LastWriterNoted
    <3> QED BY <1>1, <2>1, <3>2, <3>3
  <2> QED BY <2>3, <2>4
<1>5. CASE UNCHANGED <<dispatched, regTag, regBusy>>
  BY <1>1, <1>2, <1>5
<1> QED BY <1>3, <1>4, <1>5, RegisterSteps

LEMMA DataflowInvInit == Init => DataflowInv
<1> SUFFICES ASSUME Init PROVE DataflowInv
  OBVIOUS
<1>1. /\ dispatched = 0 /\ sche = {} /\ executed = {} /\ insReady = {} /\ cdb = {} /\ fu0 = {}
      /\ busQueue = {} /\ cacheQueue = <<>> /\ fu1 = [s \in 1 .. 3 |-> {}] /\ ins = <<>>
  BY DEF Init
<1>2. Done = {}
  BY <1>1 DEF Done, Tags
<1>3. HandedOut
  <2>1. cacheQueue \in Seq(executed)
    BY <1>1, EmptySeq
  <2> QED BY <1>1, <1>2, <2>1 DEF HandedOut
<1>4. WaitsForProducers /\ ReadyHasProducers
  BY <1>1 DEF WaitsForProducers, ReadyHasProducers
<1>5. LastWriterNoted
  BY <1>1 DEF LastWriterNoted
<1> QED BY <1>3, <1>4, <1>5 DEF DataflowInv

LEMMA DataflowInvNext ==
  OutOfOrderTypeOK /\ OutOfOrderTypeOK' /\ DataflowInv /\ [Next]_vars => DataflowInv'
<1> SUFFICES ASSUME OutOfOrderTypeOK, OutOfOrderTypeOK', DataflowInv, [Next]_vars
             PROVE  DataflowInv'
  OBVIOUS
<1>1. HandedOut'
  BY HandedOutNext DEF DataflowInv
<1>2. WaitsForProducers' /\ ReadyHasProducers' /\ LastWriterNoted'
  BY WaitsNext, ReadyNext, LastWriterNext
<1> QED BY <1>1, <1>2 DEF DataflowInv

(* What tags, registers and ready marks say of the instructions a result   *)
(* is read from, at every moment.                                          *)
THEOREM DataflowInvariant == Spec => []DataflowInv
BY DataflowInvInit, DataflowInvNext, OutOfOrderTypes, PTL DEF Spec

(* p_state_update finishes instructions, p_execute starts some, tick()     *)
(* fetches one; the other functions change nothing of the three.           *)
LEMMA DataflowStep ==
  ASSUME OutOfOrderTypeOK, OutOfOrderTypeOK', DataflowInv, [Next]_vars
  PROVE  [Abstract!DataflowNext]_(Abstract!dataflowVars)
<1>1. CASE StateUpdate
  <2>1. Done' = Done \cup cdb' /\ cdb' \subseteq busQueue \cup fu0 \cup fu1[3]
    BY <1>1, DoneStateUpdate
  <2>2. cdb' \subseteq executed
    BY <2>1 DEF DataflowInv, HandedOut
  <2>3. UNCHANGED <<ins, executed>>
    BY <1>1 DEF StateUpdate
  <2>4. cdb' \ Done \in SUBSET (executed \ Done) /\ Done' = Done \cup (cdb' \ Done)
    BY <2>1, <2>2
  <2>5. Abstract!Finish
    BY <2>3, <2>4 DEF Abstract!Finish
  <2> QED BY <2>5 DEF Abstract!DataflowNext
<1>2. CASE Execute
  <2>1. /\ UNCHANGED <<ins, dispatched, sche>>
        /\ executed' = executed \cup (Issued0 \cup Issued1)
    BY <1>2 DEF Execute, frontVars
  <2>2. Done' = Done
    BY <2>1, DoneUnchanged
  <2>3. Issued0 \cup Issued1 \subseteq (sche \cap insReady) \ executed
    BY IssuedTypes DEF Ready0, Ready1
  <2>4. Issued0 \cup Issued1 \in SUBSET ((1 .. Len(ins)) \ executed)
    <3>1. sche \subseteq 1 .. Len(ins)
      BY DispatchedFetched DEF OutOfOrderTypeOK, ExecTypes
    <3> QED BY <2>3, <3>1
  <2>5. \A t \in Issued0 \cup Issued1 : Abstract!Producers(t) \subseteq Done
    BY <2>3 DEF DataflowInv, ReadyHasProducers
  <2>6. Abstract!Start
    BY <2>1, <2>2, <2>4, <2>5 DEF Abstract!Start
  <2> QED BY <2>6 DEF Abstract!DataflowNext
<1>3. ASSUME NEW o \in Op, NEW mispredict \in BOOLEAN, Fetch(o, mispredict)
      PROVE  Abstract!DataflowNext
  <2>1. UNCHANGED <<dispatched, sche, executed>>
    BY <1>3 DEF Fetch, execVars
  <2>2. Done' = Done
    BY <2>1, DoneUnchanged
  <2>3. \E i \in Instruction : ins' = Append(ins, i)
    BY <1>3, FetchStep
  <2>4. Abstract!FetchNext
    BY <2>1, <2>2, <2>3 DEF Abstract!FetchNext
  <2> QED BY <2>4 DEF Abstract!DataflowNext
<1>4. CASE DeferOne
  <2>1. UNCHANGED <<ins, executed>>
    BY <1>4 DEF DeferOne, frontVars
  <2>2. Done' = Done
    BY <1>4, DoneDeferOne
  <2> QED BY <2>1, <2>2 DEF Abstract!dataflowVars
<1>5. CASE UNCHANGED <<ins, dispatched, sche, executed>>
  <2>1. Done' = Done
    BY <1>5, DoneUnchanged
  <2> QED BY <1>5, <2>1 DEF Abstract!dataflowVars
<1>6. \/ StateUpdate \/ Execute \/ DeferOne
      \/ \E o \in Op, mispredict \in BOOLEAN : Fetch(o, mispredict)
      \/ UNCHANGED <<ins, dispatched, sche, executed>>
  BY DEF Next, vars, frontVars, execVars, CacheTick, DispatchReserve, RegisterUpdate, SqUpdate,
         ScheQUpdate, DeferEnd, FetchNothing, EndTick, Stopped
<1> QED BY <1>1, <1>2, <1>3, <1>4, <1>5, <1>6

(* The pipeline implements the machine that executes by dataflow: every    *)
(* instruction executes once, after the results it reads.                  *)
THEOREM ImplementsDataflow == Spec => ExecutesByDataflow
<1>1. Init => Abstract!DataflowInit
  <2> SUFFICES ASSUME Init PROVE Abstract!DataflowInit
    OBVIOUS
  <2>1. ins = <<>> /\ executed = {} /\ dispatched = 0
    BY DEF Init
  <2>2. Done = {}
    BY <2>1 DEF Done, Tags
  <2> QED BY <2>1, <2>2 DEF Abstract!DataflowInit
<1>2. OutOfOrderTypeOK /\ OutOfOrderTypeOK' /\ DataflowInv /\ [Next]_vars
      => [Abstract!DataflowNext]_(Abstract!dataflowVars)
  BY DataflowStep
<1> QED BY <1>1, <1>2, OutOfOrderTypes, DataflowInvariant, PTL
       DEF Spec, ExecutesByDataflow, Abstract!DataflowSpec

-----------------------------------------------------------------------------
(* No wakeup is lost.  Between p_state_update and p_sche_q_update what is  *)
(* on the buses is still waited for, by registers until                    *)
(* p_register_update only.                                                 *)
Unseen == IF stage \in {"registers", "execute", "ready", "wake"} THEN cdb ELSE {}
UnseenByRegisters == IF stage = "registers" THEN cdb ELSE {}

WakeupInv ==
  /\ \A t \in sche : waitsFor[t] \cap Done \subseteq Unseen
  /\ \A r \in Reg : regBusy[r] =>
       /\ regTag[r] \in 1 .. dispatched /\ ins[regTag[r]].dest = r
       /\ regTag[r] \in Done => regTag[r] \in UnseenByRegisters

LEMMA WakeupIs == WakeupInv => NoLostWakeup
<1> SUFFICES ASSUME WakeupInv, stage = "cache"
             PROVE  /\ \A t \in sche : waitsFor[t] \cap Done = {}
                    /\ \A r \in Reg : regBusy[r] => regTag[r] \notin Done
  BY DEF NoLostWakeup
<1>1. Unseen = {} /\ UnseenByRegisters = {}
  BY DEF Unseen, UnseenByRegisters
<1> QED BY <1>1 DEF WakeupInv

LEMMA WakeupInit == Init => WakeupInv
BY DEF Init, WakeupInv

(* What p_state_update puts on the buses is not yet seen.                  *)
LEMMA WakeupState ==
  ASSUME OutOfOrderTypeOK, OutOfOrderTypeOK', WakeupInv, StateUpdate
  PROVE  WakeupInv'
<1>1. Done' = Done \cup cdb'
  BY DoneStateUpdate
<1>2. /\ UNCHANGED <<ins, dispatched, waitsFor, regTag, regBusy>> /\ sche' \subseteq sche
      /\ stage = "state" /\ stage' = "registers"
  BY DEF StateUpdate, regVars
<1>3. Unseen = {} /\ UnseenByRegisters = {} /\ Unseen' = cdb' /\ UnseenByRegisters' = cdb'
  BY <1>2 DEF Unseen, UnseenByRegisters
<1> QED BY <1>1, <1>2, <1>3 DEF WakeupInv

(* p_register_update frees every register whose writer is on a bus.        *)
LEMMA WakeupRegisters ==
  ASSUME OutOfOrderTypeOK, OutOfOrderTypeOK', WakeupInv, RegisterUpdate
  PROVE  WakeupInv'
<1>1. /\ UNCHANGED <<ins, dispatched, sche, cdb, waitsFor, regTag>>
      /\ stage = "registers" /\ stage' = "execute"
      /\ regBusy' = [r \in Reg |-> regBusy[r] /\ ~\E t \in cdb : ins[t].dest = r /\ regTag[r] = t]
  BY DEF RegisterUpdate, frontVars, execVars
<1>2. Done' = Done
  BY <1>1, DoneUnchanged
<1>3. Unseen = cdb /\ Unseen' = cdb /\ UnseenByRegisters = cdb
  BY <1>1 DEF Unseen, UnseenByRegisters
<1>4. ASSUME NEW r \in Reg, regBusy'[r]
      PROVE  regTag[r] \in 1 .. dispatched /\ ins[regTag[r]].dest = r /\ regTag[r] \notin Done
  <2>1. regBusy[r] /\ ~\E t \in cdb : ins[t].dest = r /\ regTag[r] = t
    BY <1>1, <1>4
  <2>2. /\ regTag[r] \in 1 .. dispatched /\ ins[regTag[r]].dest = r
        /\ regTag[r] \in Done => regTag[r] \in cdb
    BY <1>3, <2>1 DEF WakeupInv
  <2> QED BY <2>1, <2>2
<1> QED BY <1>1, <1>2, <1>3, <1>4 DEF WakeupInv

(* p_sche_q_update ends every wait for what is on the buses.               *)
LEMMA WakeupWake ==
  ASSUME OutOfOrderTypeOK, OutOfOrderTypeOK', WakeupInv, ScheQUpdate
  PROVE  WakeupInv'
<1>1. /\ UNCHANGED <<ins, dispatched, sche, cdb, regTag, regBusy>>
      /\ stage = "wake" /\ stage' = "defer"
  BY DEF ScheQUpdate, frontVars, regVars
<1>2. Done' = Done
  BY <1>1, DoneUnchanged
<1>3. Unseen = cdb /\ UnseenByRegisters = {} /\ Unseen' = {} /\ UnseenByRegisters' = {}
  BY <1>1 DEF Unseen, UnseenByRegisters
<1>4. \A t \in sche : waitsFor'[t] = waitsFor[t] \ cdb
  BY DEF ScheQUpdate, OutOfOrderTypeOK, ExecTypes
<1> QED BY <1>1, <1>2, <1>3, <1>4 DEF WakeupInv

(* p_defer reads registers that wait for nothing that is there.            *)
LEMMA WakeupDefer ==
  ASSUME OutOfOrderTypeOK, OutOfOrderTypeOK', WakeupInv, DeferOne
  PROVE  WakeupInv'
<1> DEFINE u == dispatched + 1
<1>1. /\ dispatched \in Nat /\ dispatched' = u /\ u \in 1 .. Len(ins) /\ ins' = ins
      /\ sche' = sche \cup {u}
      /\ \A t \in 1 .. dispatched : waitsFor'[t] = waitsFor[t]
      /\ waitsFor'[u] = Sources(u)
      /\ regTag' = [r \in Reg |-> IF ins[u].dest = r THEN u ELSE regTag[r]]
      /\ regBusy' = [r \in Reg |-> ins[u].dest = r \/ regBusy[r]]
  BY DeferStep
<1>2. Done' = Done /\ Done = (1 .. dispatched) \ sche
  BY DoneDeferOne, DoneIs
<1>3. stage = "defer" /\ stage' = "defer"
  BY DEF DeferOne
<1>4. Unseen = {} /\ UnseenByRegisters = {} /\ Unseen' = {} /\ UnseenByRegisters' = {}
  BY <1>3 DEF Unseen, UnseenByRegisters
<1>5. ins[u].src \subseteq Reg
  <2>1. ins[u] \in Instruction
    BY <1>1 DEF OutOfOrderTypeOK, FrontTypes
  <2> QED BY <2>1 DEF Instruction
<1>6. \A r \in Reg : regBusy[r] =>
        regTag[r] \in 1 .. dispatched /\ ins[regTag[r]].dest = r /\ regTag[r] \notin Done
  BY <1>4 DEF WakeupInv
<1>7. u \notin Done /\ u \in 1 .. u /\ 1 .. dispatched \subseteq 1 .. u
  BY <1>1, <1>2
<1> HIDE DEF u
<1>8. \A t \in sche' : waitsFor'[t] \cap Done = {}
  <2>1. Sources(u) \cap Done = {}
    BY <1>5, <1>6 DEF Sources
  <2>2. ASSUME NEW t \in sche PROVE waitsFor'[t] \cap Done = {}
    <3>1. t \in 1 .. dispatched
      BY DEF OutOfOrderTypeOK, ExecTypes
    <3> QED BY <1>1, <1>4, <3>1 DEF WakeupInv
  <2> QED BY <1>1, <2>1, <2>2
<1>9. \A r \in Reg : regBusy'[r] =>
        regTag'[r] \in 1 .. u /\ ins[regTag'[r]].dest = r /\ regTag'[r] \notin Done
  <2> SUFFICES ASSUME NEW r \in Reg, regBusy'[r]
               PROVE  regTag'[r] \in 1 .. u /\ ins[regTag'[r]].dest = r /\ regTag'[r] \notin Done
    OBVIOUS
  <2>1. CASE ins[u].dest = r
    BY <1>1, <1>7, <2>1
  <2>2. CASE ins[u].dest # r
    BY <1>1, <1>6, <1>7, <2>2
  <2> QED BY <2>1, <2>2
<1> QED BY <1>1, <1>2, <1>4, <1>8, <1>9 DEF WakeupInv

(* The other functions neither dispatch nor finish, nor touch an operand.  *)
LEMMA WakeupOthers ==
  ASSUME OutOfOrderTypeOK, OutOfOrderTypeOK', WakeupInv, [Next]_vars,
         ~StateUpdate, ~RegisterUpdate, ~ScheQUpdate, ~DeferOne
  PROVE  WakeupInv'
<1>1. /\ UNCHANGED <<dispatched, sche, waitsFor, regTag, regBusy, cdb>>
      /\ \/ stage' = stage
         \/ {stage, stage'} \subseteq {"cache", "reserve", "state", "defer", "fetch", "stopped"}
         \/ {stage, stage'} \subseteq {"execute", "ready", "wake"}
  BY DEF Next, vars, frontVars, execVars, regVars, cacheVars, CacheTick, DispatchReserve, Execute,
         SqUpdate, DeferEnd, Fetch, FetchNothing, EndTick, Stopped
<1>2. Done' = Done
  BY <1>1, DoneUnchanged
<1>3. Unseen' = Unseen /\ UnseenByRegisters' = UnseenByRegisters
  BY <1>1 DEF Unseen, UnseenByRegisters
<1>4. \A t \in 1 .. dispatched : ins'[t] = ins[t]
  BY InsStable
<1>5. \A r \in Reg : regBusy[r] => regTag[r] \in 1 .. dispatched /\ ins'[regTag[r]].dest = r
  BY <1>4 DEF WakeupInv
<1> QED BY <1>1, <1>2, <1>3, <1>5 DEF WakeupInv

(* No operand and no register waits for a result that has been broadcast   *)
(* when a tick begins.                                                     *)
THEOREM NoWakeupLost == Spec => []NoLostWakeup
<1>1. OutOfOrderTypeOK /\ OutOfOrderTypeOK' /\ WakeupInv /\ [Next]_vars => WakeupInv'
  BY WakeupState, WakeupRegisters, WakeupWake, WakeupDefer, WakeupOthers
<1> QED BY <1>1, WakeupInit, WakeupIs, OutOfOrderTypes, PTL DEF Spec

-----------------------------------------------------------------------------
(* The queues have room.  When p_dispatch_reserve runs, p_defer has put    *)
(* all that was reserved into the schedule queues, so that what it counts  *)
(* there is all that has been sent.                                        *)
Sent == sche \cup dispatched + 1 .. reserved
SentShort == {t \in Sent : Short(t)}
SentLong  == {t \in Sent : Long(t)}

RoomInv ==
  /\ QueuesHaveRoom
  /\ stage \in {"fetch", "stopped", "cache", "reserve"} => dispatched = reserved

(* The sizes of the queues are natural numbers.                            *)
LEMMA Sizes ==
  /\ M * J \in Nat /\ M * K \in Nat /\ D * (M * J + M * K) \in Nat
  /\ F \in Nat
<1>1. M * J \in Nat /\ M * K \in Nat
  BY ParamAssumption
<1>2. ASSUME NEW a \in Nat, NEW b \in Nat PROVE D * (a + b) \in Nat
  BY ParamAssumption
<1> QED BY <1>1, <1>2, ParamAssumption

LEMMA RoomInit == Init => RoomInv
<1> SUFFICES ASSUME Init PROVE RoomInv
  OBVIOUS
<1>1. dispatched = 0 /\ reserved = 0 /\ sche = {} /\ slots = 0 /\ ins = <<>>
  BY DEF Init
<1>2. Sent = {} /\ SentShort = {} /\ SentLong = {} /\ Len(ins) = 0
  BY <1>1 DEF Sent, SentShort, SentLong
<1>3. QueuesHaveRoom
  BY <1>1, <1>2, Sizes, FS_EmptySet DEF QueuesHaveRoom, Sent, SentShort, SentLong
<1> QED BY <1>1, <1>3 DEF RoomInv

(* A smaller set keeps a bound, and two sets that fit do so together.      *)
LEMMA SmallerFits ==
  ASSUME NEW n \in Int, NEW S, S \subseteq 1 .. n, NEW T, T \subseteq S, NEW bound \in Int,
         Cardinality(S) <= bound
  PROVE  Cardinality(T) <= bound
<1>1. IsFiniteSet(S) /\ Cardinality(S) \in Nat /\ T \subseteq 1 .. n /\ Cardinality(T) \in Nat
  BY TagSets
<1>2. Cardinality(T) <= Cardinality(S)
  BY <1>1, FS_Subset
<1> QED BY <1>1, <1>2

LEMMA UnionFits ==
  ASSUME NEW n \in Int, NEW S, S \subseteq 1 .. n, NEW T, T \subseteq 1 .. n, NEW bound \in Int,
         Cardinality(T) <= bound - Cardinality(S)
  PROVE  Cardinality(S \cup T) <= bound
<1>1. IsFiniteSet(S) /\ Cardinality(S) \in Nat /\ IsFiniteSet(T) /\ Cardinality(T) \in Nat
  BY TagSets
<1>2. Cardinality(S \cap T) \in Nat
  <2>1. S \cap T \subseteq 1 .. n
    OBVIOUS
  <2> QED BY <2>1, TagSets
<1>3. Cardinality(S \cup T) = Cardinality(S) + Cardinality(T) - Cardinality(S \cap T)
  BY <1>1, FS_Union
<1> QED BY <1>1, <1>2, <1>3

(* What has been sent has been fetched.                                    *)
LEMMA SentTypes ==
  ASSUME OutOfOrderTypeOK
  PROVE  Len(ins) \in Nat /\ Sent \subseteq 1 .. Len(ins)
BY DEF OutOfOrderTypeOK, FrontTypes, ExecTypes, Sent

(* What was reserved from an empty reserve fits.                           *)
LEMMA RoomReserve ==
  ASSUME OutOfOrderTypeOK, OutOfOrderTypeOK', RoomInv, DispatchReserve
  PROVE  RoomInv'
<1>1. PICK n \in reserved .. Len(ins) : Fits(n) /\ reserved' = n
  BY DEF DispatchReserve
<1>2. dispatched = reserved /\ UNCHANGED <<ins, sche, dispatched, slots>> /\ stage' = "state"
  BY DEF RoomInv, DispatchReserve, execVars
<1>3. /\ Len(ins) \in Nat /\ reserved \in Nat /\ n \in Nat /\ n <= Len(ins)
      /\ sche \subseteq 1 .. Len(ins) /\ reserved + 1 .. n \subseteq 1 .. Len(ins)
      /\ reserved <= n /\ slots \in Nat
  BY <1>1, ParamAssumption DEF OutOfOrderTypeOK, FrontTypes, ExecTypes
<1>4. /\ SentShort' = {t \in sche : Short(t)} \cup {t \in reserved + 1 .. n : Short(t)}
      /\ SentLong' = {t \in sche : Long(t)} \cup {t \in reserved + 1 .. n : Long(t)}
  BY <1>1, <1>2 DEF SentShort, SentLong, Sent, Short, Long
<1>5. Cardinality(SentShort') <= M * J
  <2>1. Cardinality({t \in reserved + 1 .. n : Short(t)})
          <= M * J - Cardinality({t \in sche : Short(t)})
    BY <1>1 DEF Fits, Room0
  <2>2. /\ {t \in sche : Short(t)} \subseteq 1 .. Len(ins)
        /\ {t \in reserved + 1 .. n : Short(t)} \subseteq 1 .. Len(ins)
        /\ Len(ins) \in Int /\ M * J \in Int
    <3>1. M * J \in Int
      BY Sizes
    <3>2. Len(ins) \in Int
      BY <1>3
    <3> QED BY <1>3, <3>1, <3>2, Zenon
  <2>3. Cardinality({t \in sche : Short(t)} \cup {t \in reserved + 1 .. n : Short(t)}) <= M * J
    BY <2>1, <2>2, UnionFits, Zenon
  <2> QED BY <1>4, <2>3
<1>6. Cardinality(SentLong') <= M * K
  <2>1. Cardinality({t \in reserved + 1 .. n : Long(t)})
          <= M * K - Cardinality({t \in sche : Long(t)})
    BY <1>1 DEF Fits, Room1
  <2>2. /\ {t \in sche : Long(t)} \subseteq 1 .. Len(ins)
        /\ {t \in reserved + 1 .. n : Long(t)} \subseteq 1 .. Len(ins)
        /\ Len(ins) \in Int /\ M * K \in Int
    <3>1. M * K \in Int
      BY Sizes
    <3>2. Len(ins) \in Int
      BY <1>3
    <3> QED BY <1>3, <3>1, <3>2, Zenon
  <2>3. Cardinality({t \in sche : Long(t)} \cup {t \in reserved + 1 .. n : Long(t)}) <= M * K
    BY <2>1, <2>2, UnionFits, Zenon
  <2> QED BY <1>4, <2>3
<1>7. Len(ins') - reserved' + slots' <= D * (M * J + M * K)
  <2>1. Len(ins) - reserved + slots <= D * (M * J + M * K)
    BY DEF RoomInv, QueuesHaveRoom
  <2> QED BY <1>1, <1>2, <1>3, <2>1, Sizes
<1> QED BY <1>2, <1>5, <1>6, <1>7 DEF RoomInv, QueuesHaveRoom, SentShort, SentLong, Sent

(* The other functions send nothing.                                       *)
LEMMA SentSteps ==
  ASSUME OutOfOrderTypeOK, OutOfOrderTypeOK', RoomInv, [Next]_vars, ~DispatchReserve
  PROVE  Sent' \subseteq Sent /\ (\A t \in Sent : ins'[t] = ins[t]) /\ UNCHANGED reserved
<1>1. \A t \in Sent : ins'[t] = ins[t]
  BY InsStable, SentTypes
<1>2. CASE DeferOne
  <2>1. /\ sche' = sche \cup {dispatched + 1} /\ dispatched' = dispatched + 1
        /\ reserved' = reserved /\ dispatched \in Nat /\ dispatched + 1 <= reserved
        /\ reserved \in Nat
    BY <1>2, DeferStep DEF OutOfOrderTypeOK, FrontTypes
  <2> QED BY <1>1, <2>1 DEF Sent
<1>3. CASE UNCHANGED <<dispatched, reserved>> /\ sche' \subseteq sche
  BY <1>1, <1>3 DEF Sent
<1>4. DeferOne \/ (UNCHANGED <<dispatched, reserved>> /\ sche' \subseteq sche)
  BY DEF Next, vars, frontVars, execVars, cacheVars, CacheTick, StateUpdate, RegisterUpdate,
         Execute, SqUpdate, ScheQUpdate, DeferEnd, Fetch, FetchNothing, EndTick, Stopped
<1> QED BY <1>2, <1>3, <1>4

(* tick() fetches no more than disp_queue has room for.                    *)
LEMMA DispatchRoomKept ==
  ASSUME OutOfOrderTypeOK, OutOfOrderTypeOK', RoomInv, [Next]_vars, ~DispatchReserve
  PROVE  Len(ins') - reserved' + slots' <= D * (M * J + M * K)
<1>1. Len(ins) - reserved + slots <= D * (M * J + M * K)
  BY DEF RoomInv, QueuesHaveRoom
<1>2. /\ Len(ins) \in Nat /\ reserved \in Nat /\ slots \in Nat /\ slots' \in Nat
      /\ reserved <= Len(ins) /\ UNCHANGED reserved
  BY ParamAssumption, SentSteps DEF OutOfOrderTypeOK, FrontTypes
<1>3. CASE UNCHANGED ins /\ slots' <= slots
  BY <1>1, <1>2, <1>3, Sizes
<1>4. CASE DeferEnd
  <2>1. UNCHANGED ins /\ slots' = IF DispatchRoom >= F THEN F ELSE 0
    BY <1>4 DEF DeferEnd
  <2>2. CASE slots' = F /\ DispatchRoom >= F
    BY <1>2, <2>1, <2>2, Sizes DEF DispatchRoom
  <2>3. CASE slots' = 0
    BY <1>1, <1>2, <2>1, <2>3, Sizes
  <2> QED BY <2>1, <2>2, <2>3
<1>5. ASSUME NEW o \in Op, NEW mispredict \in BOOLEAN, Fetch(o, mispredict)
      PROVE  Len(ins') - reserved' + slots' <= D * (M * J + M * K)
  <2>1. Len(ins') = Len(ins) + 1
    BY <1>5, FetchStep
  <2>2. slots' = slots - 1
    BY <1>5 DEF Fetch
  <2> QED BY <1>1, <1>2, <2>1, <2>2, Sizes
<1>6. \/ UNCHANGED <<ins, slots>> \/ DeferEnd \/ FetchNothing \/ EndTick
      \/ \E o \in Op, mispredict \in BOOLEAN : Fetch(o, mispredict)
  BY DEF Next, vars, frontVars, CacheTick, DispatchReserve, StateUpdate, RegisterUpdate, Execute,
         SqUpdate, ScheQUpdate, DeferOne, Stopped
<1>7. FetchNothing \/ EndTick => UNCHANGED ins /\ slots' <= slots
  BY <1>2 DEF FetchNothing, EndTick
<1>8. UNCHANGED <<ins, slots>> => UNCHANGED ins /\ slots' <= slots
  BY <1>2
<1> QED BY <1>3, <1>4, <1>5, <1>6, <1>7, <1>8

LEMMA RoomNext ==
  ASSUME OutOfOrderTypeOK, OutOfOrderTypeOK', RoomInv, [Next]_vars
  PROVE  RoomInv'
<1>1. CASE DispatchReserve
  BY <1>1, RoomReserve
<1>2. CASE ~DispatchReserve
  <2>1. SentShort' \subseteq SentShort /\ SentLong' \subseteq SentLong
    BY <1>2, SentSteps DEF SentShort, SentLong, Short, Long
  <2>2. Cardinality(SentShort) <= M * J /\ Cardinality(SentLong) <= M * K
    BY DEF RoomInv, QueuesHaveRoom, SentShort, SentLong, Sent
  <2>3. SentShort \subseteq 1 .. Len(ins) /\ SentLong \subseteq 1 .. Len(ins) /\ Len(ins) \in Int
    BY SentTypes DEF SentShort, SentLong
  <2>4. Cardinality(SentShort') <= M * J /\ Cardinality(SentLong') <= M * K
    <3>1. M * J \in Int /\ M * K \in Int
      BY Sizes
    <3> QED BY <2>1, <2>2, <2>3, <3>1, SmallerFits, Zenon
  <2>5. Len(ins') - reserved' + slots' <= D * (M * J + M * K)
    BY <1>2, DispatchRoomKept
  <2>6. stage' \in {"fetch", "stopped", "cache", "reserve"} => dispatched' = reserved'
    BY <1>2 DEF RoomInv, Next, vars, frontVars, CacheTick, StateUpdate, RegisterUpdate, Execute,
         SqUpdate, ScheQUpdate, DeferOne, DeferEnd, Fetch, FetchNothing, EndTick, Stopped
  <2> QED BY <2>4, <2>5, <2>6 DEF RoomInv, QueuesHaveRoom, SentShort, SentLong, Sent
<1> QED BY <1>1, <1>2

(* p_defer finds the room p_dispatch_reserve has counted, and tick() the   *)
(* room for what it fetches.                                               *)
THEOREM QueuesKeepTheirSize == Spec => []QueuesHaveRoom
<1>1. OutOfOrderTypeOK /\ OutOfOrderTypeOK' /\ RoomInv /\ [Next]_vars => RoomInv'
  BY RoomNext
<1>2. RoomInv => QueuesHaveRoom
  BY DEF RoomInv
<1> QED BY <1>1, <1>2, RoomInit, OutOfOrderTypes, PTL DEF Spec

-----------------------------------------------------------------------------
(* An instruction that has been handed out is in one place.                *)
Apart(S, T) == S \cap T = {}

InOnePlace ==
  /\ fu0 \cup fu1[1] \cup fu1[2] \cup fu1[3] \cup busQueue \cup Range(cacheQueue) = executed \cap sche
  /\ Apart(fu0, fu1[1]) /\ Apart(fu0, fu1[2]) /\ Apart(fu0, fu1[3])
  /\ Apart(fu0, busQueue) /\ Apart(fu0, Range(cacheQueue))
  /\ Apart(fu1[1], fu1[2]) /\ Apart(fu1[1], fu1[3])
  /\ Apart(fu1[1], busQueue) /\ Apart(fu1[1], Range(cacheQueue))
  /\ Apart(fu1[2], fu1[3]) /\ Apart(fu1[2], busQueue) /\ Apart(fu1[2], Range(cacheQueue))
  /\ Apart(fu1[3], busQueue) /\ Apart(fu1[3], Range(cacheQueue))
  /\ Apart(busQueue, Range(cacheQueue))
  /\ IsInjective(cacheQueue)

(* The six places, one by one.                                             *)
LEMMA PlacesAre ==
  /\ DOMAIN Places = 1 .. 6
  /\ Places[1] = fu0 /\ Places[2] = fu1[1] /\ Places[3] = fu1[2] /\ Places[4] = fu1[3]
  /\ Places[5] = busQueue /\ Places[6] = Range(cacheQueue)
BY DEF Places

LEMMA OnePlaceIs == InOnePlace => HandedOutOnce
<1> SUFFICES ASSUME InOnePlace PROVE HandedOutOnce
  OBVIOUS
<1>1. UNION Range(Places)
        = fu0 \cup fu1[1] \cup fu1[2] \cup fu1[3] \cup busQueue \cup Range(cacheQueue)
  <2>1. Range(Places) = {fu0, fu1[1], fu1[2], fu1[3], busQueue, Range(cacheQueue)}
    <3>1. Range(Places) = {Places[n] : n \in 1 .. 6}
      BY PlacesAre DEF Range
    <3> QED BY <3>1, PlacesAre
  <2> QED BY <2>1
<1>2. \A m, n \in 1 .. 6 : m # n => Places[m] \cap Places[n] = {}
  <2> SUFFICES ASSUME NEW m \in 1 .. 6, NEW n \in 1 .. 6, m # n
               PROVE  Apart(Places[m], Places[n])
    BY DEF Apart
  <2>1. Apart(Places[m], Places[n]) <=> Apart(Places[n], Places[m])
    BY DEF Apart
  <2>2. m = 1 \/ m = 2 \/ m = 3 \/ m = 4 \/ m = 5 \/ m = 6
    OBVIOUS
  <2>3. n = 1 \/ n = 2 \/ n = 3 \/ n = 4 \/ n = 5 \/ n = 6
    OBVIOUS
  <2> QED BY <2>1, <2>2, <2>3, PlacesAre DEF InOnePlace
<1> QED BY <1>1, <1>2, PlacesAre DEF InOnePlace, HandedOutOnce

LEMMA OnePlaceInit == Init => InOnePlace
<1> SUFFICES ASSUME Init PROVE InOnePlace
  OBVIOUS
<1>1. /\ fu0 = {} /\ fu1[1] = {} /\ fu1[2] = {} /\ fu1[3] = {} /\ busQueue = {}
      /\ cacheQueue = <<>> /\ executed = {}
  BY DEF Init
<1>2. Range(cacheQueue) = {} /\ IsInjective(cacheQueue)
  BY <1>1 DEF Range, IsInjective
<1> QED BY <1>1, <1>2 DEF InOnePlace, Apart

(* Taking the head off a queue that holds nothing twice.                   *)
LEMMA PopQueue ==
  ASSUME NEW S, NEW q \in Seq(S), q # <<>>, IsInjective(q)
  PROVE  /\ Head(q) \in Range(q) /\ Range(Tail(q)) = Range(q) \ {Head(q)}
         /\ IsInjective(Tail(q))
<1>1. /\ Len(q) \in Nat /\ Len(q) >= 1 /\ DOMAIN q = 1 .. Len(q) /\ Head(q) = q[1]
  BY HeadTailProperties, LenProperties, EmptySeq
<1>2. /\ DOMAIN Tail(q) = 1 .. Len(q) - 1
      /\ \A n \in 1 .. Len(q) - 1 : Tail(q)[n] = q[n + 1]
  <2>1. Tail(q) \in Seq(S) /\ Len(Tail(q)) = Len(q) - 1
    BY HeadTailProperties
  <2> QED BY <2>1, HeadTailProperties, LenProperties
<1>3. \A n \in 1 .. Len(q) : n = 1 \/ (n - 1 \in 1 .. Len(q) - 1 /\ q[n] = Tail(q)[n - 1])
  BY <1>1, <1>2
<1>4. \A n \in 1 .. Len(q) - 1 : n + 1 \in 1 .. Len(q) /\ n + 1 # 1
  BY <1>1
<1>5. \A m, n \in 1 .. Len(q) : q[m] = q[n] => m = n
  BY <1>1 DEF IsInjective
<1>6. 1 \in 1 .. Len(q)
  BY <1>1
<1>7. Head(q) \in Range(q)
  BY <1>1, <1>6 DEF Range
<1>8. Range(Tail(q)) \subseteq Range(q) \ {Head(q)}
  BY <1>1, <1>2, <1>4, <1>5, <1>6 DEF Range
<1>9. Range(q) \ {Head(q)} \subseteq Range(Tail(q))
  <2> SUFFICES ASSUME NEW n \in 1 .. Len(q), q[n] # Head(q)
               PROVE  q[n] \in Range(Tail(q))
    BY <1>1 DEF Range
  <2>1. n - 1 \in 1 .. Len(q) - 1 /\ q[n] = Tail(q)[n - 1]
    BY <1>1, <1>3
  <2>2. n - 1 \in DOMAIN Tail(q)
    BY <1>2, <2>1
  <2> QED BY <2>1, <2>2 DEF Range
<1>10. IsInjective(Tail(q))
  <2> SUFFICES ASSUME NEW m \in 1 .. Len(q) - 1, NEW n \in 1 .. Len(q) - 1, q[m + 1] = q[n + 1]
               PROVE  m = n
    BY <1>2 DEF IsInjective
  <2>1. m + 1 = n + 1
    BY <1>4, <1>5
  <2> QED BY <1>1, <2>1
<1> QED BY <1>7, <1>8, <1>9, <1>10

(* Appending a queue of other things.                                      *)
LEMMA JoinQueues ==
  ASSUME NEW S, NEW p \in Seq(S), NEW q \in Seq(S), IsInjective(p), IsInjective(q),
         Apart(Range(p), Range(q))
  PROVE  Range(p \o q) = Range(p) \cup Range(q) /\ IsInjective(p \o q)
<1>1. /\ Len(p) \in Nat /\ Len(q) \in Nat /\ DOMAIN p = 1 .. Len(p) /\ DOMAIN q = 1 .. Len(q)
      /\ DOMAIN (p \o q) = 1 .. Len(p) + Len(q)
  BY ConcatProperties, LenProperties
<1>2. \A n \in 1 .. Len(p) + Len(q) :
        \/ n \in 1 .. Len(p) /\ (p \o q)[n] = p[n]
        \/ n > Len(p) /\ n - Len(p) \in 1 .. Len(q) /\ (p \o q)[n] = q[n - Len(p)]
  BY <1>1, ConcatProperties
<1>3. \A n \in 1 .. Len(p) : n \in 1 .. Len(p) + Len(q) /\ (p \o q)[n] = p[n]
  BY <1>1, ConcatProperties
<1>4. \A n \in 1 .. Len(q) : n + Len(p) \in 1 .. Len(p) + Len(q) /\ (p \o q)[n + Len(p)] = q[n]
  BY <1>1, ConcatProperties
<1>5. Range(p \o q) = Range(p) \cup Range(q)
  <2>1. Range(p \o q) \subseteq Range(p) \cup Range(q)
    BY <1>1, <1>2 DEF Range
  <2>2. Range(p) \subseteq Range(p \o q)
    BY <1>1, <1>3 DEF Range
  <2>3. Range(q) \subseteq Range(p \o q)
    BY <1>1, <1>4 DEF Range
  <2> QED BY <2>1, <2>2, <2>3
<1>6. IsInjective(p \o q)
  <2> SUFFICES ASSUME NEW m \in 1 .. Len(p) + Len(q), NEW n \in 1 .. Len(p) + Len(q),
                      (p \o q)[m] = (p \o q)[n]
               PROVE  m = n
    BY <1>1 DEF IsInjective
  <2>1. \A k \in 1 .. Len(p), l \in 1 .. Len(q) : p[k] # q[l]
    BY <1>1 DEF Apart, Range
  <2>2. \A k, l \in 1 .. Len(p) : p[k] = p[l] => k = l
    BY <1>1 DEF IsInjective
  <2>3. \A k, l \in 1 .. Len(q) : q[k] = q[l] => k = l
    BY <1>1 DEF IsInjective
  <2>4. CASE m \in 1 .. Len(p) /\ (p \o q)[m] = p[m]
    BY <1>2, <2>1, <2>2, <2>4
  <2>5. CASE m > Len(p) /\ m - Len(p) \in 1 .. Len(q) /\ (p \o q)[m] = q[m - Len(p)]
    <3>1. n > Len(p) /\ n - Len(p) \in 1 .. Len(q) /\ (p \o q)[n] = q[n - Len(p)]
      BY <1>2, <2>1, <2>5
    <3>2. m - Len(p) = n - Len(p)
      BY <2>3, <2>5, <3>1
    <3> QED BY <1>1, <3>2
  <2> QED BY <1>2, <2>4, <2>5
<1> QED BY <1>5, <1>6

(* An increasing queue of a set's size holds the whole set once.           *)
LEMMA IncreasingQueue ==
  ASSUME NEW k \in Int, NEW S, S \subseteq 1 .. k,
         NEW order \in [1 .. Cardinality(S) -> S],
         \A m, n \in DOMAIN order : m < n => order[m] < order[n]
  PROVE  Range(order) = S /\ IsInjective(order)
<1>1. IsFiniteSet(S) /\ Cardinality(S) \in Nat
  BY TagSets
<1>2. \A m, n \in 1 .. Cardinality(S) : order[m] = order[n] => m = n
  <2> SUFFICES ASSUME NEW m \in 1 .. Cardinality(S), NEW n \in 1 .. Cardinality(S), m < n
               PROVE  order[m] # order[n]
    BY <1>1
  <2>1. m \in DOMAIN order /\ n \in DOMAIN order /\ order[m] \in 1 .. k /\ order[n] \in 1 .. k
    BY <1>1
  <2>2. order[m] < order[n]
    BY <2>1
  <2> QED BY <2>1, <2>2
<1>3. order \in Injection(1 .. Cardinality(S), S)
  BY <1>2 DEF Injection, IsInjective
<1>4. Cardinality(1 .. Cardinality(S)) = Cardinality(S)
  BY <1>1, FS_Interval
<1>5. order \in Surjection(1 .. Cardinality(S), S)
  BY <1>1, <1>3, <1>4, FS_Injection
<1>6. Range(order) = S
  BY <1>5 DEF Surjection, Range
<1> QED BY <1>2, <1>6 DEF IsInjective

(* The head of cache_queue moves to busQueue.                              *)
LEMMA OnePlaceCache ==
  ASSUME OutOfOrderTypeOK, InOnePlace, CacheTick
  PROVE  InOnePlace'
<1>1. UNCHANGED <<sche, executed, fu0, fu1>>
  BY DEF CacheTick
<1>2. CASE UNCHANGED <<cacheQueue, busQueue>>
  BY <1>1, <1>2 DEF InOnePlace, Apart
<1>3. CASE /\ cacheQueue # <<>> /\ cacheQueue' = Tail(cacheQueue)
           /\ busQueue' = busQueue \cup {Head(cacheQueue)}
  <2>1. cacheQueue \in Seq(1 .. dispatched) /\ IsInjective(cacheQueue)
    BY DEF OutOfOrderTypeOK, CacheTypes, InOnePlace
  <2>2. /\ Head(cacheQueue) \in Range(cacheQueue)
        /\ Range(cacheQueue') = Range(cacheQueue) \ {Head(cacheQueue)}
        /\ IsInjective(cacheQueue')
    BY <1>3, <2>1, PopQueue
  <2> QED BY <1>1, <1>3, <2>2 DEF InOnePlace, Apart
<1> QED BY <1>2, <1>3 DEF CacheTick, MemOpCallback

(* Results leave their units, and what gets a bus leaves everything.       *)
LEMMA OnePlaceState ==
  ASSUME OutOfOrderTypeOK, OutOfOrderTypeOK', InOnePlace, StateUpdate
  PROVE  InOnePlace'
<1>1. cdb' \subseteq busQueue \cup fu0 \cup fu1[3]
  BY DoneStateUpdate
<1>2. /\ busQueue' = (busQueue \cup fu0 \cup fu1[3]) \ cdb'
      /\ fu0' = {} /\ sche' = sche \ cdb' /\ UNCHANGED <<executed, cacheQueue>>
  BY DEF StateUpdate, cacheVars
<1>3. fu1'[1] = {} /\ fu1'[2] = fu1[1] /\ fu1'[3] = fu1[2]
  BY DEF StateUpdate
<1> QED BY <1>1, <1>2, <1>3 DEF InOnePlace, Apart

(* What p_execute hands out was nowhere before.                            *)
LEMMA OnePlaceExecute ==
  ASSUME OutOfOrderTypeOK, InOnePlace, Execute
  PROVE  InOnePlace'
<1> DEFINE Units == {t \in Issued0 : ~Mem(t)}
<1>1. /\ UNCHANGED <<sche, busQueue>>
      /\ executed' = executed \cup Issued0 \cup Issued1
      /\ fu0' = fu0 \cup Units
  BY DEF Execute
<1>2. fu1'[1] = fu1[1] \cup Issued1 /\ fu1'[2] = fu1[2] /\ fu1'[3] = fu1[3]
  BY DEF Execute, OutOfOrderTypeOK, ExecTypes
<1>3. /\ Issued0 \subseteq sche \ executed /\ Issued1 \subseteq sche \ executed
      /\ Issued0 \cap Issued1 = {}
  BY IssuedTypes DEF Ready0, Ready1, Short
<1>4. Issued0 = Units \cup MemIssued /\ Units \cap MemIssued = {}
  BY DEF MemIssued
<1> HIDE DEF Units
<1>5. Range(cacheQueue') = Range(cacheQueue) \cup MemIssued /\ IsInjective(cacheQueue')
  <2>1. PICK order \in Seq(1 .. dispatched) :
          /\ cacheQueue' = cacheQueue \o order
          /\ order \in [1 .. Cardinality(MemIssued) -> MemIssued]
          /\ \A m, n \in DOMAIN order : m < n => order[m] < order[n]
    BY MemOrder
  <2>2. MemIssued \subseteq 1 .. dispatched /\ dispatched \in Int
    BY IssuedTypes DEF OutOfOrderTypeOK, ExecTypes, FrontTypes
  <2>3. Range(order) = MemIssued /\ IsInjective(order)
    BY <2>1, <2>2, IncreasingQueue
  <2>4. cacheQueue \in Seq(1 .. dispatched) /\ IsInjective(cacheQueue)
    BY DEF OutOfOrderTypeOK, CacheTypes, InOnePlace
  <2>5. Apart(Range(cacheQueue), Range(order))
    BY <1>3, <1>4, <2>3 DEF InOnePlace, Apart
  <2> QED BY <2>1, <2>3, <2>4, <2>5, JoinQueues
<1>6. fu0' \cup fu1'[1] \cup fu1'[2] \cup fu1'[3] \cup busQueue' \cup Range(cacheQueue')
        = executed' \cap sche'
  BY <1>1, <1>2, <1>3, <1>4, <1>5 DEF InOnePlace
<1>7. /\ Apart(fu0, fu1[1]) /\ Apart(fu0, fu1[2]) /\ Apart(fu0, fu1[3])
      /\ Apart(fu0, busQueue) /\ Apart(fu0, Range(cacheQueue))
      /\ Apart(fu1[1], fu1[2]) /\ Apart(fu1[1], fu1[3])
      /\ Apart(fu1[1], busQueue) /\ Apart(fu1[1], Range(cacheQueue))
      /\ Apart(fu1[2], Range(cacheQueue))
      /\ Apart(fu1[3], Range(cacheQueue))
      /\ Apart(busQueue, Range(cacheQueue))
  BY DEF InOnePlace
<1>8. /\ fu0 \subseteq executed /\ fu1[1] \subseteq executed /\ fu1[2] \subseteq executed
      /\ fu1[3] \subseteq executed /\ busQueue \subseteq executed
      /\ Range(cacheQueue) \subseteq executed
  BY DEF InOnePlace
<1>9. /\ Apart(fu0', fu1'[1]) /\ Apart(fu0', fu1'[2]) /\ Apart(fu0', fu1'[3])
      /\ Apart(fu0', busQueue') /\ Apart(fu0', Range(cacheQueue'))
  BY <1>1, <1>2, <1>3, <1>4, <1>5, <1>7, <1>8 DEF Apart
<1>10. /\ Apart(fu1'[1], fu1'[2]) /\ Apart(fu1'[1], fu1'[3])
       /\ Apart(fu1'[1], busQueue') /\ Apart(fu1'[1], Range(cacheQueue'))
  BY <1>1, <1>2, <1>3, <1>4, <1>5, <1>7, <1>8 DEF Apart
<1>11. /\ Apart(fu1'[2], Range(cacheQueue')) /\ Apart(fu1'[3], Range(cacheQueue'))
       /\ Apart(busQueue', Range(cacheQueue'))
  BY <1>1, <1>2, <1>3, <1>4, <1>5, <1>7, <1>8 DEF Apart
<1>12. Apart(fu1'[2], fu1'[3]) /\ Apart(fu1'[2], busQueue') /\ Apart(fu1'[3], busQueue')
  BY <1>1, <1>2 DEF InOnePlace
<1> QED BY <1>5, <1>6, <1>9, <1>10, <1>11, <1>12 DEF InOnePlace

(* What p_defer dispatches has not been handed out.                        *)
LEMMA OnePlaceDefer ==
  ASSUME OutOfOrderTypeOK, InOnePlace, DeferOne
  PROVE  InOnePlace'
<1>1. UNCHANGED <<executed, fu0, fu1, busQueue, cacheQueue>>
  BY DEF DeferOne, cacheVars
<1>2. sche' = sche \cup {dispatched + 1} /\ dispatched \in Nat
  BY DeferStep
<1>3. dispatched + 1 \notin executed
  BY <1>2 DEF OutOfOrderTypeOK, ExecTypes
<1>4. executed' \cap sche' = executed \cap sche
  BY <1>1, <1>2, <1>3
<1> QED BY <1>1, <1>4 DEF InOnePlace, Apart

(* The list node of an instruction that has been handed out is known to    *)
(* one unit or queue, and p_state_update frees it when it is in none.      *)
THEOREM OnePlace == Spec => []InOnePlace
<1>1. OutOfOrderTypeOK /\ OutOfOrderTypeOK' /\ InOnePlace /\ [Next]_vars => InOnePlace'
  <2> SUFFICES ASSUME OutOfOrderTypeOK, OutOfOrderTypeOK', InOnePlace, [Next]_vars
               PROVE  InOnePlace'
    OBVIOUS
  <2>1. CASE UNCHANGED handedVars
    BY <2>1 DEF handedVars, InOnePlace, Apart
  <2> QED BY <2>1, HandedSteps, OnePlaceCache, OnePlaceState, OnePlaceExecute, OnePlaceDefer
<1> QED BY <1>1, OnePlaceInit, OutOfOrderTypes, PTL DEF Spec

(* The same, as the run checks it.                                         *)
THEOREM NobodyInTwoPlaces == Spec => []HandedOutOnce
BY OnePlace, OnePlaceIs, PTL

-----------------------------------------------------------------------------
(* Fetching is held exactly for the branch that was not predicted, which   *)
(* is the last instruction fetched.                                        *)
Resolved == \A t \in Tags : ins[t].mispredict => t \in Done

MispredictInv ==
  /\ \A t \in Tags : ins[t].mispredict => ins[t].op = "BRANCH"
  /\ \A t \in Tags : ins[t].mispredict /\ t < Len(ins) => t \in Done
  /\ unitGo <=> Resolved
  /\ fetchGo => Resolved
  /\ stage = "cache" => (fetchGo <=> unitGo)
  /\ stage # "cache" /\ fetched =>
       \A t \in Tags : ins[t].mispredict => t \in Done \/ (stage = "fetch" /\ t > dispatched)
  /\ stage = "stopped" => Resolved

LEMMA MispredictIs == MispredictInv => MispredictHoldsFetch
BY DEF MispredictInv, MispredictHoldsFetch, Resolved

LEMMA MispredictInit == Init => MispredictInv
<1> SUFFICES ASSUME Init PROVE MispredictInv
  OBVIOUS
<1>1. Tags = {} /\ stage = "cache" /\ fetchGo = TRUE /\ unitGo = TRUE
  BY DEF Init, Tags
<1> QED BY <1>1 DEF MispredictInv, Resolved

(* A tick begins with fetching held or everything resolved.                *)
LEMMA MispredictCache ==
  ASSUME OutOfOrderTypeOK, OutOfOrderTypeOK', MispredictInv, CacheTick
  PROVE  MispredictInv'
<1>1. /\ UNCHANGED <<ins, dispatched, sche, fetchGo, unitGo>>
      /\ stage = "cache" /\ stage' = "reserve" /\ fetched' = fetchGo
  BY DEF CacheTick
<1>2. Done' = Done /\ Tags' = Tags /\ Resolved' = Resolved
  BY <1>1, DoneUnchanged DEF Tags, Resolved
<1> QED BY <1>1, <1>2 DEF MispredictInv, Resolved

(* A branch that was waited for and is now on a bus was the only one.      *)
LEMMA MispredictState ==
  ASSUME OutOfOrderTypeOK, OutOfOrderTypeOK', InOnePlace, MispredictInv, StateUpdate
  PROVE  MispredictInv'
<1>1. /\ UNCHANGED <<ins, dispatched, fetchGo, fetched>>
      /\ stage = "state" /\ stage' = "registers"
      /\ unitGo' = (unitGo \/ \E t \in cdb' : Resolves(t))
  BY DEF StateUpdate
<1>2. /\ Done' = Done \cup cdb' /\ cdb' \subseteq busQueue \cup fu0 \cup fu1[3]
      /\ cdb' \subseteq 1 .. dispatched
  BY DoneStateUpdate
<1>3. Tags' = Tags /\ cdb' \subseteq Tags
  BY <1>1, <1>2 DEF Tags, OutOfOrderTypeOK, FrontTypes
<1>4. cdb' \cap Done = {}
  <2>1. cdb' \subseteq sche
    BY <1>2 DEF InOnePlace
  <2> QED BY <2>1, DoneIs
<1>5. unitGo' <=> Resolved'
  <2>1. Resolved => Resolved'
    BY <1>1, <1>2, <1>3 DEF Resolved
  <2>2. ASSUME NEW t \in cdb', Resolves(t) PROVE Resolved'
    <3>1. t \in Tags /\ ins[t].mispredict /\ t \notin Done
      BY <1>3, <1>4, <2>2 DEF Resolves
    <3>2. \A u \in Tags : u < Len(ins) \/ u = Len(ins)
      BY DEF Tags, OutOfOrderTypeOK, FrontTypes
    <3>3. t = Len(ins)
      BY <3>1, <3>2 DEF MispredictInv
    <3>4. \A u \in Tags : ins[u].mispredict => u \in Done \/ u = t
      BY <3>2, <3>3 DEF MispredictInv
    <3> QED BY <1>1, <1>2, <1>3, <3>4 DEF Resolved
  <2>3. ASSUME Resolved', ~Resolved PROVE \E t \in cdb' : Resolves(t)
    <3>1. PICK t \in Tags : ins[t].mispredict /\ t \notin Done
      BY <2>3 DEF Resolved
    <3>2. t \in cdb'
      BY <1>1, <1>2, <1>3, <2>3, <3>1 DEF Resolved
    <3> QED BY <3>1, <3>2 DEF MispredictInv, Resolves
  <2> QED BY <1>1, <2>1, <2>2, <2>3 DEF MispredictInv
<1>6. fetchGo' => Resolved'
  BY <1>1, <1>2, <1>3 DEF MispredictInv, Resolved
<1> QED BY <1>1, <1>2, <1>3, <1>5, <1>6 DEF MispredictInv

(* p_defer resolves nothing.                                               *)
LEMMA MispredictDefer ==
  ASSUME OutOfOrderTypeOK, OutOfOrderTypeOK', MispredictInv, DeferOne
  PROVE  MispredictInv'
<1>1. UNCHANGED <<ins, stage, fetchGo, unitGo, fetched>> /\ stage = "defer"
  BY DEF DeferOne, frontVars
<1>2. Done' = Done /\ Tags' = Tags /\ Resolved' = Resolved
  BY <1>1, DoneDeferOne DEF Tags, Resolved
<1> QED BY <1>1, <1>2 DEF MispredictInv

(* A branch is fetched only when all others are resolved.                  *)
LEMMA MispredictFetch ==
  ASSUME OutOfOrderTypeOK, OutOfOrderTypeOK', MispredictInv,
         NEW o \in Op, NEW mispredict \in BOOLEAN, mispredict => o.op = "BRANCH",
         Fetch(o, mispredict)
  PROVE  MispredictInv'
<1> DEFINE t == Len(ins) + 1
<1>1. /\ Len(ins) \in Nat /\ Len(ins') = t /\ \A u \in 1 .. Len(ins) : ins'[u] = ins[u]
      /\ ins'[t].mispredict = mispredict /\ ins'[t].op = o.op
  BY FetchStep
<1>2. /\ UNCHANGED <<stage, dispatched, sche, fetched>> /\ stage = "fetch" /\ fetchGo
  BY DEF Fetch, execVars
<1>3. Done' = Done
  BY <1>2, DoneUnchanged
<1>4. Tags' = Tags \cup {t} /\ \A u \in Tags : u < t
  BY <1>1 DEF Tags
<1>5. t > dispatched /\ t \notin Done
  BY <1>1, DoneIs DEF OutOfOrderTypeOK, FrontTypes
<1>6. IF o.op = "BRANCH" THEN fetchGo' = ~mispredict /\ unitGo' = ~mispredict
                         ELSE UNCHANGED <<fetchGo, unitGo>>
  BY DEF Fetch
<1> HIDE DEF t
<1>7. Resolved
  BY <1>2 DEF MispredictInv
<1>8. Resolved' <=> ~mispredict
  BY <1>1, <1>3, <1>4, <1>5, <1>7 DEF Resolved, Tags
<1>9. fetchGo' = unitGo' /\ (unitGo' <=> ~mispredict)
  BY <1>2, <1>6, <1>7 DEF MispredictInv, OutOfOrderTypeOK, FrontTypes
<1>10. /\ \A u \in Tags' : ins'[u].mispredict => ins'[u].op = "BRANCH"
       /\ \A u \in Tags' : ins'[u].mispredict /\ u < Len(ins') => u \in Done'
       /\ \A u \in Tags' : ins'[u].mispredict => u \in Done' \/ u > dispatched'
  <2>1. \A u \in Tags : ins'[u] = ins[u]
    BY <1>1 DEF Tags
  <2>2. \A u \in Tags : ins[u].mispredict => ins[u].op = "BRANCH" /\ u \in Done
    BY <1>7 DEF MispredictInv, Resolved
  <2>3. t = Len(ins') /\ ~(t < t)
    BY <1>1 DEF t
  <2> QED BY <1>1, <1>2, <1>3, <1>4, <1>5, <2>1, <2>2, <2>3
<1> QED BY <1>2, <1>8, <1>9, <1>10 DEF MispredictInv

(* The engine does not stop with a branch to wait for.                     *)
LEMMA MispredictEnd ==
  ASSUME OutOfOrderTypeOK, OutOfOrderTypeOK', MispredictInv, EndTick
  PROVE  MispredictInv'
<1>1. /\ UNCHANGED <<ins, dispatched, sche, unitGo, fetched>> /\ fetchGo' = unitGo
      /\ stage = "fetch"
      /\ stage' = IF Tags \subseteq Updated /\ fetched THEN "stopped" ELSE "cache"
  BY DEF EndTick, execVars
<1>2. Done' = Done /\ Tags' = Tags /\ Resolved' = Resolved
  BY <1>1, DoneUnchanged DEF Tags, Resolved
<1>3. Tags \subseteq Updated /\ fetched => Resolved
  <2> SUFFICES ASSUME Tags \subseteq Updated, fetched, NEW t \in Tags, ins[t].mispredict
               PROVE  t \in Done
    BY DEF Resolved
  <2>1. t \in Done \/ t > dispatched
    BY <1>1 DEF MispredictInv
  <2>2. t \in 1 .. dispatched
    BY DoneIs DEF Updated, OutOfOrderTypeOK, ExecTypes
  <2> QED BY <2>1, <2>2 DEF OutOfOrderTypeOK, FrontTypes
<1> QED BY <1>1, <1>2, <1>3 DEF MispredictInv, Resolved

(* The other functions leave branches, results and flags alone.            *)
LEMMA MispredictOthers ==
  ASSUME OutOfOrderTypeOK, OutOfOrderTypeOK', MispredictInv,
         \/ DispatchReserve \/ RegisterUpdate \/ Execute \/ SqUpdate \/ ScheQUpdate
         \/ DeferEnd \/ FetchNothing \/ UNCHANGED vars
  PROVE  MispredictInv'
<1>1. /\ UNCHANGED <<ins, dispatched, sche, fetchGo, unitGo, fetched>>
      /\ \/ stage' = stage
         \/ /\ {stage, stage'} \cap {"cache", "stopped"} = {}
            /\ stage # "fetch"
  BY DEF vars, frontVars, execVars, DispatchReserve, RegisterUpdate, Execute, SqUpdate,
         ScheQUpdate, DeferEnd, FetchNothing
<1>2. Done' = Done /\ Tags' = Tags /\ Resolved' = Resolved
  BY <1>1, DoneUnchanged DEF Tags, Resolved
<1> QED BY <1>1, <1>2 DEF MispredictInv

(* A branch that was not predicted stops fetching until its result is on a *)
(* bus, and no longer, and the engine waits for it.                        *)
THEOREM MispredictHolds == Spec => []MispredictHoldsFetch
<1>1. OutOfOrderTypeOK /\ OutOfOrderTypeOK' /\ InOnePlace /\ MispredictInv /\ [Next]_vars
      => MispredictInv'
  <2> SUFFICES ASSUME OutOfOrderTypeOK, OutOfOrderTypeOK', InOnePlace, MispredictInv, [Next]_vars
               PROVE  MispredictInv'
    OBVIOUS
  <2>1. CASE \E o \in Op, mispredict \in BOOLEAN :
               (mispredict => o.op = "BRANCH") /\ Fetch(o, mispredict)
    BY <2>1, MispredictFetch
  <2> QED BY <2>1, MispredictCache, MispredictState, MispredictDefer, MispredictEnd,
             MispredictOthers DEF Next, Stopped
<1> QED BY <1>1, MispredictInit, MispredictIs, OutOfOrderTypes, OnePlace, PTL DEF Spec
=============================================================================
