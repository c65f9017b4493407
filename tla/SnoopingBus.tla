---------------------------- MODULE SnoopingBus -----------------------------
(***************************************************************************)
(* The bus of interconnect/interconnect.c, with the snooping caches of     *)
(* coherence_impl_final/ on it.  One request at a time owns the bus: after *)
(* CACHE_DELAY ticks it is broadcast to the other caches, then it waits    *)
(* for memory (BUS_TIME) or for the cache that supplies the line           *)
(* (CACHE_TRANSFER), and then its processor gets the answer and the bus is *)
(* free.  Requests that come meanwhile wait in one slot per processor.     *)
(*                                                                         *)
(* The two components do not link at this commit: the bus calls cacheReq   *)
(* with four arguments, the protocols call busReq with three and register  *)
(* busReq.  Here the bus calls the coherence component's busReq, and the   *)
(* arguments one side does not know are dropped.  An assert that fails     *)
(* stops the model, as it does a program built without NDEBUG.             *)
(*                                                                         *)
(* The processors are those of processor/ behind simpleCache/: each has at *)
(* most one memory operation under way.                                    *)
(***************************************************************************)
EXTENDS SnoopProtocol, FiniteSets

CONSTANTS
  N,              \* processorCount
  Line,           \* the blocks that are accessed
  Accesses,       \* the operations of the traces: <<processor, isRead, line>>
  Schemes,        \* the values of option -s that are looked at
  CacheDelay, CacheTransfer, BusTime,   \* 10, 10 and 90 in the code
  None            \* no request: NULL

ASSUME CountAssumption  == N \in Nat \ {0}
ASSUME SchemeAssumption == Schemes \subseteq Scheme
ASSUME DelayAssumption  == {CacheDelay, CacheTransfer, BusTime} \subseteq Nat \ {0}

Proc == 0 .. N - 1

ASSUME AccessAssumption == Accesses \subseteq Proc \X BOOLEAN \X Line

BusReqSet ==
  [brt : Request \cup {"DATA"}, at : {"WAITING_CACHE", "WAITING_MEMORY", "TRANSFERING"},
   addr : Line, proc : Proc, shared : BOOLEAN]
QueuedSet == [brt : Request, addr : Line]

ASSUME NoneAssumption == None \notin BusReqSet \cup QueuedSet \cup Line

VARIABLES
  cs,          \* the coherence scheme, fixed at the start
  state,       \* coherStates: state[p][l]
  pending,     \* pendingRequest
  queued,      \* queuedRequests
  countDown,
  lastProc,
  pendReq,     \* simpleCache: the line processor p waits for, or None
  readyReq,    \* simpleCache: the processors to be called back in this tick
  halted       \* an assert of the C code has failed

busVars   == <<pending, queued, countDown, lastProc>>
cacheVars == <<pendReq, readyReq>>
vars      == <<cs, state, busVars, cacheVars, halted>>

Init ==
  /\ cs \in Schemes
  /\ state = [p \in Proc |-> [l \in Line |-> "INVALID"]]
  /\ pending = None
  /\ queued = [p \in Proc |-> None]
  /\ countDown = 0
  /\ lastProc = 0
  /\ pendReq = [p \in Proc |-> None]
  /\ readyReq = {}
  /\ halted = FALSE

(* pendingMem of the processor: its last operation is not over yet.        *)
Stalled(p) == pendReq[p] # None \/ p \in readyReq

-----------------------------------------------------------------------------
(* busReq of the bus, called with a BUSRD or a BUSWR.                      *)
Own(brt, l, p) ==
  [brt |-> brt, at |-> "WAITING_CACHE", addr |-> l, proc |-> p, shared |-> FALSE]

BusReq(sends, l, p) ==
  \/ /\ sends = {}
     /\ UNCHANGED <<pending, queued, countDown, halted>>
  \/ \E brt \in sends :
       /\ pending = None
       /\ pending' = Own(brt, l, p)
       /\ countDown' = CacheDelay
       /\ UNCHANGED <<queued, halted>>
  \/ \E brt \in sends :
       /\ pending # None
       /\ queued' = [queued EXCEPT ![p] = [brt |-> brt, addr |-> l]]
       /\ halted' = (queued[p] # None)
       /\ UNCHANGED <<pending, countDown>>

(* memoryRequest of the cache: permReq, which may use the bus, and a       *)
(* callback in the next tick or when the bus has answered.                 *)
MemoryRequest(p, isRead, l) ==
  LET r == cacheAction(cs, isRead, state[p][l]) IN
  /\ ~halted
  /\ ~Stalled(p)
  /\ state' = [state EXCEPT ![p][l] = r.next]
  /\ BusReq(r.sends, l, p)
  /\ IF r.perm THEN readyReq' = readyReq \cup {p} /\ UNCHANGED pendReq
               ELSE pendReq' = [pendReq EXCEPT ![p] = l] /\ UNCHANGED readyReq
  /\ UNCHANGED <<cs, lastProc>>

-----------------------------------------------------------------------------
(* The tick of the cache: the bus ticks, then the callbacks run.           *)
Callbacks == readyReq' = {}

(* The countdown goes on.                                                  *)
TickCount ==
  /\ ~halted
  /\ countDown > 1
  /\ countDown' = countDown - 1
  /\ Callbacks
  /\ UNCHANGED <<cs, state, pending, queued, lastProc, pendReq, halted>>

(* The request is shown to the other caches, one after another.  A second  *)
(* cache that sends data finds the request no longer waiting for memory.   *)
Snoop(p) == snoopAction(cs, pending.brt, state[p][pending.addr])
Others   == Proc \ {pending.proc}
Repliers(reply) == {p \in Others : reply \in Snoop(p).sends}

Shown ==
  [brt  |-> IF Repliers("DATA") = {} THEN pending.brt ELSE "DATA",
   at   |-> IF Repliers("DATA") = {} THEN "WAITING_MEMORY" ELSE "TRANSFERING",
   addr |-> pending.addr, proc |-> pending.proc, shared |-> Repliers("SHARED") # {}]

TickBroadcast ==
  /\ ~halted
  /\ countDown = 1
  /\ pending.at = "WAITING_CACHE"
  /\ state' = [p \in Proc |->
                 IF p \in Others THEN [state[p] EXCEPT ![pending.addr] = Snoop(p).next]
                                 ELSE state[p]]
  /\ pending' = Shown
  /\ countDown' = IF Repliers("DATA") = {} THEN BusTime ELSE CacheTransfer
  /\ halted' = (\E p, q \in Repliers("DATA") : p # q)
  /\ Callbacks
  /\ UNCHANGED <<cs, queued, lastProc, pendReq>>

(* Memory or the other cache has delivered: the requester gets its answer, *)
(* its cache calls it back, and the bus is free.                           *)
TickAnswer ==
  LET p == pending.proc
      l == pending.addr
      r == snoopAction(cs, IF pending.shared THEN "SHARED" ELSE "DATA", state[p][l])
  IN
  /\ ~halted
  /\ countDown = 1
  /\ pending.at \in {"WAITING_MEMORY", "TRANSFERING"}
  /\ state' = [state EXCEPT ![p][l] = r.next]
  /\ pendReq' = [pendReq EXCEPT ![p] = IF r.received /\ @ = l THEN None ELSE @]
  /\ halted' = (r.received /\ pendReq[p] # l)
  /\ pending' = None
  /\ countDown' = 0
  /\ Callbacks
  /\ UNCHANGED <<cs, queued, lastProc>>

(* The free bus goes to the next waiting processor, from lastProc on.      *)
Distance(p) == (p + N - lastProc) % N
IsNext(p)   == queued[p] # None /\ \A q \in Proc : queued[q] # None => Distance(p) <= Distance(q)

(* Mutants: the turn stays with the processor served; it passes beyond the *)
(* last one.                                                               *)
TickGrantSame ==
  /\ ~halted
  /\ countDown = 0
  /\ \E p \in Proc :
       /\ IsNext(p)
       /\ pending' = Own(queued[p].brt, queued[p].addr, p)
       /\ queued' = [queued EXCEPT ![p] = None]
       /\ lastProc' = p
  /\ countDown' = CacheDelay
  /\ Callbacks
  /\ UNCHANGED <<cs, state, pendReq, halted>>

TickGrantBeyond ==
  /\ ~halted
  /\ countDown = 0
  /\ \E p \in Proc :
       /\ IsNext(p)
       /\ pending' = Own(queued[p].brt, queued[p].addr, p)
       /\ queued' = [queued EXCEPT ![p] = None]
       /\ lastProc' = p + 1
  /\ countDown' = CacheDelay
  /\ Callbacks
  /\ UNCHANGED <<cs, state, pendReq, halted>>

TickGrant ==
  /\ ~halted
  /\ countDown = 0
  /\ \E p \in Proc :
       /\ IsNext(p)
       /\ pending' = Own(queued[p].brt, queued[p].addr, p)
       /\ queued' = [queued EXCEPT ![p] = None]
       /\ lastProc' = (p + 1) % N
  /\ countDown' = CacheDelay
  /\ Callbacks
  /\ UNCHANGED <<cs, state, pendReq, halted>>

TickIdle ==
  /\ ~halted
  /\ countDown = 0
  /\ \A p \in Proc : queued[p] = None
  /\ Callbacks
  /\ UNCHANGED <<cs, state, busVars, pendReq, halted>>

Tick == TickCount \/ TickBroadcast \/ TickAnswer \/ TickGrant \/ TickIdle

(* A failed assert (interconnect.c:106, 116) ends the run of the model.    *)
(* The build defines NDEBUG (src/CMakeLists.txt:4), so the program goes on *)
(* with what it has overwritten; nothing is said of what follows.          *)
Aborted == halted /\ UNCHANGED vars

Next ==
  \/ \E a \in Accesses : MemoryRequest(a[1], a[2], a[3])
  \/ TickCount \/ TickBroadcast \/ TickAnswer \/ TickGrant \/ TickIdle
  \/ Aborted

Spec == Init /\ [][Next]_vars

(* The engine ticks on while a processor waits.                            *)
FairSpec == Spec /\ WF_vars(Tick)

-----------------------------------------------------------------------------
TypeOK ==
  /\ cs \in Schemes
  /\ state \in [Proc -> [Line -> State]]
  /\ pending \in BusReqSet \cup {None}
  /\ queued \in [Proc -> QueuedSet \cup {None}]
  /\ countDown \in Nat
  /\ lastProc \in Proc
  /\ pendReq \in [Proc -> Line \cup {None}]
  /\ readyReq \subseteq Proc
  /\ halted \in BOOLEAN

(* A line that waits for an upgrade permits nothing: the code keeps it     *)
(* SHARED_MODIFIED when another write comes first.                         *)
Copy(s) == s \in Stable \ {"INVALID"}

(* No two caches believe they may write a line without asking, under any   *)
(* of the schemes, whatever is queued or half done.                        *)
Owner(s) == s \in {"MODIFIED", "EXCLUSIVE"}

OneOwner ==
  \A l \in Line : \A p, q \in Proc :
    Owner(state[p][l]) /\ Owner(state[q][l]) => p = q

(* The comments at indicateShared say it is needed for the E state: a      *)
(* cache that has a copy must keep the next reader from taking the line    *)
(* exclusively.                                                            *)
ExclusiveIsAlone ==
  ~halted =>
    \A l \in Line : \A p, q \in Proc :
      p # q /\ state[p][l] = "EXCLUSIVE" => ~Copy(state[q][l])

(* A line between two states stands for one request, on the bus or in its  *)
(* processor's slot, that its processor waits for; nothing else is on the  *)
(* bus or in a slot.  So an answer never comes to a line that waits for    *)
(* nothing, and no miss is forgotten.                                      *)
OnBus(p, l)    == pending # None /\ pending.proc = p /\ pending.addr = l
InSlot(p, l)   == queued[p] # None /\ queued[p].addr = l

WaitersHaveOneRequest ==
  \A p \in Proc, l \in Line :
    /\ state[p][l] \in Waiting <=> pendReq[p] = l
    /\ pendReq[p] = l <=> OnBus(p, l) \/ InSlot(p, l)
    /\ ~(OnBus(p, l) /\ InSlot(p, l))

(* No assert fails: no second request of a processor, no second cache that *)
(* supplies a line, no callback nobody waits for.                          *)
AssertsHold == cs \in {"MI", "MSI", "MESI"} => ~halted

(* The countdown runs exactly while a request owns the bus; tick asserts   *)
(* one direction and overwrites a request without the other.               *)
BusyWhileCounting == (countDown > 0) <=> (pending # None)

(* Round robin: when a waiting processor is served, every other one that   *)
(* waits moves closer to its turn.  (A processor that finds the bus free   *)
(* takes it without queueing.)                                             *)
RoundRobin ==
  [][\A p, q \in Proc :
       (/\ queued[p] # None /\ queued'[p] = None
        /\ queued[q] # None /\ queued'[q] # None)
         => Distance(q)' < Distance(q)]_vars

(* Whoever owns the bus gets its answer and goes on.                       *)
BusOwnerGoesOn ==
  \A p \in Proc : (pending # None /\ pending.proc = p) ~> (~Stalled(p) \/ halted)

(* The permissions the caches hand out implement readers and writers in MI *)
(* and MSI.  In the others an owner can have readers beside it (see        *)
(* ExclusiveIsAlone), and nothing is claimed of them.                      *)
Coherent == {"MI", "MSI"}

Permission(s) ==
  IF s = "MODIFIED" THEN "write" ELSE IF s = "SHARED_STATE" THEN "read" ELSE "none"

Granted == [l \in Line |-> [p \in Proc |->
              IF cs \in Coherent THEN Permission(state[p][l]) ELSE "none"]]

RW == INSTANCE ReadersWriters WITH mode <- Granted

ImplementsReadersWriters == RW!Spec

=============================================================================
