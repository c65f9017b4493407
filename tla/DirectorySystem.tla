-------------------------- MODULE DirectorySystem ---------------------------
(***************************************************************************)
(* The simulated machine of ex_direc.config: the nodes of CoherenceNodes   *)
(* on the crossbar of Crossbar, tick by tick.  A tick of the processors    *)
(* ticks the cache, which ticks the coherence component, which ticks the   *)
(* interconnect: the nodes load, update() moves, every arrived packet is   *)
(* handled by cacheReq (which may queue new ones), and when all are, the   *)
(* cache runs its callbacks; then the processors issue.                    *)
(***************************************************************************)
EXTENDS CoherenceNodes

CONSTANTS
  InterDelay,      \* INTER_DELAY
  NoPacket,        \* an empty slot of the network
  StaleCountDown,  \* what malloc may leave in a countDown
  MaxPackets       \* bound: no new miss while this many packets travel

VARIABLES queue, countDown, node, phase, link

PacketSet == [dest : Proc, msg : Message]

ASSUME DelayAssumption == InterDelay \in Nat \ {0}
ASSUME StaleAssumption == StaleCountDown \subseteq Int /\ StaleCountDown # {}
ASSUME NoPacketAssumption == NoPacket \notin PacketSet
ASSUME MaxPacketsAssumption == MaxPackets \in Nat

IC == INSTANCE Crossbar WITH Packet <- PacketSet, MaxQueue <- MaxPackets

vars == <<nodeVars, queue, countDown, node, phase, link>>

Init == NodesInit /\ IC!CrossbarInit

-----------------------------------------------------------------------------
Travelling == Cardinality({pl \in IC!Places : IC!Content(pl) # NoPacket})

(* The loop over the processors, after the cache's tick.                   *)
Issue(p, isRead, l) ==
  /\ phase = "idle"
  /\ MemoryRequest(p, isRead, l)
  /\ MemoryRequestSends(p, isRead, l) # <<>> => Travelling < MaxPackets
  /\ IC!BusReq(p, MemoryRequestSends(p, isRead, l))
  /\ UNCHANGED <<node, phase, link>>

Load   == IC!TickLoad /\ UNCHANGED nodeVars
Update == IC!Update /\ UNCHANGED nodeVars

(* A node takes its packet; what the handlers send is queued at the node.  *)
Receive(d) ==
  /\ IC!Take(d)
  /\ CacheReq(d, node[d].msg)
  /\ IC!BusReq(d, CacheReqSends(d, node[d].msg))
  /\ UNCHANGED link

Complete == IC!EndTick /\ RunCallbacks /\ UNCHANGED link

Next ==
  \/ \E p \in Proc, isRead \in BOOLEAN, l \in Line : Issue(p, isRead, l)
  \/ Load
  \/ Update
  \/ \E d \in Proc : Receive(d)
  \/ Complete

(* The engine calls tick() again as long as a processor makes progress,    *)
(* and one that waits for memory counts as that.                           *)
Fairness ==
  /\ WF_vars(Load)
  /\ WF_vars(Update)
  /\ \A d \in Proc : WF_vars(Receive(d))
  /\ WF_vars(Complete)

Spec     == Init /\ [][Next]_vars
FairSpec == Spec /\ Fairness

-----------------------------------------------------------------------------
(* Seen from the nodes, the ticks of the crossbar are an ideal network:    *)
(* every step is one of DirectoryCoherence or does not concern the nodes.  *)
Abstract == INSTANCE DirectoryCoherence WITH net <- IC!InTransit

ImplementsCoherence == Abstract!Spec

(* A home that is asked again before its countdown has run out starts it   *)
(* anew; even so every operation of every processor completes.             *)
EveryOperationCompletes == \A p \in Proc : pendingMem[p] ~> ~pendingMem[p]

=============================================================================
