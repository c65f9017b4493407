----------------------------- MODULE Endpoints ------------------------------
(***************************************************************************)
(* The endpoints of the simulated interconnect (interconnect_impl/): per   *)
(* processor a queue of packets handed over by busReq, a countdown between *)
(* two packets, and the slot of its network node.  What happens to a       *)
(* packet between two nodes is update() in interconnect_internal.c and     *)
(* depends on the topology: see Crossbar.                                  *)
(*                                                                         *)
(* One tick() is three steps, told apart by phase because packets can be   *)
(* handed over during the third: the nodes load from the queues, update()  *)
(* moves the packets, the nodes deliver.                                   *)
(***************************************************************************)
EXTENDS Naturals, Integers, Sequences, FiniteSets

CONSTANTS
  Proc,           \* the processors, one node each
  Packet,         \* ic_req: a record with at least the field dest
  NoPacket,       \* an empty slot: curr_packet = NULL
  InterDelay,     \* INTER_DELAY, 10 in the code
  StaleCountDown  \* what malloc may leave in the countDown new_Q never sets

ASSUME NodesAssumption == IsFiniteSet(Proc)
ASSUME DelayAssumption == InterDelay \in Nat \ {0}
ASSUME StaleAssumption == StaleCountDown \subseteq Int /\ StaleCountDown # {}
ASSUME PacketAssumption == NoPacket \notin Packet /\ \A o \in Packet : o.dest \in Proc

VARIABLES
  queue,      \* pending[i]->q
  countDown,  \* pending[i]->countDown
  node,       \* network->nodes[i].curr_packet; busy is node[i] # NoPacket
  phase       \* where tick() is

endpointVars == <<queue, countDown, node, phase>>

Phase == {"idle", "loaded", "delivering"}

EndpointsInit ==
  /\ queue = [i \in Proc |-> <<>>]
  /\ countDown \in [Proc -> StaleCountDown]
  /\ node = [i \in Proc |-> NoPacket]
  /\ phase = "idle"

(* Mutants: a node has room for one request, the next one replaces it; the *)
(* request is queued before it is filled in.                               *)
BusReqReplaces(i, outs) ==
  /\ queue' = IF outs = <<>> THEN queue ELSE [queue EXCEPT ![i] = outs]
  /\ countDown' = IF outs = <<>> THEN countDown ELSE [countDown EXCEPT ![i] = InterDelay]

BusReqUnset(i, outs) ==
  /\ queue' = [queue EXCEPT ![i] = @ \o [n \in DOMAIN outs |-> NoPacket]]
  /\ countDown' = IF outs = <<>> THEN countDown ELSE [countDown EXCEPT ![i] = InterDelay]

(* busReq, called once per packet of outs by node i: between two ticks or  *)
(* from a handler that a delivery calls.  Each call starts the countdown   *)
(* anew.                                                                   *)
BusReq(i, outs) ==
  /\ queue' = [queue EXCEPT ![i] = @ \o outs]
  /\ countDown' = IF outs = <<>> THEN countDown ELSE [countDown EXCEPT ![i] = InterDelay]

(* The first loop of tick(): a node whose countdown runs out takes the     *)
(* head of its queue, if it has one and the node is free.                  *)
Loads(i) == countDown[i] = 1 /\ node[i] = NoPacket /\ queue[i] # <<>>

(* Mutants: the countdown is not started anew for the next packet; it is   *)
(* one tick short.                                                         *)
LoadWith(restart) ==
  /\ phase = "idle"
  /\ phase' = "loaded"
  /\ node'  = [i \in Proc |-> IF Loads(i) THEN Head(queue[i]) ELSE node[i]]
  /\ queue' = [i \in Proc |-> IF Loads(i) THEN Tail(queue[i]) ELSE queue[i]]
  /\ countDown' = [i \in Proc |-> IF Loads(i) THEN restart
                                  ELSE IF countDown[i] > 0 THEN countDown[i] - 1
                                  ELSE countDown[i]]
LoadOnce  == LoadWith(0)
LoadEarly == LoadWith(InterDelay - 1)

Load ==
  /\ phase = "idle"
  /\ phase' = "loaded"
  /\ node'  = [i \in Proc |-> IF Loads(i) THEN Head(queue[i]) ELSE node[i]]
  /\ queue' = [i \in Proc |-> IF Loads(i) THEN Tail(queue[i]) ELSE queue[i]]
  /\ countDown' = [i \in Proc |-> IF Loads(i) THEN InterDelay
                                  ELSE IF countDown[i] > 0 THEN countDown[i] - 1
                                  ELSE countDown[i]]

(* The last loop of tick(): a node that holds a packet for itself hands it *)
(* to cacheReq and is free again.                                          *)
Arrived(i) == node[i] # NoPacket /\ node[i].dest = i

Take(i) ==
  /\ phase = "delivering"
  /\ Arrived(i)
  /\ node' = [node EXCEPT ![i] = NoPacket]
  /\ UNCHANGED phase

EndTick ==
  /\ phase = "delivering"
  /\ \A i \in Proc : ~Arrived(i)
  /\ phase' = "idle"
  /\ UNCHANGED <<queue, countDown, node>>

=============================================================================
