------------------------------ MODULE Crossbar ------------------------------
(***************************************************************************)
(* The interconnect with network_type CROSSBAR, the one interconnect.c is  *)
(* compiled with: a link from every node to every other.  A packet leaves  *)
(* its node for the link to its destination; of the links that hold a      *)
(* packet for a node, a random one gets the node's slot at each tick, and  *)
(* the others wait on their links.                                         *)
(***************************************************************************)
EXTENDS Endpoints

CONSTANT MaxQueue  \* bound: how many packets the environment queues at a node

VARIABLE link      \* link[i][d]: the packet on the link from node i to node d

crossbarVars == <<queue, countDown, node, phase, link>>

CrossbarInit ==
  /\ EndpointsInit
  /\ link = [i \in Proc |-> [d \in Proc |-> NoPacket]]

(* route(): the link to the destination, none for a node's own packet.     *)
Routed(i) == node[i] # NoPacket /\ node[i].dest # i

(* update(), first loop: every routed packet goes to its link; whatever    *)
(* the link still held is replaced, for its busy flag is not looked at.    *)
Moved(i, d) == IF Routed(i) /\ node[i].dest = d THEN node[i] ELSE link[i][d]

(* The nodes whose link to d holds a packet after that.                    *)
Candidates(d) == {i \in Proc : Moved(i, d) # NoPacket}

(* A node is given a packet when it is empty: when it has kept none.       *)
Kept(i) == node[i] # NoPacket /\ ~Routed(i)
Served == {d \in Proc : Candidates(d) # {} /\ ~Kept(d)}

(* update(), second loop: a winner for every node that can take a packet.  *)
Update ==
  /\ phase = "loaded"
  /\ phase' = "delivering"
  /\ \E winner \in [Served -> Proc] :
       /\ \A d \in Served : winner[d] \in Candidates(d)
       /\ node' = [d \in Proc |-> IF d \in Served THEN Moved(winner[d], d)
                                  ELSE IF Kept(d) THEN node[d]
                                  ELSE NoPacket]
       /\ link' = [i \in Proc |-> [d \in Proc |->
                     IF d \in Served /\ winner[d] = i THEN NoPacket ELSE Moved(i, d)]]
  /\ UNCHANGED <<queue, countDown>>

-----------------------------------------------------------------------------
(* The crossbar by itself: any node may hand over any packet between two   *)
(* ticks or in answer to a delivery.                                       *)
Request(i, o) ==
  /\ phase \in {"idle", "delivering"}
  /\ Len(queue[i]) < MaxQueue
  /\ BusReq(i, <<o>>)
  /\ UNCHANGED <<node, phase, link>>

TickLoad   == Load /\ UNCHANGED link
TickDeliver(i) == Take(i) /\ UNCHANGED <<queue, countDown, link>>
TickEnd    == EndTick /\ UNCHANGED link

CrossbarNext ==
  \/ \E i \in Proc, o \in Packet : Request(i, o)
  \/ TickLoad
  \/ Update
  \/ \E i \in Proc : TickDeliver(i)
  \/ TickEnd

CrossbarSpec == CrossbarInit /\ [][CrossbarNext]_crossbarVars

-----------------------------------------------------------------------------
Slot == Packet \cup {NoPacket}

(* Types of the network's state.                                           *)
CrossbarTypeOK ==
  /\ queue \in [Proc -> Seq(Packet)]
  /\ countDown \in [Proc -> Int]
  /\ node \in [Proc -> Slot]
  /\ phase \in Phase
  /\ link \in [Proc -> [Proc -> Slot]]

(* A packet that enters a link finds it empty, so none is lost.  Nothing   *)
(* in the code tests it: it is the delay between two packets of a node     *)
(* that leaves the other nodes' packets time to be served.                 *)
NoOverwrite ==
  phase = "loaded" => \A i \in Proc : Routed(i) => link[i][node[i].dest] = NoPacket

(* A node is free when tick() wants to load it: the countdown never runs   *)
(* out on a busy node, which would leave its queue asleep until the next   *)
(* busReq.                                                                 *)
NodeFreeAtLoad == phase = "idle" => \A i \in Proc : node[i] = NoPacket

(* No queue falls asleep: a node that has packets queued is counting down  *)
(* to the next load.                                                       *)
NoSleepingQueue == \A i \in Proc : queue[i] # <<>> => countDown[i] > 0

(* Packets wait on links only for their destination, and are delivered to  *)
(* no other node.                                                          *)
LinksLeadToDestination ==
  /\ \A i, d \in Proc : link[i][d] # NoPacket => i # d /\ link[i][d].dest = d
  /\ phase = "delivering" => \A d \in Proc : node[d] # NoPacket => Arrived(d)

-----------------------------------------------------------------------------
(* The crossbar as the ideal network: what is queued, loaded or on a link  *)
(* is on its way.                                                          *)
Places ==
  LET queued == UNION {{<<i, "queue", n>> : n \in DOMAIN queue[i]} : i \in Proc}
  IN  queued \cup {<<i, "node", i>> : i \in Proc}
             \cup {<<i, "link", d>> : i \in Proc, d \in Proc}

Content(pl) ==
  CASE pl[2] = "queue" -> queue[pl[1]][pl[3]]
    [] pl[2] = "node"  -> node[pl[1]]
    [] pl[2] = "link"  -> link[pl[1]][pl[3]]

InTransit ==
  LET used == {pl \in Places : Content(pl) # NoPacket}
  IN  [o \in {Content(pl) : pl \in used} |-> Cardinality({pl \in used : Content(pl) = o})]

Ideal == INSTANCE Network WITH net <- InTransit

IsIdealNetwork == Ideal!NetSpec

=============================================================================
