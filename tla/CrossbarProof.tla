--------------------------- MODULE CrossbarProof ----------------------------
(***************************************************************************)
(* Proofs about Crossbar, for any number of nodes, any packets and any     *)
(* arbitration: its types, that nodes are free when they load, that queues *)
(* stay awake, that packets only wait on links to their destination, and   *)
(* that no link is overwritten while there are no more nodes than ticks    *)
(* between two packets of one node.                                        *)
(***************************************************************************)
EXTENDS Crossbar, Bags, Functions, FiniteSetTheorems, FunctionTheorems, TLAPS

-----------------------------------------------------------------------------
(* The first invariant: where packets are in each phase of a tick.         *)
PlacesInv ==
  /\ CrossbarTypeOK
  /\ NodeFreeAtLoad
  /\ NoSleepingQueue
  /\ LinksLeadToDestination

LEMMA PlacesInit == CrossbarInit => PlacesInv
<1> SUFFICES ASSUME CrossbarInit
             PROVE  PlacesInv
  OBVIOUS
<1> USE DEF CrossbarInit, EndpointsInit
<1>1. CrossbarTypeOK
  <2>1. countDown \in [Proc -> Int]
    BY StaleAssumption
  <2> QED BY <2>1 DEF CrossbarTypeOK, Slot, Phase
<1>2. NodeFreeAtLoad /\ NoSleepingQueue
  BY DEF NodeFreeAtLoad, NoSleepingQueue
<1>3. LinksLeadToDestination
  BY DEF LinksLeadToDestination
<1> QED BY <1>1, <1>2, <1>3 DEF PlacesInv

(* What the nodes do to the network besides its own tick: hand over packets *)
(* to their queue, either by themselves or as the answer to a packet that  *)
(* they take from their slot.                                              *)
HandsOver(i, outs) ==
  /\ phase # "loaded"
  /\ BusReq(i, outs)
  /\ UNCHANGED node \/ Take(i)
  /\ UNCHANGED <<phase, link>>

TrafficStep ==
  \/ \E i \in Proc, outs \in Seq(Packet) : HandsOver(i, outs)
  \/ TickLoad
  \/ Update
  \/ TickEnd

(* A delivery by the network's own tick is one that nobody answers.        *)
LEMMA DeliveryHandsNothing ==
  ASSUME CrossbarTypeOK, NEW i \in Proc, TickDeliver(i)
  PROVE  <<>> \in Seq(Packet) /\ HandsOver(i, <<>>)
<1>1. queue[i] \o <<>> = queue[i]
  BY DEF CrossbarTypeOK
<1>2. [queue EXCEPT ![i] = @ \o <<>>] = queue
  BY <1>1 DEF CrossbarTypeOK
<1> QED BY <1>2 DEF TickDeliver, HandsOver, BusReq, Take

(* The crossbar by itself takes only such steps.                           *)
LEMMA StepsAreTraffic ==
  ASSUME CrossbarTypeOK, CrossbarNext
  PROVE  TrafficStep
<1>1. CASE \E i \in Proc, o \in Packet : Request(i, o)
  <2>1. PICK i \in Proc, o \in Packet : Request(i, o)
    BY <1>1
  <2>2. <<o>> \in Seq(Packet) /\ HandsOver(i, <<o>>)
    BY <2>1 DEF Request, HandsOver
  <2> QED BY <2>2 DEF TrafficStep
<1>2. CASE \E i \in Proc : TickDeliver(i)
  <2>1. PICK i \in Proc : TickDeliver(i)
    BY <1>2
  <2>2. <<>> \in Seq(Packet) /\ HandsOver(i, <<>>)
    BY <2>1, DeliveryHandsNothing
  <2> QED BY <2>2 DEF TrafficStep
<1> QED BY <1>1, <1>2 DEF CrossbarNext, TrafficStep

(* A node that hands over packets has more of them queued, starts its      *)
(* countdown anew if there are any, and may have emptied its slot.         *)
LEMMA HandedOver ==
  ASSUME CrossbarTypeOK, NEW i \in Proc, NEW outs \in Seq(Packet), HandsOver(i, outs)
  PROVE  /\ queue' = [queue EXCEPT ![i] = @ \o outs]
         /\ countDown' = countDown \/ countDown' = [countDown EXCEPT ![i] = InterDelay]
         /\ queue' = queue \/ countDown'[i] = InterDelay
         /\ node' = node \/ (node' = [node EXCEPT ![i] = NoPacket] /\ phase = "delivering")
         /\ phase # "loaded" /\ phase' = phase /\ link' = link
<1>1. outs = <<>> => queue[i] \o outs = queue[i]
  BY DEF CrossbarTypeOK
<1>2. outs = <<>> => [queue EXCEPT ![i] = @ \o outs] = queue
  BY <1>1 DEF CrossbarTypeOK
<1>3. countDown'[i] = InterDelay \/ outs = <<>>
  BY DEF HandsOver, BusReq, CrossbarTypeOK
<1>4. /\ queue' = [queue EXCEPT ![i] = @ \o outs]
      /\ countDown' = countDown \/ countDown' = [countDown EXCEPT ![i] = InterDelay]
      /\ phase # "loaded" /\ phase' = phase /\ link' = link
  BY DEF HandsOver, BusReq
<1>5. node' = node \/ (node' = [node EXCEPT ![i] = NoPacket] /\ phase = "delivering")
  BY DEF HandsOver, Take
<1> QED BY <1>2, <1>3, <1>4, <1>5

LEMMA HandsOverPlaces ==
  ASSUME PlacesInv, NEW i \in Proc, NEW outs \in Seq(Packet), HandsOver(i, outs)
  PROVE  PlacesInv'
<1>1. /\ queue' = [queue EXCEPT ![i] = @ \o outs]
      /\ countDown' = countDown \/ countDown' = [countDown EXCEPT ![i] = InterDelay]
      /\ queue' = queue \/ countDown'[i] = InterDelay
      /\ node' = node \/ (node' = [node EXCEPT ![i] = NoPacket] /\ phase = "delivering")
      /\ phase' = phase /\ link' = link
  BY HandedOver DEF PlacesInv
<1>2. InterDelay \in Int /\ InterDelay > 0
  BY DelayAssumption
<1>3. CrossbarTypeOK'
  <2>1. queue[i] \o outs \in Seq(Packet)
    BY DEF PlacesInv, CrossbarTypeOK
  <2>2. queue' \in [Proc -> Seq(Packet)]
    BY <1>1, <2>1 DEF PlacesInv, CrossbarTypeOK
  <2>3. node' \in [Proc -> Slot] /\ countDown' \in [Proc -> Int]
    BY <1>1, <1>2 DEF PlacesInv, CrossbarTypeOK, Slot
  <2> QED BY <1>1, <2>2, <2>3 DEF PlacesInv, CrossbarTypeOK
<1>4. NoSleepingQueue'
  <2> SUFFICES ASSUME NEW j \in Proc, queue'[j] # <<>>
               PROVE  countDown'[j] > 0
    BY DEF NoSleepingQueue
  <2>1. queue'[j] = queue[j] \/ (j = i /\ countDown'[j] = InterDelay)
    BY <1>1 DEF PlacesInv, CrossbarTypeOK
  <2>2. queue'[j] = queue[j] => countDown[j] > 0
    BY DEF PlacesInv, NoSleepingQueue
  <2>3. countDown'[j] = countDown[j] \/ countDown'[j] = InterDelay
    BY <1>1 DEF PlacesInv, CrossbarTypeOK
  <2> QED BY <1>2, <2>1, <2>2, <2>3
<1>5. NodeFreeAtLoad' /\ LinksLeadToDestination'
  <2>1. \A d \in Proc : node'[d] # NoPacket => node'[d] = node[d]
    BY <1>1 DEF PlacesInv, CrossbarTypeOK
  <2> QED BY <1>1, <2>1 DEF PlacesInv, NodeFreeAtLoad, LinksLeadToDestination, Arrived
<1> QED BY <1>3, <1>4, <1>5 DEF PlacesInv

(* The load loop: the nodes are free, so a countdown that runs out over a  *)
(* queue always takes a packet and starts anew.                            *)
LEMMA LoadPlaces ==
  ASSUME PlacesInv, TickLoad
  PROVE  PlacesInv'
<1>1. /\ phase = "idle" /\ phase' = "loaded"
      /\ node'  = [i \in Proc |-> IF Loads(i) THEN Head(queue[i]) ELSE node[i]]
      /\ queue' = [i \in Proc |-> IF Loads(i) THEN Tail(queue[i]) ELSE queue[i]]
      /\ countDown' = [i \in Proc |-> IF Loads(i) THEN InterDelay
                                      ELSE IF countDown[i] > 0 THEN countDown[i] - 1
                                      ELSE countDown[i]]
      /\ link' = link
  BY DEF TickLoad, Load
<1>2. InterDelay \in Int /\ InterDelay > 0
  BY DelayAssumption
<1>3. \A i \in Proc : Loads(i) => Head(queue[i]) \in Packet /\ Tail(queue[i]) \in Seq(Packet)
  BY DEF Loads, PlacesInv, CrossbarTypeOK
<1>4. CrossbarTypeOK'
  <2>1. queue' \in [Proc -> Seq(Packet)]
    BY <1>1, <1>3 DEF PlacesInv, CrossbarTypeOK
  <2>2. node' \in [Proc -> Slot]
    BY <1>1, <1>3 DEF PlacesInv, CrossbarTypeOK, Slot
  <2>3. countDown' \in [Proc -> Int]
    BY <1>1, <1>2 DEF PlacesInv, CrossbarTypeOK
  <2> QED BY <1>1, <2>1, <2>2, <2>3 DEF PlacesInv, CrossbarTypeOK, Phase
<1>5. NoSleepingQueue'
  <2> SUFFICES ASSUME NEW i \in Proc, queue'[i] # <<>>
               PROVE  countDown'[i] > 0
    BY DEF NoSleepingQueue
  <2>1. CASE Loads(i)
    BY <1>1, <1>2, <2>1
  <2>2. CASE ~Loads(i)
    <3>1. queue[i] # <<>> /\ node[i] = NoPacket
      BY <1>1, <2>2 DEF PlacesInv, NodeFreeAtLoad
    <3>2. countDown[i] > 0 /\ countDown[i] # 1 /\ countDown[i] \in Int
      BY <2>2, <3>1 DEF Loads, PlacesInv, NoSleepingQueue, CrossbarTypeOK
    <3>3. countDown'[i] = countDown[i] - 1
      BY <1>1, <2>2, <3>2
    <3> QED BY <3>2, <3>3
  <2> QED BY <2>1, <2>2
<1>6. NodeFreeAtLoad' /\ LinksLeadToDestination'
  BY <1>1 DEF PlacesInv, NodeFreeAtLoad, LinksLeadToDestination
<1> QED BY <1>4, <1>5, <1>6 DEF PlacesInv

(* What update() does to the slots and links.                              *)
LEMMA MovedTypes ==
  ASSUME PlacesInv, NEW i \in Proc, NEW d \in Proc
  PROVE  /\ Moved(i, d) \in Slot
         /\ Moved(i, d) # NoPacket => i # d /\ Moved(i, d).dest = d
<1>1. Moved(i, d) = IF Routed(i) /\ node[i].dest = d THEN node[i] ELSE link[i][d]
  BY DEF Moved
<1> QED BY <1>1 DEF Routed, PlacesInv, CrossbarTypeOK, LinksLeadToDestination

LEMMA UpdatePlaces ==
  ASSUME PlacesInv, Update
  PROVE  PlacesInv'
<1>1. PICK winner \in [Served -> Proc] :
        /\ \A d \in Served : winner[d] \in Candidates(d)
        /\ node' = [d \in Proc |-> IF d \in Served THEN Moved(winner[d], d)
                                   ELSE IF Kept(d) THEN node[d]
                                   ELSE NoPacket]
        /\ link' = [i \in Proc |-> [d \in Proc |->
                      IF d \in Served /\ winner[d] = i THEN NoPacket ELSE Moved(i, d)]]
  BY DEF Update
<1>2. phase = "loaded" /\ phase' = "delivering" /\ UNCHANGED <<queue, countDown>>
  BY DEF Update
<1>3. \A d \in Served : d \in Proc /\ winner[d] \in Proc /\ Moved(winner[d], d) # NoPacket
  BY <1>1 DEF Served, Candidates
<1>4. CrossbarTypeOK'
  <2>1. node' \in [Proc -> Slot]
    BY <1>1, <1>3, MovedTypes DEF PlacesInv, CrossbarTypeOK, Slot
  <2>2. link' \in [Proc -> [Proc -> Slot]]
    BY <1>1, MovedTypes DEF Slot
  <2> QED BY <1>2, <2>1, <2>2 DEF PlacesInv, CrossbarTypeOK, Phase
<1>5. LinksLeadToDestination'
  <2>1. \A i, d \in Proc : link'[i][d] # NoPacket => i # d /\ link'[i][d].dest = d
    BY <1>1, MovedTypes
  <2>2. \A d \in Proc : node'[d] # NoPacket => node'[d].dest = d
    BY <1>1, <1>3, MovedTypes DEF Kept, Routed
  <2> QED BY <2>1, <2>2 DEF LinksLeadToDestination, Arrived
<1>6. NoSleepingQueue' /\ NodeFreeAtLoad'
  BY <1>2 DEF PlacesInv, NoSleepingQueue, NodeFreeAtLoad
<1> QED BY <1>4, <1>5, <1>6 DEF PlacesInv

(* A tick ends when every packet in a slot, being at its destination, is   *)
(* delivered.                                                              *)
LEMMA EndPlaces ==
  ASSUME PlacesInv, TickEnd
  PROVE  PlacesInv'
<1>1. /\ phase = "delivering" /\ phase' = "idle" /\ \A i \in Proc : ~Arrived(i)
      /\ UNCHANGED <<queue, countDown, node, link>>
  BY DEF TickEnd, EndTick
<1>2. \A i \in Proc : node[i] = NoPacket
  BY <1>1 DEF PlacesInv, LinksLeadToDestination
<1>3. NodeFreeAtLoad' /\ NoSleepingQueue' /\ LinksLeadToDestination'
  BY <1>1, <1>2 DEF PlacesInv, NodeFreeAtLoad, NoSleepingQueue, LinksLeadToDestination
<1>4. CrossbarTypeOK'
  BY <1>1 DEF PlacesInv, CrossbarTypeOK, Phase
<1> QED BY <1>3, <1>4 DEF PlacesInv

LEMMA PlacesStep == PlacesInv /\ [TrafficStep]_crossbarVars => PlacesInv'
<1> SUFFICES ASSUME PlacesInv, [TrafficStep]_crossbarVars
             PROVE  PlacesInv'
  OBVIOUS
<1>1. CASE \E i \in Proc, outs \in Seq(Packet) : HandsOver(i, outs)
  BY <1>1, HandsOverPlaces
<1>2. CASE TickLoad
  BY <1>2, LoadPlaces
<1>3. CASE Update
  BY <1>3, UpdatePlaces
<1>4. CASE TickEnd
  BY <1>4, EndPlaces
<1>5. CASE UNCHANGED crossbarVars
  BY <1>5 DEF crossbarVars, PlacesInv, CrossbarTypeOK, NodeFreeAtLoad, NoSleepingQueue,
              LinksLeadToDestination, Arrived
<1> QED BY <1>1, <1>2, <1>3, <1>4, <1>5 DEF TrafficStep

LEMMA PlacesNext == PlacesInv /\ [CrossbarNext]_crossbarVars => PlacesInv'
BY PlacesStep, StepsAreTraffic DEF PlacesInv

(* The invariant of places holds in every behaviour.                       *)
THEOREM PlacesInvariant == CrossbarSpec => []PlacesInv
BY PlacesInit, PlacesNext, PTL DEF CrossbarSpec

(* Types, for any nodes, packets and initial countdowns.                   *)
THEOREM CrossbarTypes == CrossbarSpec => []CrossbarTypeOK
<1>1. PlacesInv => CrossbarTypeOK
  BY DEF PlacesInv
<1> QED BY PlacesInvariant, <1>1, PTL

(* A countdown never runs out on a busy node.                              *)
THEOREM NodesFree == CrossbarSpec => []NodeFreeAtLoad
<1>1. PlacesInv => NodeFreeAtLoad
  BY DEF PlacesInv
<1> QED BY PlacesInvariant, <1>1, PTL

(* A queue that holds packets is counting down.                            *)
THEOREM QueuesAwake == CrossbarSpec => []NoSleepingQueue
<1>1. PlacesInv => NoSleepingQueue
  BY DEF PlacesInv
<1> QED BY PlacesInvariant, <1>1, PTL

(* Packets wait on links for their destination and are delivered to it.    *)
THEOREM LinksLead == CrossbarSpec => []LinksLeadToDestination
<1>1. PlacesInv => LinksLeadToDestination
  BY DEF PlacesInv
<1> QED BY PlacesInvariant, <1>1, PTL

-----------------------------------------------------------------------------
(* Why no link is overwritten.  Since a busy period of node d began, d has *)
(* been served in each tick, so what waits for d or was served is no more  *)
(* than the nodes that loaded a packet in that time.  A node loads again   *)
(* only after InterDelay ticks: if its first packet still waited, d would  *)
(* have served InterDelay packets of other nodes by then, and there are    *)
(* not that many.                                                          *)
FewNodes == Cardinality(Proc) <= InterDelay

Occupied(d) == {i \in Proc : link[i][d] # NoPacket}
Loaded      == {i \in Proc : node[i] # NoPacket}

(* The nodes whose countdown was started anew in the last e ticks.         *)
Recent(e) == {i \in Proc : countDown[i] > InterDelay - e}

(* The packets that wait for d are of nodes of S, and with e more packets  *)
(* served there are no more of them than nodes in S.                       *)
Window(d, e, S) ==
  Occupied(d) \subseteq S /\ Cardinality(Occupied(d)) + e <= Cardinality(S)

(* Outside of the moment between loading and update(), the e packets are   *)
(* those served since the busy period began, the current tick included.    *)
BusyWindow ==
  phase # "loaded" =>
    \A d \in Proc : \/ Occupied(d) = {}
                    \/ \E e \in 1 .. InterDelay : Window(d, e, Recent(e))

(* In that moment the nodes just loaded are not among those that wait.     *)
LoadedWindow ==
  phase = "loaded" =>
    /\ \A i \in Loaded : countDown[i] = InterDelay
    /\ \A d \in Proc :
         \/ Occupied(d) = {}
         \/ \E e \in 1 .. InterDelay - 1 : Window(d, e, Recent(e + 1) \ Loaded)

WindowInv == PlacesInv /\ BusyWindow /\ LoadedWindow

(* Sets of nodes are finite; a larger set has no fewer nodes.              *)
LEMMA NodeSets ==
  ASSUME NEW T, T \subseteq Proc, NEW S, S \subseteq T
  PROVE  /\ IsFiniteSet(S) /\ IsFiniteSet(T)
         /\ Cardinality(S) \in Nat /\ Cardinality(T) \in Nat
         /\ Cardinality(S) <= Cardinality(T)
<1>1. IsFiniteSet(T)
  BY NodesAssumption, FS_Subset
<1> QED BY <1>1, FS_Subset, FS_CardinalityType

(* Of two disjoint sets of nodes within a third.                           *)
LEMMA DisjointNodes ==
  ASSUME NEW U, U \subseteq Proc, NEW S, S \subseteq U, NEW T, T \subseteq U, S \cap T = {}
  PROVE  Cardinality(S) + Cardinality(T) <= Cardinality(U)
<1>1. IsFiniteSet(S) /\ IsFiniteSet(T) /\ Cardinality(S) \in Nat /\ Cardinality(T) \in Nat
  BY NodeSets
<1>2. Cardinality(S \cup T) = Cardinality(S) + Cardinality(T) - Cardinality(S \cap T)
  BY <1>1, FS_Union
<1>3. Cardinality(S \cap T) = 0
  BY FS_EmptySet
<1>4. Cardinality(S \cup T) <= Cardinality(U)
  BY NodeSets
<1> QED BY <1>1, <1>2, <1>3, <1>4

(* A larger set widens the window.                                         *)
LEMMA WindowGrows ==
  ASSUME NEW d \in Proc, NEW e \in Nat, NEW T, T \subseteq Proc, NEW S, S \subseteq T,
         Window(d, e, S)
  PROVE  Window(d, e, T)
<1>1. /\ Cardinality(S) \in Nat /\ Cardinality(T) \in Nat /\ Cardinality(S) <= Cardinality(T)
      /\ Cardinality(Occupied(d)) \in Nat
  BY NodeSets DEF Window
<1> QED BY <1>1 DEF Window

(* While something waits for d, the window is shorter than the delay.      *)
LEMMA WindowIsShort ==
  ASSUME FewNodes, NEW d \in Proc, NEW e \in Nat, NEW S, S \subseteq Proc,
         Occupied(d) # {}, Window(d, e, S)
  PROVE  e < InterDelay
<1>1. PICK i \in Occupied(d) : TRUE
  OBVIOUS
<1>2. {i} \subseteq Occupied(d) /\ Cardinality({i}) = 1
  BY <1>1, FS_Singleton
<1>3. 1 <= Cardinality(Occupied(d)) /\ Cardinality(Occupied(d)) \in Nat
  BY <1>2, NodeSets DEF Occupied
<1>4. Cardinality(S) <= Cardinality(Proc) /\ Cardinality(S) \in Nat /\ Cardinality(Proc) \in Nat
  BY NodeSets
<1> QED BY <1>3, <1>4, DelayAssumption DEF Window, FewNodes

(* busReq starts a countdown anew: its node is among the recent ones.      *)
LEMMA HandsOverWindow ==
  ASSUME WindowInv, NEW i \in Proc, NEW outs \in Seq(Packet), HandsOver(i, outs)
  PROVE  BusyWindow' /\ LoadedWindow'
<1>1. /\ phase # "loaded" /\ phase' = phase /\ link' = link
      /\ countDown' = countDown \/ countDown' = [countDown EXCEPT ![i] = InterDelay]
  BY HandedOver DEF WindowInv, PlacesInv
<1>2. \A e \in 1 .. InterDelay : Recent(e) \subseteq Recent(e)' /\ Recent(e)' \subseteq Proc
  <2> TAKE e \in 1 .. InterDelay
  <2>1. InterDelay > InterDelay - e
    BY DelayAssumption
  <2>2. \A j \in Proc : countDown'[j] = countDown[j] \/ countDown'[j] = InterDelay
    BY <1>1 DEF WindowInv, PlacesInv, CrossbarTypeOK
  <2> QED BY <2>1, <2>2 DEF Recent
<1>3. \A d \in Proc : Occupied(d)' = Occupied(d)
  BY <1>1 DEF Occupied
<1>4. BusyWindow'
  <2> SUFFICES ASSUME NEW d \in Proc, Occupied(d)' # {}
               PROVE  \E e \in 1 .. InterDelay : Window(d, e, Recent(e))'
    BY DEF BusyWindow
  <2>1. PICK e \in 1 .. InterDelay : Window(d, e, Recent(e))
    BY <1>1, <1>3 DEF WindowInv, BusyWindow
  <2>2. Window(d, e, Recent(e)')
    BY <1>2, <2>1, WindowGrows, DelayAssumption
  <2>3. Window(d, e, Recent(e))'
    BY <1>3, <2>2 DEF Window
  <2> QED BY <2>3
<1> QED BY <1>1, <1>4 DEF LoadedWindow

(* The load loop: whoever loads has counted down to 1, which no node of    *)
(* the window has; the others count down by one at most.                   *)
LEMMA LoadWindow ==
  ASSUME FewNodes, WindowInv, TickLoad
  PROVE  BusyWindow' /\ LoadedWindow'
<1>1. /\ phase = "idle" /\ phase' = "loaded" /\ link' = link
      /\ node'  = [i \in Proc |-> IF Loads(i) THEN Head(queue[i]) ELSE node[i]]
      /\ countDown' = [i \in Proc |-> IF Loads(i) THEN InterDelay
                                      ELSE IF countDown[i] > 0 THEN countDown[i] - 1
                                      ELSE countDown[i]]
  BY DEF TickLoad, Load
<1>2. \A i \in Proc : i \in Loaded' <=> Loads(i)
  <2>1. \A i \in Proc : node[i] = NoPacket
    BY <1>1 DEF WindowInv, PlacesInv, NodeFreeAtLoad
  <2>2. \A i \in Proc : Loads(i) => Head(queue[i]) # NoPacket
    BY PacketAssumption DEF Loads, WindowInv, PlacesInv, CrossbarTypeOK
  <2> QED BY <1>1, <2>1, <2>2 DEF Loaded
<1>3. \A i \in Loaded' : countDown'[i] = InterDelay
  BY <1>1, <1>2 DEF Loaded
<1>4. \A d \in Proc : Occupied(d)' = Occupied(d)
  BY <1>1 DEF Occupied
<1>5. ASSUME NEW d \in Proc, Occupied(d)' # {}
      PROVE  \E e \in 1 .. InterDelay - 1 : Window(d, e, Recent(e + 1) \ Loaded)'
  <2>1. PICK e \in 1 .. InterDelay : Window(d, e, Recent(e))
    BY <1>1, <1>4, <1>5 DEF WindowInv, BusyWindow
  <2>2. Recent(e) \subseteq Proc
    BY DEF Recent
  <2>3. e < InterDelay /\ e \in Nat
    BY <1>4, <1>5, <2>1, <2>2, WindowIsShort, DelayAssumption
  <2>4. Recent(e) \subseteq (Recent(e + 1) \ Loaded)'
    <3> SUFFICES ASSUME NEW i \in Recent(e)
                 PROVE  i \in Recent(e + 1)' /\ i \notin Loaded'
      OBVIOUS
    <3>1. i \in Proc /\ countDown[i] \in Int /\ countDown[i] > InterDelay - e
      BY DEF Recent, WindowInv, PlacesInv, CrossbarTypeOK
    <3>2. ~Loads(i)
      BY <2>3, <3>1, DelayAssumption DEF Loads
    <3>3. countDown'[i] >= countDown[i] - 1 /\ countDown'[i] \in Int
      BY <1>1, <3>1, <3>2
    <3>4. countDown'[i] > InterDelay - (e + 1)
      BY <2>3, <3>1, <3>3, DelayAssumption
    <3> QED BY <1>2, <3>1, <3>2, <3>4 DEF Recent
  <2>5. Window(d, e, (Recent(e + 1) \ Loaded)')
    <3>1. (Recent(e + 1) \ Loaded)' \subseteq Proc
      BY DEF Recent
    <3> QED BY <2>1, <2>3, <2>4, <3>1, WindowGrows
  <2>6. Window(d, e, Recent(e + 1) \ Loaded)'
    BY <1>4, <2>5 DEF Window
  <2>7. e \in 1 .. InterDelay - 1
    BY <2>1, <2>3, DelayAssumption
  <2> WITNESS e \in 1 .. InterDelay - 1
  <2> QED BY <2>6
<1> QED BY <1>1, <1>3, <1>5 DEF BusyWindow, LoadedWindow

(* update(), for one node d: what newly waits for d was loaded by nodes    *)
(* outside of the window, and one packet is served: a waiting one, or the  *)
(* one that d has loaded for itself.                                       *)
Entering(d) == {i \in Proc : Routed(i) /\ node[i].dest = d}

LEMMA ServedOne ==
  ASSUME WindowInv, Update, NEW d \in Proc, Occupied(d)' # {}
  PROVE  \E L : /\ L \subseteq Loaded
                /\ Occupied(d)' \subseteq Occupied(d) \cup L
                /\ Cardinality(Occupied(d)') + 1 <= Cardinality(Occupied(d)) + Cardinality(L)
<1>1. PICK winner \in [Served -> Proc] :
        /\ \A k \in Served : winner[k] \in Candidates(k)
        /\ link' = [i \in Proc |-> [k \in Proc |->
                      IF k \in Served /\ winner[k] = i THEN NoPacket ELSE Moved(i, k)]]
  BY DEF Update
<1>2. Candidates(d) = Occupied(d) \cup Entering(d)
  <2>1. \A i \in Proc : Moved(i, d) = IF Routed(i) /\ node[i].dest = d THEN node[i] ELSE link[i][d]
    BY DEF Moved
  <2> QED BY <2>1 DEF Candidates, Occupied, Entering, Routed
<1>3. Entering(d) \subseteq Loaded /\ Loaded \subseteq Proc /\ Occupied(d) \subseteq Proc
  BY DEF Entering, Loaded, Routed, Occupied
<1>4. Occupied(d)' = IF d \in Served THEN Candidates(d) \ {winner[d]} ELSE Candidates(d)
  BY <1>1 DEF Occupied, Candidates
<1>5. /\ Cardinality(Candidates(d)) <= Cardinality(Occupied(d)) + Cardinality(Entering(d))
      /\ IsFiniteSet(Candidates(d)) /\ Cardinality(Candidates(d)) \in Nat
      /\ IsFiniteSet(Entering(d)) /\ Cardinality(Entering(d)) \in Nat
      /\ Cardinality(Occupied(d)) \in Nat
  <2>1. /\ IsFiniteSet(Occupied(d)) /\ IsFiniteSet(Entering(d)) /\ IsFiniteSet(Candidates(d))
        /\ Cardinality(Occupied(d)) \in Nat /\ Cardinality(Entering(d)) \in Nat
        /\ Cardinality(Candidates(d)) \in Nat
    BY <1>2, <1>3, NodeSets
  <2>2. Cardinality(Candidates(d)) = Cardinality(Occupied(d)) + Cardinality(Entering(d))
                                       - Cardinality(Occupied(d) \cap Entering(d))
    BY <1>2, <2>1, FS_Union
  <2>3. Cardinality(Occupied(d) \cap Entering(d)) \in Nat
    BY <1>3, NodeSets
  <2> QED BY <2>1, <2>2, <2>3
<1>6. CASE d \in Served
  <2>1. winner[d] \in Candidates(d)
    BY <1>1, <1>6
  <2>2. Cardinality(Occupied(d)') = Cardinality(Candidates(d)) - 1
    <3>1. Cardinality(Candidates(d) \ {winner[d]}) = Cardinality(Candidates(d)) - 1
      BY <1>5, <2>1, FS_RemoveElement
    <3>2. Occupied(d)' = Candidates(d) \ {winner[d]}
      BY <1>4, <1>6
    <3> QED BY <3>1, <3>2
  <2>3. Cardinality(Occupied(d)') + 1 <= Cardinality(Occupied(d)) + Cardinality(Entering(d))
    BY <1>5, <2>2
  <2>4. Occupied(d)' \subseteq Occupied(d) \cup Entering(d)
    BY <1>2, <1>4
  <2> QED BY <1>3, <2>3, <2>4
<1>7. CASE d \notin Served
  <2> DEFINE L == Entering(d) \cup {d}
  <2>1. Occupied(d)' = Candidates(d) /\ Kept(d)
    BY <1>4, <1>7 DEF Served
  <2>2. d \in Loaded /\ d \notin Entering(d)
    BY <2>1 DEF Kept, Loaded, Entering
  <2>3. Cardinality(L) = Cardinality(Entering(d)) + 1
    BY <1>5, <2>2, FS_AddElement
  <2>4. Cardinality(Occupied(d)') + 1 <= Cardinality(Occupied(d)) + Cardinality(L)
    BY <1>5, <2>1, <2>3
  <2>5. L \subseteq Loaded /\ Occupied(d)' \subseteq Occupied(d) \cup L
    BY <1>2, <1>3, <2>1, <2>2
  <2> QED BY <2>4, <2>5
<1> QED BY <1>6, <1>7

(* So the window, with the new nodes and one more packet served, still     *)
(* holds; where nothing waited before, a new one begins.                   *)
LEMMA UpdateWindow ==
  ASSUME WindowInv, Update
  PROVE  BusyWindow' /\ LoadedWindow'
<1>1. phase = "loaded" /\ phase' = "delivering" /\ countDown' = countDown
  BY DEF Update
<1>2. \A e \in 1 .. InterDelay : Loaded \subseteq Recent(e) /\ Recent(e) \subseteq Proc
  BY <1>1, DelayAssumption DEF WindowInv, LoadedWindow, Recent, Loaded
<1>3. ASSUME NEW d \in Proc, Occupied(d)' # {}
      PROVE  \E e \in 1 .. InterDelay : Window(d, e, Recent(e))'
  <2>1. PICK L : /\ L \subseteq Loaded
                 /\ Occupied(d)' \subseteq Occupied(d) \cup L
                 /\ Cardinality(Occupied(d)') + 1 <= Cardinality(Occupied(d)) + Cardinality(L)
    BY <1>3, ServedOne
  <2>2. PICK e \in 0 .. InterDelay - 1 :
           \E S \in SUBSET (Recent(e + 1) \ Loaded) : Window(d, e, S)
    <3>1. CASE Occupied(d) = {}
      <4>1. Window(d, 0, {})
        BY <3>1, FS_EmptySet DEF Window
      <4> QED BY <4>1, DelayAssumption
    <3>2. CASE Occupied(d) # {}
      <4>1. PICK e \in 1 .. InterDelay - 1 : Window(d, e, Recent(e + 1) \ Loaded)
        BY <1>1, <3>2 DEF WindowInv, LoadedWindow
      <4>2. e \in 0 .. InterDelay - 1
        BY DelayAssumption
      <4> QED BY <4>1, <4>2
    <3> QED BY <3>1, <3>2
  <2>3. PICK S \in SUBSET (Recent(e + 1) \ Loaded) : Window(d, e, S)
    BY <2>2
  <2>4. e + 1 \in 1 .. InterDelay
    BY <2>3, DelayAssumption
  <2>5. S \subseteq Recent(e + 1) /\ L \subseteq Recent(e + 1) /\ S \cap L = {}
    BY <1>2, <2>1, <2>3, <2>4
  <2>6. Cardinality(S) + Cardinality(L) <= Cardinality(Recent(e + 1))
    BY <1>2, <2>4, <2>5, DisjointNodes
  <2>7. Occupied(d)' \subseteq Recent(e + 1)
    BY <2>1, <2>3, <2>5 DEF Window
  <2>8. /\ Cardinality(S) \in Nat /\ Cardinality(L) \in Nat
        /\ Cardinality(Recent(e + 1)) \in Nat
        /\ Cardinality(Occupied(d)) \in Nat /\ Cardinality(Occupied(d)') \in Nat
    <3>1. Occupied(d) \subseteq Proc /\ Occupied(d)' \subseteq Proc
      BY DEF Occupied
    <3> QED BY <1>2, <2>4, <2>5, <3>1, NodeSets
  <2>9. Cardinality(Occupied(d)') + (e + 1) <= Cardinality(Recent(e + 1))
    BY <2>1, <2>3, <2>6, <2>8 DEF Window
  <2>10. Recent(e + 1)' = Recent(e + 1)
    BY <1>1 DEF Recent
  <2>11. Window(d, e + 1, Recent(e + 1))'
    BY <2>7, <2>9, <2>10 DEF Window
  <2> WITNESS e + 1 \in 1 .. InterDelay
  <2> QED BY <2>11
<1> QED BY <1>1, <1>3 DEF BusyWindow, LoadedWindow

LEMMA WindowStep ==
  ASSUME FewNodes
  PROVE  WindowInv /\ [TrafficStep]_crossbarVars => WindowInv'
<1> SUFFICES ASSUME WindowInv, [TrafficStep]_crossbarVars
             PROVE  WindowInv'
  OBVIOUS
<1>1. PlacesInv'
  BY PlacesStep DEF WindowInv
<1>2. CASE \E i \in Proc, outs \in Seq(Packet) : HandsOver(i, outs)
  BY <1>1, <1>2, HandsOverWindow DEF WindowInv
<1>3. CASE TickLoad
  BY <1>1, <1>3, LoadWindow DEF WindowInv
<1>4. CASE Update
  BY <1>1, <1>4, UpdateWindow DEF WindowInv
<1>5. CASE TickEnd \/ UNCHANGED crossbarVars
  <2>1. /\ UNCHANGED <<countDown, link>>
        /\ UNCHANGED <<phase, node>> \/ (phase # "loaded" /\ phase' # "loaded")
    BY <1>5 DEF TickEnd, EndTick, crossbarVars
  <2>2. /\ \A d \in Proc : Occupied(d)' = Occupied(d)
        /\ \A e \in Nat : Recent(e)' = Recent(e)
        /\ UNCHANGED node => Loaded' = Loaded
    BY <2>1 DEF Occupied, Recent, Loaded
  <2>3. BusyWindow'
    <3> SUFFICES ASSUME phase' # "loaded", NEW d \in Proc, Occupied(d)' # {}
                 PROVE  \E e \in 1 .. InterDelay : Window(d, e, Recent(e))'
      BY DEF BusyWindow
    <3>1. PICK e \in 1 .. InterDelay : Window(d, e, Recent(e))
      BY <2>1, <2>2 DEF WindowInv, BusyWindow
    <3>2. Window(d, e, Recent(e))'
      BY <2>2, <3>1, DelayAssumption DEF Window
    <3> QED BY <3>2
  <2>4. LoadedWindow'
    <3> SUFFICES ASSUME phase' = "loaded"
                 PROVE  LoadedWindow'
      BY DEF LoadedWindow
    <3>1. phase = "loaded" /\ Loaded' = Loaded /\ countDown' = countDown
      BY <2>1, <2>2
    <3>2. ASSUME NEW d \in Proc, Occupied(d)' # {}
          PROVE  \E e \in 1 .. InterDelay - 1 : Window(d, e, Recent(e + 1) \ Loaded)'
      <4>1. PICK e \in 1 .. InterDelay - 1 : Window(d, e, Recent(e + 1) \ Loaded)
        BY <2>2, <3>1, <3>2 DEF WindowInv, LoadedWindow
      <4>2. Window(d, e, Recent(e + 1) \ Loaded)'
        BY <2>2, <3>1, <4>1, DelayAssumption DEF Window
      <4> QED BY <4>2
    <3> QED BY <3>1, <3>2 DEF WindowInv, LoadedWindow
  <2> QED BY <1>1, <2>3, <2>4 DEF WindowInv
<1> QED BY <1>2, <1>3, <1>4, <1>5 DEF TrafficStep

LEMMA WindowNext ==
  ASSUME FewNodes
  PROVE  WindowInv /\ [CrossbarNext]_crossbarVars => WindowInv'
BY WindowStep, StepsAreTraffic DEF WindowInv, PlacesInv

LEMMA WindowInit == CrossbarInit => WindowInv
BY PlacesInit DEF WindowInv, BusyWindow, LoadedWindow, Occupied, CrossbarInit, EndpointsInit

(* A loaded packet does not wait for its destination already.              *)
LEMMA WindowFree == WindowInv => NoOverwrite
<1> SUFFICES ASSUME WindowInv, phase = "loaded", NEW i \in Proc, Routed(i)
             PROVE  link[i][node[i].dest] = NoPacket
  BY DEF NoOverwrite
<1>1. i \in Loaded /\ node[i].dest \in Proc
  BY PacketAssumption DEF Routed, Loaded, WindowInv, PlacesInv, CrossbarTypeOK, Slot
<1>2. i \notin Occupied(node[i].dest)
  BY <1>1 DEF WindowInv, LoadedWindow, Window
<1> QED BY <1>2 DEF Occupied

(* With no more nodes than ticks between two packets of a node, a packet   *)
(* that enters a link finds it empty.                                      *)
THEOREM NothingOverwritten ==
  ASSUME FewNodes
  PROVE  CrossbarSpec => []NoOverwrite
BY WindowInit, WindowNext, WindowFree, PTL DEF CrossbarSpec

-----------------------------------------------------------------------------
(* The bag of what the places of c hold.                                   *)
Where(c, o) == {x \in DOMAIN c : c[x] = o}
BagOf(c)    == [o \in {c[x] : x \in DOMAIN c} |-> Cardinality(Where(c, o))]

(* How often it holds something.                                           *)
LEMMA BagCounts ==
  ASSUME NEW c, IsFiniteSet(DOMAIN c)
  PROVE  /\ \A o : o \in DOMAIN BagOf(c) <=> Where(c, o) # {}
         /\ \A o : IsFiniteSet(Where(c, o)) /\ Cardinality(Where(c, o)) \in Nat
         /\ \A o \in DOMAIN BagOf(c) : BagOf(c)[o] = Cardinality(Where(c, o)) /\ BagOf(c)[o] > 0
<1>1. \A o : Where(c, o) \in SUBSET DOMAIN c
  BY DEF Where
<1>2. \A o : IsFiniteSet(Where(c, o)) /\ Cardinality(Where(c, o)) \in Nat
  BY <1>1, FS_Subset, FS_CardinalityType
<1>3. \A o : o \in DOMAIN BagOf(c) <=> Where(c, o) # {}
  BY DEF BagOf, Where
<1>4. \A o \in DOMAIN BagOf(c) : BagOf(c)[o] = Cardinality(Where(c, o))
  BY DEF BagOf
<1>5. \A o \in DOMAIN BagOf(c) : BagOf(c)[o] > 0
  <2> TAKE o \in DOMAIN BagOf(c)
  <2>1. Where(c, o) # {} /\ IsFiniteSet(Where(c, o)) /\ Cardinality(Where(c, o)) \in Nat
    BY <1>2, <1>3
  <2>2. Cardinality(Where(c, o)) # 0
    BY <2>1, FS_EmptySet
  <2> QED BY <1>4, <2>1, <2>2
<1> QED BY <1>2, <1>3, <1>4, <1>5

(* Two bags are the same if every packet is as often in one as in the other. *)
LEMMA SameBag ==
  ASSUME NEW c, NEW d, IsFiniteSet(DOMAIN c), IsFiniteSet(DOMAIN d),
         \A o : Cardinality(Where(c, o)) = Cardinality(Where(d, o))
  PROVE  BagOf(c) = BagOf(d)
<1>1. /\ \A o : o \in DOMAIN BagOf(c) <=> Where(c, o) # {}
      /\ \A o : IsFiniteSet(Where(c, o))
  BY BagCounts
<1>2. /\ \A o : o \in DOMAIN BagOf(d) <=> Where(d, o) # {}
      /\ \A o : IsFiniteSet(Where(d, o))
  BY BagCounts
<1>3. \A o : Where(c, o) = {} <=> Where(d, o) = {}
  BY <1>1, <1>2, FS_EmptySet
<1>4. {c[x] : x \in DOMAIN c} = {d[x] : x \in DOMAIN d}
  <2>1. \A o : o \in {c[x] : x \in DOMAIN c} <=> Where(c, o) # {}
    BY DEF Where
  <2>2. \A o : o \in {d[x] : x \in DOMAIN d} <=> Where(d, o) # {}
    BY DEF Where
  <2> QED BY <1>3, <2>1, <2>2
<1> QED BY <1>4 DEF BagOf

(* Moving everything to other places, one by one, changes nothing.         *)
Moves(c, d, f, g) ==   \* f takes each place of c to one of d, and g takes it back
  /\ \A x \in DOMAIN c : f[x] \in DOMAIN d /\ d[f[x]] = c[x] /\ g[f[x]] = x
  /\ \A y \in DOMAIN d : g[y] \in DOMAIN c /\ f[g[y]] = y

LEMMA BagMoved ==
  ASSUME NEW c, IsFiniteSet(DOMAIN c), NEW d, NEW f, NEW g, Moves(c, d, f, g)
  PROVE  IsFiniteSet(DOMAIN d) /\ BagOf(d) = BagOf(c)
<1>1. /\ \A x \in DOMAIN c : f[x] \in DOMAIN d /\ d[f[x]] = c[x] /\ g[f[x]] = x
      /\ \A y \in DOMAIN d : g[y] \in DOMAIN c /\ f[g[y]] = y
  BY DEF Moves
<1>2. IsFiniteSet(DOMAIN d)
  <2> DEFINE h == [x \in DOMAIN c |-> f[x]]
  <2>1. h \in [DOMAIN c -> DOMAIN d] /\ \A x \in DOMAIN c : h[x] = f[x]
    BY <1>1
  <2> HIDE DEF h
  <2>2. \A x, y \in DOMAIN c : h[x] = h[y] => x = y
    BY <1>1, <2>1
  <2>3. \A y \in DOMAIN d : \E x \in DOMAIN c : h[x] = y
    BY <1>1, <2>1
  <2>4. h \in Bijection(DOMAIN c, DOMAIN d)
    BY <2>1, <2>2, <2>3, Fun_IsBij
  <2> QED BY <2>4, FS_Bijection DEF ExistsBijection
<1>3. ASSUME NEW o
      PROVE  Cardinality(Where(c, o)) = Cardinality(Where(d, o))
  <2> DEFINE S == Where(c, o)
             T == Where(d, o)
             h == [x \in S |-> f[x]]
  <2>1. IsFiniteSet(S)
    BY BagCounts
  <2>2. h \in [S -> T]
    BY <1>1 DEF Where
  <2>3. \A x, y \in S : h[x] = h[y] => x = y
    <3>1. \A x \in S : x \in DOMAIN c /\ h[x] = f[x] /\ g[f[x]] = x
      BY <1>1 DEF Where
    <3> HIDE DEF h, S
    <3> QED BY <3>1
  <2>4. \A y \in T : \E x \in S : h[x] = y
    <3> TAKE y \in T
    <3>1. y \in DOMAIN d /\ d[y] = o
      BY DEF Where
    <3>2. g[y] \in DOMAIN c /\ f[g[y]] = y
      BY <1>1, <3>1
    <3>3. c[g[y]] = o
      BY <1>1, <3>1, <3>2
    <3>4. g[y] \in S
      BY <3>2, <3>3 DEF Where
    <3>5. h[g[y]] = y
      BY <3>2, <3>4
    <3> QED BY <3>4, <3>5
  <2> HIDE DEF h, S, T
  <2>5. h \in Bijection(S, T)
    BY <2>2, <2>3, <2>4, Fun_IsBij
  <2>6. Cardinality(T) = Cardinality(S)
    BY <2>1, <2>5, FS_Bijection DEF ExistsBijection
  <2> QED BY <2>6 DEF S, T
<1> QED BY <1>2, <1>3, SameBag

(* Two disjoint parts.                                                     *)
Joins(c, e, d) ==
  /\ DOMAIN d = DOMAIN c \cup DOMAIN e /\ DOMAIN c \cap DOMAIN e = {}
  /\ \A x \in DOMAIN c : d[x] = c[x]
  /\ \A x \in DOMAIN e : d[x] = e[x]

LEMMA BagJoined ==
  ASSUME NEW c, IsFiniteSet(DOMAIN c), NEW e, IsFiniteSet(DOMAIN e), NEW d, Joins(c, e, d)
  PROVE  IsFiniteSet(DOMAIN d) /\ BagOf(d) = BagOf(c) (+) BagOf(e)
<1>1. IsFiniteSet(DOMAIN d)
  BY FS_Union DEF Joins
<1>2. ASSUME NEW o
      PROVE  /\ Where(d, o) = Where(c, o) \cup Where(e, o)
             /\ Cardinality(Where(d, o)) = Cardinality(Where(c, o)) + Cardinality(Where(e, o))
  <2>1. Where(d, o) = Where(c, o) \cup Where(e, o) /\ Where(c, o) \cap Where(e, o) = {}
    BY DEF Where, Joins
  <2>2. /\ IsFiniteSet(Where(c, o)) /\ IsFiniteSet(Where(e, o))
        /\ Cardinality(Where(c, o)) \in Nat /\ Cardinality(Where(e, o)) \in Nat
    BY BagCounts
  <2>3. Cardinality(Where(c, o) \cup Where(e, o)) =
          Cardinality(Where(c, o)) + Cardinality(Where(e, o)) - Cardinality({})
    BY <2>1, <2>2, FS_Union
  <2> QED BY <2>1, <2>2, <2>3, FS_EmptySet
<1>3. DOMAIN BagOf(d) = DOMAIN BagOf(c) \cup DOMAIN BagOf(e)
  <2>1. \A o : o \in DOMAIN BagOf(d) <=> Where(d, o) # {}
    BY <1>1, BagCounts
  <2>2. \A o : o \in DOMAIN BagOf(c) <=> Where(c, o) # {}
    BY BagCounts
  <2>3. \A o : o \in DOMAIN BagOf(e) <=> Where(e, o) # {}
    BY BagCounts
  <2>4. \A o : Where(d, o) # {} <=> Where(c, o) # {} \/ Where(e, o) # {}
    BY <1>2
  <2> DEFINE D == DOMAIN BagOf(d)
             C == DOMAIN BagOf(c)
             E == DOMAIN BagOf(e)
  <2>5. \A o : o \in D <=> o \in C \/ o \in E
    BY <2>1, <2>2, <2>3, <2>4
  <2> HIDE DEF D, C, E
  <2>6. D = C \cup E
    BY <2>5
  <2> QED BY <2>6 DEF D, C, E
<1>4. \A o : Cardinality(Where(c, o)) = IF o \in DOMAIN BagOf(c) THEN BagOf(c)[o] ELSE 0
  BY BagCounts, FS_EmptySet
<1>5. \A o : Cardinality(Where(e, o)) = IF o \in DOMAIN BagOf(e) THEN BagOf(e)[o] ELSE 0
  BY BagCounts, FS_EmptySet
<1>6. BagOf(d) = [o \in DOMAIN BagOf(d) |-> Cardinality(Where(d, o))]
  BY DEF BagOf
<1>7. BagOf(d) = [o \in DOMAIN BagOf(c) \cup DOMAIN BagOf(e) |->
                    (IF o \in DOMAIN BagOf(c) THEN BagOf(c)[o] ELSE 0)
                    + (IF o \in DOMAIN BagOf(e) THEN BagOf(e)[o] ELSE 0)]
  BY <1>2, <1>3, <1>4, <1>5, <1>6
<1> QED BY <1>1, <1>7 DEF (+)

(* All but one place.                                                      *)
LEMMA BagWithout ==
  ASSUME NEW c, IsFiniteSet(DOMAIN c), NEW x \in DOMAIN c, NEW d,
         DOMAIN d = DOMAIN c \ {x}, \A y \in DOMAIN d : d[y] = c[y]
  PROVE  /\ IsFiniteSet(DOMAIN d)
         /\ BagIn(c[x], BagOf(c))
         /\ BagOf(d) = BagOf(c) (-) SetToBag({c[x]})
<1> DEFINE o == c[x]
<1>1. IsFiniteSet(DOMAIN d)
  BY FS_Subset
<1>2. Where(d, o) = Where(c, o) \ {x} /\ x \in Where(c, o)
  BY DEF Where
<1>3. \A p : p # o => Where(d, p) = Where(c, p)
  BY DEF Where
<1> HIDE DEF o
<1>4. /\ \A p : p \in DOMAIN BagOf(c) <=> Where(c, p) # {}
      /\ \A p : IsFiniteSet(Where(c, p)) /\ Cardinality(Where(c, p)) \in Nat
      /\ \A p \in DOMAIN BagOf(c) : BagOf(c)[p] = Cardinality(Where(c, p)) /\ BagOf(c)[p] > 0
  BY BagCounts
<1>5. /\ \A p : p \in DOMAIN BagOf(d) <=> Where(d, p) # {}
      /\ \A p : IsFiniteSet(Where(d, p)) /\ Cardinality(Where(d, p)) \in Nat
      /\ \A p \in DOMAIN BagOf(d) : BagOf(d)[p] = Cardinality(Where(d, p)) /\ BagOf(d)[p] > 0
  BY <1>1, BagCounts
<1>6. Cardinality(Where(d, o)) = Cardinality(Where(c, o)) - 1
  BY <1>2, <1>4, FS_RemoveElement
<1>7. o \in DOMAIN BagOf(c)
  BY <1>2, <1>4
<1> DEFINE B == [p \in DOMAIN BagOf(c) |-> IF p \in DOMAIN SetToBag({o})
                                             THEN BagOf(c)[p] - SetToBag({o})[p]
                                             ELSE BagOf(c)[p]]
<1>8. \A p \in DOMAIN BagOf(c) : B[p] = Cardinality(Where(d, p))
  BY <1>3, <1>4, <1>6 DEF SetToBag
<1>9. DOMAIN B = DOMAIN BagOf(c)
  OBVIOUS
<1>10. BagOf(c) (-) SetToBag({o}) = [p \in {q \in DOMAIN B : B[q] > 0} |-> B[p]]
  BY DEF (-)
<1> HIDE DEF B
<1>11. {q \in DOMAIN B : B[q] > 0} = DOMAIN BagOf(d)
  <2>1. ASSUME NEW q \in DOMAIN B, B[q] > 0 PROVE q \in DOMAIN BagOf(d)
    <3>1. Cardinality(Where(d, q)) # 0
      BY <1>5, <1>8, <1>9, <2>1
    <3> QED BY <1>5, <3>1, FS_EmptySet
  <2>2. ASSUME NEW q \in DOMAIN BagOf(d) PROVE q \in DOMAIN B /\ B[q] > 0
    <3>1. Where(d, q) # {} /\ Cardinality(Where(d, q)) > 0
      BY <1>5
    <3>2. Where(c, q) # {}
      BY <1>2, <1>3, <3>1
    <3> QED BY <1>4, <1>8, <1>9, <3>1, <3>2
  <2> QED BY <2>1, <2>2
<1>12. BagOf(d) = [p \in DOMAIN BagOf(d) |-> Cardinality(Where(d, p))]
  BY DEF BagOf
<1>13. BagOf(d) = [p \in {q \in DOMAIN B : B[q] > 0} |-> B[p]]
  BY <1>8, <1>9, <1>11, <1>12
<1> QED BY <1>1, <1>7, <1>10, <1>13 DEF BagIn, BagToSet, o

(* As many numbered copies as places.                                      *)
LEMMA BagSize ==
  ASSUME NEW c, IsFiniteSet(DOMAIN c)
  PROVE  Cardinality(UNION {{o} \X (1 .. BagOf(c)[o]) : o \in DOMAIN BagOf(c)})
           = Cardinality(DOMAIN c)
<1> DEFINE Copy == UNION {{o} \X (1 .. BagOf(c)[o]) : o \in DOMAIN BagOf(c)}
           Pairs(o) == Bijection(1 .. BagOf(c)[o], Where(c, o))
           pick == [o \in DOMAIN BagOf(c) |-> CHOOSE g \in Pairs(o) : TRUE]
           f == [z \in Copy |-> pick[z[1]][z[2]]]
<1>1. ASSUME NEW o \in DOMAIN BagOf(c)
      PROVE  pick[o] \in Bijection(1 .. BagOf(c)[o], Where(c, o))
  <2>1. IsFiniteSet(Where(c, o)) /\ BagOf(c)[o] = Cardinality(Where(c, o))
    BY BagCounts
  <2>2. Pairs(o) # {}
    BY <2>1, FS_CardinalityType DEF ExistsBijection
  <2>3. pick[o] = CHOOSE g \in Pairs(o) : TRUE
    OBVIOUS
  <2> HIDE DEF Pairs, pick
  <2>4. pick[o] \in Pairs(o)
    BY <2>2, <2>3
  <2> QED BY <2>4 DEF Pairs
<1>2. \A o \in DOMAIN BagOf(c) : \A i \in 1 .. BagOf(c)[o] : <<o, i>> \in Copy
  OBVIOUS
<1>3. \A z \in Copy : \E o \in DOMAIN BagOf(c) : \E i \in 1 .. BagOf(c)[o] : z = <<o, i>>
  OBVIOUS
<1>4. \A o \in DOMAIN BagOf(c) : \A i \in 1 .. BagOf(c)[o] : f[<<o, i>>] = pick[o][i]
  <2> HIDE DEF pick, Copy
  <2> QED BY <1>2
<1>5. DOMAIN f = Copy
  OBVIOUS
<1> HIDE DEF Copy, Pairs, pick
<1>6. \A o \in DOMAIN BagOf(c) :
        /\ \A i \in 1 .. BagOf(c)[o] : pick[o][i] \in DOMAIN c /\ c[pick[o][i]] = o
        /\ \A i, j \in 1 .. BagOf(c)[o] : pick[o][i] = pick[o][j] => i = j
        /\ \A x \in Where(c, o) : \E i \in 1 .. BagOf(c)[o] : pick[o][i] = x
  <2> TAKE o \in DOMAIN BagOf(c)
  <2> DEFINE g == pick[o]
             S == 1 .. BagOf(c)[o]
  <2>1. g \in Bijection(S, Where(c, o))
    BY <1>1
  <2> HIDE DEF g, S
  <2>2. /\ g \in [S -> Where(c, o)]
        /\ \A i, j \in S : g[i] = g[j] => i = j
        /\ \A x \in Where(c, o) : \E i \in S : g[i] = x
    BY <2>1, Fun_BijectionProperties
  <2>3. \A i \in S : g[i] \in DOMAIN c /\ c[g[i]] = o
    BY <2>2 DEF Where
  <2> QED BY <2>2, <2>3 DEF g, S
<1>7. f \in [Copy -> DOMAIN c]
  <2>1. \A z \in Copy : f[z] \in DOMAIN c
    <3> HIDE DEF f
    <3> QED BY <1>3, <1>4, <1>6
  <2> QED BY <2>1
<1> HIDE DEF f
<1>8. \A y, z \in Copy : f[y] = f[z] => y = z
  <2> SUFFICES ASSUME NEW y \in Copy, NEW z \in Copy, f[y] = f[z]
               PROVE  y = z
    OBVIOUS
  <2>1. PICK o \in DOMAIN BagOf(c) : \E i \in 1 .. BagOf(c)[o] : y = <<o, i>>
    BY <1>3
  <2>2. PICK i \in 1 .. BagOf(c)[o] : y = <<o, i>>
    BY <2>1
  <2>3. PICK p \in DOMAIN BagOf(c) : \E j \in 1 .. BagOf(c)[p] : z = <<p, j>>
    BY <1>3
  <2>4. PICK j \in 1 .. BagOf(c)[p] : z = <<p, j>>
    BY <2>3
  <2>5. f[y] = pick[o][i] /\ f[z] = pick[p][j]
    BY <1>4, <2>2, <2>4
  <2>6. c[f[y]] = o /\ c[f[z]] = p
    BY <1>6, <2>1, <2>3, <2>5, <2>2, <2>4
  <2>7. o = p
    BY <2>6
  <2> QED BY <1>6, <2>2, <2>4, <2>5, <2>7
<1>9. \A x \in DOMAIN c : \E z \in Copy : f[z] = x
  <2> TAKE x \in DOMAIN c
  <2>1. x \in Where(c, c[x]) /\ c[x] \in DOMAIN BagOf(c)
    BY DEF Where, BagOf
  <2>2. PICK i \in 1 .. BagOf(c)[c[x]] : pick[c[x]][i] = x
    BY <1>6, <2>1
  <2>3. <<c[x], i>> \in Copy /\ f[<<c[x], i>>] = x
    BY <1>2, <1>4, <2>1, <2>2
  <2> QED BY <2>3
<1>10. f \in Bijection(Copy, DOMAIN c)
  BY <1>7, <1>8, <1>9, Fun_IsBij
<1>11. IsFiniteSet(Copy)
  BY <1>10, Fun_BijectionProperties, FS_Injection
<1>12. Cardinality(DOMAIN c) = Cardinality(Copy)
  BY <1>10, <1>11, FS_Bijection DEF ExistsBijection
<1> QED BY <1>12 DEF Copy

-----------------------------------------------------------------------------
(* The places that hold a packet, and what they hold.                      *)
Used == {pl \in Places : Content(pl) # NoPacket}
Held == [pl \in Used |-> Content(pl)]

InQueue(i, n) == <<i, "queue", n>>
InNode(i)     == <<i, "node", i>>
OnLink(i, d)  == <<i, "link", d>>

LEMMA DifferentPlaces ==
  /\ \A i, n, j, m : InQueue(i, n) = InQueue(j, m) => i = j /\ n = m
  /\ \A i, j : InNode(i) = InNode(j) => i = j
  /\ \A i, d, j, e : OnLink(i, d) = OnLink(j, e) => i = j /\ d = e
  /\ \A i, n, j : InQueue(i, n) # InNode(j)
  /\ \A i, n, j, d : InQueue(i, n) # OnLink(j, d)
  /\ \A i, j, d : InNode(i) # OnLink(j, d)
BY DEF InQueue, InNode, OnLink

(* The three kinds of places in use.                                       *)
PlacesInUse ==
  /\ DOMAIN Held = Used
  /\ \A i \in Proc : \A n \in DOMAIN queue[i] :
       InQueue(i, n) \in Used /\ Held[InQueue(i, n)] = queue[i][n]
  /\ \A i \in Proc : node[i] # NoPacket => InNode(i) \in Used /\ Held[InNode(i)] = node[i]
  /\ \A i, d \in Proc :
       link[i][d] # NoPacket => OnLink(i, d) \in Used /\ Held[OnLink(i, d)] = link[i][d]
  /\ \A x \in Used :
       \/ \E i \in Proc : \E n \in DOMAIN queue[i] : x = InQueue(i, n)
       \/ \E i \in Proc : x = InNode(i) /\ node[i] # NoPacket
       \/ \E i, d \in Proc : x = OnLink(i, d) /\ link[i][d] # NoPacket

LEMMA InUse == CrossbarTypeOK => PlacesInUse
<1> SUFFICES ASSUME CrossbarTypeOK
             PROVE  PlacesInUse
  OBVIOUS
<1>1. /\ \A i \in Proc : \A n \in DOMAIN queue[i] : InQueue(i, n) \in Places
      /\ \A i \in Proc : InNode(i) \in Places
      /\ \A i, d \in Proc : OnLink(i, d) \in Places
  BY DEF Places, InQueue, InNode, OnLink
<1>2. /\ \A i, n : Content(InQueue(i, n)) = queue[i][n]
      /\ \A i : Content(InNode(i)) = node[i]
      /\ \A i, d : Content(OnLink(i, d)) = link[i][d]
  BY DEF Content, InQueue, InNode, OnLink
<1>3. \A i \in Proc : \A n \in DOMAIN queue[i] : queue[i][n] # NoPacket
  BY PacketAssumption DEF CrossbarTypeOK
<1>4. \A x \in Places :
        \/ \E i \in Proc : \E n \in DOMAIN queue[i] : x = InQueue(i, n)
        \/ \E i \in Proc : x = InNode(i)
        \/ \E i, d \in Proc : x = OnLink(i, d)
  BY DEF Places, InQueue, InNode, OnLink
<1> HIDE DEF InQueue, InNode, OnLink
<1>5. /\ \A i \in Proc : \A n \in DOMAIN queue[i] :
           InQueue(i, n) \in Used /\ Held[InQueue(i, n)] = queue[i][n]
      /\ \A i \in Proc : node[i] # NoPacket => InNode(i) \in Used /\ Held[InNode(i)] = node[i]
      /\ \A i, d \in Proc :
           link[i][d] # NoPacket => OnLink(i, d) \in Used /\ Held[OnLink(i, d)] = link[i][d]
  BY <1>1, <1>2, <1>3 DEF Used, Held
<1>6. \A x \in Used :
       \/ \E i \in Proc : \E n \in DOMAIN queue[i] : x = InQueue(i, n)
       \/ \E i \in Proc : x = InNode(i) /\ node[i] # NoPacket
       \/ \E i, d \in Proc : x = OnLink(i, d) /\ link[i][d] # NoPacket
  <2> TAKE x \in Used
  <2>1. x \in Places /\ Content(x) # NoPacket
    BY DEF Used
  <2> QED BY <1>2, <1>4, <2>1
<1>7. DOMAIN Held = Used
  BY DEF Held
<1> QED BY <1>5, <1>6, <1>7 DEF PlacesInUse

(* There are finitely many.                                                *)
LEMMA FinitelyManyInUse == CrossbarTypeOK => IsFiniteSet(Used)
<1> SUFFICES ASSUME CrossbarTypeOK
             PROVE  IsFiniteSet(Used)
  OBVIOUS
<1> DEFINE Queued(i) == {InQueue(i, n) : n \in DOMAIN queue[i]}
           AllQueued == {Queued(i) : i \in Proc}
           Nodes == {InNode(i) : i \in Proc}
           Links == {OnLink(i, d) : i \in Proc, d \in Proc}
<1>1. ASSUME NEW i \in Proc PROVE IsFiniteSet(Queued(i))
  <2> DEFINE f == [n \in 1 .. Len(queue[i]) |-> InQueue(i, n)]
  <2>1. Len(queue[i]) \in Nat /\ DOMAIN queue[i] = 1 .. Len(queue[i])
    BY DEF CrossbarTypeOK
  <2>2. IsFiniteSet(1 .. Len(queue[i]))
    BY <2>1, FS_Interval
  <2>3. f \in Surjection(1 .. Len(queue[i]), Queued(i))
    BY <2>1 DEF Surjection
  <2> HIDE DEF f, Queued
  <2> QED BY <2>2, <2>3, FS_Surjection
<1>2. IsFiniteSet(AllQueued)
  <2> DEFINE f == [i \in Proc |-> Queued(i)]
  <2> HIDE DEF Queued
  <2>1. f \in Surjection(Proc, AllQueued)
    BY DEF Surjection
  <2> HIDE DEF f, AllQueued
  <2> QED BY <2>1, NodesAssumption, FS_Surjection
<1>3. IsFiniteSet(UNION AllQueued)
  <2> HIDE DEF Queued
  <2>1. \A T \in AllQueued : IsFiniteSet(T)
    BY <1>1
  <2> HIDE DEF AllQueued
  <2> QED BY <1>2, <2>1, FS_UNION
<1>4. IsFiniteSet(Nodes)
  <2> DEFINE f == [i \in Proc |-> InNode(i)]
  <2>1. f \in Surjection(Proc, Nodes)
    BY DEF Surjection
  <2> HIDE DEF f, Nodes
  <2> QED BY <2>1, NodesAssumption, FS_Surjection
<1>5. IsFiniteSet(Links)
  <2> DEFINE f == [x \in Proc \X Proc |-> OnLink(x[1], x[2])]
  <2>1. IsFiniteSet(Proc \X Proc)
    BY NodesAssumption, FS_Product
  <2>2. \A y \in Links : \E x \in Proc \X Proc : f[x] = y
    <3> TAKE y \in Links
    <3>1. PICK i \in Proc, d \in Proc : y = OnLink(i, d)
      OBVIOUS
    <3>2. <<i, d>> \in Proc \X Proc /\ f[<<i, d>>] = y
      BY <3>1
    <3> QED BY <3>2
  <2>3. f \in [Proc \X Proc -> Links]
    OBVIOUS
  <2> HIDE DEF f, Links
  <2>4. f \in Surjection(Proc \X Proc, Links)
    BY <2>2, <2>3 DEF Surjection
  <2> QED BY <2>1, <2>4, FS_Surjection
<1>6. Used \subseteq (UNION AllQueued) \cup (Nodes \cup Links)
  <2> SUFFICES ASSUME NEW x \in Used
               PROVE  x \in UNION AllQueued \/ x \in Nodes \/ x \in Links
    OBVIOUS
  <2>1. CASE \E i \in Proc : \E n \in DOMAIN queue[i] : x = InQueue(i, n)
    BY <2>1
  <2>2. CASE \E i \in Proc : x = InNode(i)
    BY <2>2
  <2>3. CASE \E i, d \in Proc : x = OnLink(i, d)
    BY <2>3
  <2> QED BY <2>1, <2>2, <2>3, InUse DEF PlacesInUse
<1> HIDE DEF AllQueued, Nodes, Links
<1>7. IsFiniteSet((UNION AllQueued) \cup (Nodes \cup Links))
  BY <1>3, <1>4, <1>5, FS_Union
<1> QED BY <1>6, <1>7, FS_Subset

LEMMA TransitIsHeld == InTransit = BagOf(Held)
BY DEF InTransit, Held, Used, BagOf, Where

-----------------------------------------------------------------------------
(* busReq puts the packets of outs at the end of a queue; those that are   *)
(* kept stay where they are.                                               *)
LEMMA TransitHanded ==
  ASSUME CrossbarTypeOK, CrossbarTypeOK', NEW i \in Proc, NEW outs \in Seq(Packet),
         queue' = [queue EXCEPT ![i] = @ \o outs], link' = link,
         node' = node \/ node' = [node EXCEPT ![i] = NoPacket],
         NEW kept, DOMAIN kept = {x \in Used : x = InNode(i) => node'[i] # NoPacket},
         \A x \in DOMAIN kept : kept[x] = Held[x]
  PROVE  InTransit' = BagOf(kept) (+) BagOf(outs)
<1> DEFINE k == Len(queue[i])
           D == {InQueue(i, k + n) : n \in DOMAIN outs}
           e == [x \in D |-> outs[x[3] - k]]
           S == DOMAIN kept
<1>1. PlacesInUse /\ PlacesInUse'
  BY InUse, PTL
<1>2. IsFiniteSet(S)
  BY FinitelyManyInUse, FS_Subset
<1>3. /\ \A j \in Proc : node'[j] # NoPacket => node'[j] = node[j]
      /\ \A j \in Proc : j # i => node'[j] = node[j]
  BY DEF CrossbarTypeOK
<1>4. /\ S \subseteq Used
      /\ \A j \in Proc : InNode(j) \in S => node'[j] = node[j]
      /\ \A x \in Used : x \in S \/ (x = InNode(i) /\ node'[i] = NoPacket)
  BY <1>3, DifferentPlaces DEF CrossbarTypeOK
<1>5. /\ k \in Nat /\ DOMAIN queue[i] = 1 .. k
      /\ Len(outs) \in Nat /\ DOMAIN outs = 1 .. Len(outs)
      /\ DOMAIN queue'[i] = 1 .. k + Len(outs)
      /\ \A n \in 1 .. k : queue'[i][n] = queue[i][n]
      /\ \A n \in 1 .. Len(outs) : queue'[i][k + n] = outs[n]
      /\ \A j \in Proc : j # i => queue'[j] = queue[j]
  <2>1. queue[i] \in Seq(Packet) /\ queue \in [Proc -> Seq(Packet)]
    BY DEF CrossbarTypeOK
  <2>2. queue'[i] = queue[i] \o outs
    BY <2>1
  <2> QED BY <2>1, <2>2
<1>6. /\ \A n \in DOMAIN outs : InQueue(i, k + n) \in D /\ e[InQueue(i, k + n)] = outs[n]
      /\ \A x \in D : \E n \in DOMAIN outs : x = InQueue(i, k + n)
  BY <1>5 DEF InQueue
<1>7. DOMAIN e = D
  OBVIOUS
<1> HIDE DEF k, D, e, S
<1>8. IsFiniteSet(D) /\ BagOf(e) = BagOf(outs)
  <2> DEFINE f == [n \in DOMAIN outs |-> InQueue(i, k + n)]
             g == [x \in D |-> x[3] - k]
  <2>1. f \in [DOMAIN outs -> D] /\ \A n \in DOMAIN outs : f[n] = InQueue(i, k + n)
    BY <1>6
  <2>2. \A n \in DOMAIN outs : g[InQueue(i, k + n)] = n
    <3>1. \A n \in DOMAIN outs : InQueue(i, k + n)[3] = k + n
      BY DEF InQueue
    <3>2. \A n \in DOMAIN outs : (k + n) - k = n
      BY <1>5
    <3> QED BY <1>6, <3>1, <3>2
  <2>3. g = [x \in D |-> g[x]]
    OBVIOUS
  <2> HIDE DEF f, g
  <2>4. \A x \in D : g[x] \in DOMAIN outs
    BY <1>6, <2>2
  <2>5. g \in [D -> DOMAIN outs]
    BY <2>3, <2>4
  <2>6. IsFiniteSet(DOMAIN outs)
    BY <1>5, FS_Interval
  <2>7. /\ \A n \in DOMAIN outs : g[f[n]] = n /\ e[f[n]] = outs[n]
        /\ \A x \in D : f[g[x]] = x
    BY <1>6, <2>1, <2>2
  <2>8. Moves(outs, e, f, g)
    BY <1>6, <1>7, <2>1, <2>5, <2>7 DEF Moves
  <2>9. IsFiniteSet(DOMAIN e) /\ BagOf(e) = BagOf(outs)
    BY <2>6, <2>8, BagMoved
  <2> QED BY <1>7, <2>9
<1>9. D \cap S = {}
  <2> SUFFICES ASSUME NEW x \in D, x \in S PROVE FALSE
    OBVIOUS
  <2>1. x \in Used
    BY <1>4
  <2>2. PICK n \in DOMAIN outs : x = InQueue(i, k + n)
    BY <1>6
  <2>3. \E m \in DOMAIN queue[i] : k + n = m
    BY <1>1, <2>1, <2>2, DifferentPlaces DEF PlacesInUse
  <2> QED BY <1>5, <2>2, <2>3
<1>10. Used' = S \cup D
  <2>1. ASSUME NEW x \in Used' PROVE x \in S \/ x \in D
    <3>1. CASE \E j \in Proc : \E n \in DOMAIN queue'[j] : x = InQueue(j, n)
      <4>1. PICK j \in Proc : \E n \in DOMAIN queue'[j] : x = InQueue(j, n)
        BY <3>1
      <4>2. PICK n \in DOMAIN queue'[j] : x = InQueue(j, n)
        BY <4>1
      <4>3. CASE n \in DOMAIN queue[j]
        BY <1>1, <1>4, <4>2, <4>3, DifferentPlaces DEF PlacesInUse
      <4>4. CASE n \notin DOMAIN queue[j]
        <5>1. j = i /\ n - k \in DOMAIN outs /\ k + (n - k) = n
          BY <1>5, <4>4
        <5> QED BY <1>6, <4>2, <5>1
      <4> QED BY <4>3, <4>4
    <3>2. CASE \E j \in Proc : x = InNode(j) /\ node'[j] # NoPacket
      BY <1>1, <1>3, <1>4, <3>2, DifferentPlaces DEF PlacesInUse
    <3>3. CASE \E j, d \in Proc : x = OnLink(j, d) /\ link'[j][d] # NoPacket
      BY <1>1, <1>4, <3>3, DifferentPlaces DEF PlacesInUse
    <3> QED BY <1>1, <2>1, <3>1, <3>2, <3>3 DEF PlacesInUse
  <2>2. ASSUME NEW x \in D PROVE x \in Used'
    <3>1. PICK n \in DOMAIN outs : x = InQueue(i, k + n)
      BY <1>6
    <3>2. k + n \in DOMAIN queue'[i]
      BY <1>5
    <3> QED BY <1>1, <3>1, <3>2 DEF PlacesInUse
  <2>3. ASSUME NEW x \in S PROVE x \in Used'
    <3>1. CASE \E j \in Proc : \E n \in DOMAIN queue[j] : x = InQueue(j, n)
      <4>1. \A j \in Proc : \A n \in DOMAIN queue[j] : n \in DOMAIN queue'[j]
        BY <1>5
      <4> QED BY <1>1, <3>1, <4>1 DEF PlacesInUse
    <3>2. CASE \E j \in Proc : x = InNode(j) /\ node[j] # NoPacket
      BY <1>1, <1>4, <2>3, <3>2 DEF PlacesInUse
    <3>3. CASE \E j, d \in Proc : x = OnLink(j, d) /\ link[j][d] # NoPacket
      BY <1>1, <3>3 DEF PlacesInUse
    <3> QED BY <1>1, <1>4, <2>3, <3>1, <3>2, <3>3 DEF PlacesInUse
  <2> QED BY <2>1, <2>2, <2>3
<1>11. \A x \in D : Held'[x] = e[x]
  <2> TAKE x \in D
  <2>1. PICK n \in DOMAIN outs : x = InQueue(i, k + n)
    BY <1>6
  <2>2. k + n \in DOMAIN queue'[i] /\ queue'[i][k + n] = outs[n]
    BY <1>5
  <2>3. Held'[x] = outs[n]
    BY <1>1, <2>1, <2>2 DEF PlacesInUse
  <2> QED BY <1>6, <2>1, <2>3
<1>12. \A x \in S : Held'[x] = Held[x]
  <2> TAKE x \in S
  <2>1. CASE \E j \in Proc : \E n \in DOMAIN queue[j] : x = InQueue(j, n)
    <3>1. PICK j \in Proc : \E n \in DOMAIN queue[j] : x = InQueue(j, n)
      BY <2>1
    <3>2. PICK n \in DOMAIN queue[j] : x = InQueue(j, n)
      BY <3>1
    <3>3. n \in DOMAIN queue'[j] /\ queue'[j][n] = queue[j][n]
      BY <1>5
    <3> QED BY <1>1, <3>2, <3>3 DEF PlacesInUse
  <2>2. CASE \E j \in Proc : x = InNode(j) /\ node[j] # NoPacket
    BY <1>1, <1>4, <2>2 DEF PlacesInUse
  <2>3. CASE \E j, d \in Proc : x = OnLink(j, d) /\ link[j][d] # NoPacket
    BY <1>1, <2>3 DEF PlacesInUse
  <2> QED BY <1>1, <1>4, <2>1, <2>2, <2>3 DEF PlacesInUse
<1>13. DOMAIN Held' = Used'
  BY <1>1 DEF PlacesInUse
<1>14. BagOf(Held') = BagOf(kept) (+) BagOf(e)
  <2>1. \A x \in S : Held'[x] = kept[x]
    BY <1>12 DEF S
  <2>2. Joins(kept, e, Held')
    BY <1>7, <1>9, <1>10, <1>11, <1>13, <2>1 DEF Joins, S
  <2> QED BY <1>2, <1>7, <1>8, <2>2, BagJoined DEF S
<1>15. InTransit' = BagOf(Held')
  <2>1. (InTransit = BagOf(Held))'
    BY TransitIsHeld, PTL
  <2> QED BY <2>1
<1> QED BY <1>8, <1>14, <1>15

(* A delivery takes one packet out of a node.                              *)
LEMMA TransitTaken ==
  ASSUME CrossbarTypeOK, NEW i \in Proc, node[i] # NoPacket,
         NEW S, NEW d, S = Used \ {InNode(i)}, DOMAIN d = S, \A x \in S : d[x] = Held[x]
  PROVE  /\ BagIn(node[i], InTransit)
         /\ BagOf(d) = InTransit (-) SetToBag({node[i]})
<1>1. PlacesInUse /\ IsFiniteSet(Used)
  BY InUse, FinitelyManyInUse
<1>2. InNode(i) \in DOMAIN Held /\ Held[InNode(i)] = node[i] /\ DOMAIN Held = Used
  BY <1>1 DEF PlacesInUse
<1>3. BagIn(Held[InNode(i)], BagOf(Held)) /\ BagOf(d) = BagOf(Held) (-) SetToBag({Held[InNode(i)]})
  BY <1>1, <1>2, BagWithout
<1> QED BY <1>2, <1>3, TransitIsHeld

LEMMA NodeInTransit ==
  ASSUME CrossbarTypeOK, NEW i \in Proc, node[i] # NoPacket
  PROVE  BagIn(node[i], InTransit)
<1> DEFINE S    == Used \ {InNode(i)}
           kept == [x \in S |-> Held[x]]
<1>1. DOMAIN kept = S /\ \A x \in S : kept[x] = Held[x]
  OBVIOUS
<1> HIDE DEF kept
<1> QED BY <1>1, TransitTaken

(* Packets that only change places stay in transit.                        *)
LEMMA TransitMoved ==
  ASSUME CrossbarTypeOK, CrossbarTypeOK', NEW f, NEW g, Moves(Held, Held', f, g)
  PROVE  InTransit' = InTransit
<1>1. IsFiniteSet(DOMAIN Held)
  BY FinitelyManyInUse DEF Held
<1>2. BagOf(Held') = BagOf(Held)
  BY <1>1, BagMoved
<1>3. (InTransit = BagOf(Held))'
  BY TransitIsHeld, PTL
<1> QED BY <1>2, <1>3, TransitIsHeld

(* The load loop: the head of a queue goes to the node, the rest moves up. *)
LEMMA TransitLoaded ==
  ASSUME CrossbarTypeOK, CrossbarTypeOK', NodeFreeAtLoad, TickLoad
  PROVE  InTransit' = InTransit
<1> DEFINE f == [x \in Used |-> IF x[2] = "queue" /\ Loads(x[1])
                                  THEN IF x[3] = 1 THEN InNode(x[1])
                                                   ELSE InQueue(x[1], x[3] - 1)
                                  ELSE x]
           g == [x \in Used' |-> IF x[2] = "node" THEN InQueue(x[1], 1)
                                 ELSE IF x[2] = "queue" /\ Loads(x[1])
                                   THEN InQueue(x[1], x[3] + 1)
                                 ELSE x]
<1>1. PlacesInUse /\ PlacesInUse'
  BY InUse, PTL
<1>2. /\ link' = link
      /\ \A i \in Proc : node[i] = NoPacket
      /\ \A i \in Proc : node'[i] = IF Loads(i) THEN Head(queue[i]) ELSE NoPacket
      /\ \A i \in Proc : queue'[i] = IF Loads(i) THEN Tail(queue[i]) ELSE queue[i]
  BY DEF TickLoad, Load, NodeFreeAtLoad
<1>3. \A i \in Proc : Loads(i) =>
        /\ 1 \in DOMAIN queue[i] /\ queue[i][1] = node'[i] /\ node'[i] # NoPacket
        /\ \A n : n \in DOMAIN queue'[i] <=> n + 1 \in DOMAIN queue[i] /\ n \in Nat \ {0}
        /\ \A n \in DOMAIN queue'[i] : queue'[i][n] = queue[i][n + 1] /\ n + 1 # 1
        /\ \A n \in DOMAIN queue[i] : n \in Nat
  <2> SUFFICES ASSUME NEW i \in Proc, Loads(i)
               PROVE  /\ 1 \in DOMAIN queue[i] /\ queue[i][1] = node'[i] /\ node'[i] # NoPacket
                      /\ \A n : n \in DOMAIN queue'[i] <=> n + 1 \in DOMAIN queue[i] /\ n \in Nat \ {0}
                      /\ \A n \in DOMAIN queue'[i] : queue'[i][n] = queue[i][n + 1] /\ n + 1 # 1
                      /\ \A n \in DOMAIN queue[i] : n \in Nat
    OBVIOUS
  <2> DEFINE q == queue[i]
  <2>1. q \in Seq(Packet) /\ q # <<>> /\ node'[i] = Head(q) /\ queue'[i] = Tail(q)
    BY <1>2 DEF CrossbarTypeOK, Loads
  <2> HIDE DEF q
  <2>2. 1 \in DOMAIN q /\ Head(q) = q[1] /\ q[1] \in Packet
    BY <2>1
  <2>3. /\ \A n : n \in DOMAIN Tail(q) <=> n + 1 \in DOMAIN q /\ n \in Nat \ {0}
        /\ \A n \in DOMAIN Tail(q) : Tail(q)[n] = q[n + 1] /\ n + 1 # 1
        /\ \A n \in DOMAIN q : n \in Nat
    BY <2>1
  <2> QED BY <2>1, <2>2, <2>3, PacketAssumption DEF q
<1>4. /\ \A i \in Proc : \A n \in DOMAIN queue[i] :
           f[InQueue(i, n)] = IF Loads(i) THEN IF n = 1 THEN InNode(i) ELSE InQueue(i, n - 1)
                                          ELSE InQueue(i, n)
      /\ \A i, d \in Proc : link[i][d] # NoPacket => f[OnLink(i, d)] = OnLink(i, d)
  BY <1>1 DEF PlacesInUse, InQueue, InNode, OnLink
<1>5. /\ \A i \in Proc : \A n \in DOMAIN queue'[i] :
           g[InQueue(i, n)] = IF Loads(i) THEN InQueue(i, n + 1) ELSE InQueue(i, n)
      /\ \A i \in Proc : node'[i] # NoPacket => g[InNode(i)] = InQueue(i, 1)
      /\ \A i, d \in Proc : link'[i][d] # NoPacket => g[OnLink(i, d)] = OnLink(i, d)
  BY <1>1 DEF PlacesInUse, InQueue, InNode, OnLink
<1> HIDE DEF f, g
<1>6. ASSUME NEW x \in Used
      PROVE  f[x] \in Used' /\ Held'[f[x]] = Held[x] /\ g[f[x]] = x
  <2>1. CASE \E i \in Proc : \E n \in DOMAIN queue[i] : x = InQueue(i, n)
    <3>1. PICK i \in Proc : \E n \in DOMAIN queue[i] : x = InQueue(i, n)
      BY <2>1
    <3>2. PICK n \in DOMAIN queue[i] : x = InQueue(i, n)
      BY <3>1
    <3>3. Held[x] = queue[i][n]
      BY <1>1, <3>2 DEF PlacesInUse
    <3>4. CASE ~Loads(i)
      <4>1. f[x] = x /\ queue'[i] = queue[i]
        BY <1>2, <1>4, <3>2, <3>4
      <4>2. g[x] = x
        BY <1>5, <3>2, <3>4, <4>1
      <4> QED BY <1>1, <3>2, <3>3, <4>1, <4>2 DEF PlacesInUse
    <3>5. CASE Loads(i) /\ n = 1
      <4>1. f[x] = InNode(i) /\ node'[i] = queue[i][n] /\ node'[i] # NoPacket
        BY <1>3, <1>4, <3>2, <3>5
      <4>2. g[InNode(i)] = x
        BY <1>5, <3>2, <3>5, <4>1
      <4> QED BY <1>1, <3>3, <4>1, <4>2 DEF PlacesInUse
    <3>6. CASE Loads(i) /\ n # 1
      <4> DEFINE m == n - 1
      <4>1. n \in Nat /\ m + 1 = n
        BY <1>3, <3>6
      <4>2. f[x] = InQueue(i, m)
        BY <1>4, <3>2, <3>6
      <4>3. n # 0
        BY <3>6 DEF CrossbarTypeOK
      <4>4. m \in Nat \ {0}
        BY <3>6, <4>1, <4>3
      <4> HIDE DEF m
      <4>5. m \in DOMAIN queue'[i] /\ queue'[i][m] = queue[i][n]
        BY <1>3, <3>6, <4>1, <4>4
      <4>6. g[InQueue(i, m)] = x
        BY <1>5, <3>2, <3>6, <4>1, <4>5
      <4> QED BY <1>1, <3>3, <4>2, <4>5, <4>6 DEF PlacesInUse
    <3> QED BY <3>4, <3>5, <3>6
  <2>2. CASE \E i, d \in Proc : x = OnLink(i, d) /\ link[i][d] # NoPacket
    <3>1. PICK i \in Proc, d \in Proc : x = OnLink(i, d) /\ link[i][d] # NoPacket
      BY <2>2
    <3>2. f[x] = x /\ g[x] = x /\ link'[i][d] = link[i][d]
      BY <1>2, <1>4, <1>5, <3>1
    <3> QED BY <1>1, <3>1, <3>2 DEF PlacesInUse
  <2> QED BY <1>1, <1>2, <2>1, <2>2 DEF PlacesInUse
<1>7. ASSUME NEW x \in Used'
      PROVE  g[x] \in Used /\ f[g[x]] = x
  <2>1. CASE \E i \in Proc : \E n \in DOMAIN queue'[i] : x = InQueue(i, n)
    <3>1. PICK i \in Proc : \E n \in DOMAIN queue'[i] : x = InQueue(i, n)
      BY <2>1
    <3>2. PICK n \in DOMAIN queue'[i] : x = InQueue(i, n)
      BY <3>1
    <3>3. CASE ~Loads(i)
      <4>1. g[x] = x /\ queue'[i] = queue[i]
        BY <1>2, <1>5, <3>2, <3>3
      <4>2. f[x] = x
        BY <1>4, <3>2, <3>3, <4>1
      <4> QED BY <1>1, <3>2, <4>1, <4>2 DEF PlacesInUse
    <3>4. CASE Loads(i)
      <4> DEFINE m == n + 1
      <4>1. g[x] = InQueue(i, m) /\ m \in DOMAIN queue[i] /\ m # 1 /\ n \in Nat
        BY <1>3, <1>5, <3>2, <3>4
      <4>2. m - 1 = n
        BY <4>1
      <4> HIDE DEF m
      <4>3. f[InQueue(i, m)] = x
        BY <1>4, <3>2, <3>4, <4>1, <4>2
      <4> QED BY <1>1, <4>1, <4>3 DEF PlacesInUse
    <3> QED BY <3>3, <3>4
  <2>2. CASE \E i \in Proc : x = InNode(i) /\ node'[i] # NoPacket
    <3>1. PICK i \in Proc : x = InNode(i) /\ node'[i] # NoPacket
      BY <2>2
    <3>2. Loads(i) /\ 1 \in DOMAIN queue[i]
      BY <1>2, <1>3, <3>1
    <3>3. g[x] = InQueue(i, 1) /\ f[InQueue(i, 1)] = x
      BY <1>4, <1>5, <3>1, <3>2
    <3> QED BY <1>1, <3>2, <3>3 DEF PlacesInUse
  <2>3. CASE \E i, d \in Proc : x = OnLink(i, d) /\ link'[i][d] # NoPacket
    <3>1. PICK i \in Proc, d \in Proc : x = OnLink(i, d) /\ link'[i][d] # NoPacket
      BY <2>3
    <3>2. f[x] = x /\ g[x] = x /\ link'[i][d] = link[i][d]
      BY <1>2, <1>4, <1>5, <3>1
    <3> QED BY <1>1, <3>1, <3>2 DEF PlacesInUse
  <2> QED BY <1>1, <2>1, <2>2, <2>3 DEF PlacesInUse
<1>8. DOMAIN Held = Used /\ DOMAIN Held' = Used'
  BY <1>1 DEF PlacesInUse
<1>9. Moves(Held, Held', f, g)
  BY <1>6, <1>7, <1>8 DEF Moves
<1> QED BY <1>9, TransitMoved

(* update(): a routed packet goes to its link, or with the winners of the  *)
(* links on to its destination; it replaces none.                          *)
LEMMA TransitUpdated ==
  ASSUME CrossbarTypeOK, CrossbarTypeOK', NoOverwrite, Update
  PROVE  InTransit' = InTransit
<1>1. PICK winner \in [Served -> Proc] :
        /\ \A d \in Served : winner[d] \in Candidates(d)
        /\ node' = [d \in Proc |-> IF d \in Served THEN Moved(winner[d], d)
                                   ELSE IF Kept(d) THEN node[d]
                                   ELSE NoPacket]
        /\ link' = [i \in Proc |-> [d \in Proc |->
                      IF d \in Served /\ winner[d] = i THEN NoPacket ELSE Moved(i, d)]]
  BY DEF Update
<1> DEFINE Wins(i, d) == d \in Served /\ winner[d] = i
           Enters(i, d) == Routed(i) /\ node[i].dest = d
           Onward(i, d) == IF Wins(i, d) THEN InNode(d) ELSE OnLink(i, d)
           Origin(i, d) == IF Enters(i, d) THEN InNode(i) ELSE OnLink(i, d)
           f == [x \in Used |->
                   CASE x[2] = "queue" -> x
                     [] x[2] = "node" -> IF Routed(x[1]) THEN Onward(x[1], node[x[1]].dest) ELSE x
                     [] x[2] = "link" -> Onward(x[1], x[3])]
           g == [x \in Used' |->
                   CASE x[2] = "queue" -> x
                     [] x[2] = "node" -> IF x[1] \in Served THEN Origin(winner[x[1]], x[1]) ELSE x
                     [] x[2] = "link" -> Origin(x[1], x[3])]
<1>2. PlacesInUse /\ PlacesInUse'
  BY InUse, PTL
<1>3. /\ queue' = queue
      /\ \A d \in Served : d \in Proc /\ winner[d] \in Proc /\ Moved(winner[d], d) # NoPacket /\ ~Kept(d)
      /\ \A d \in Served : node'[d] = Moved(winner[d], d)
      /\ \A d \in Proc : d \notin Served => node'[d] = IF Kept(d) THEN node[d] ELSE NoPacket
      /\ \A i, d \in Proc : Wins(i, d) => link'[i][d] = NoPacket
      /\ \A i, d \in Proc : ~Wins(i, d) => link'[i][d] = Moved(i, d)
  BY <1>1 DEF Update, Served, Candidates
<1>4. /\ \A i, d \in Proc : Enters(i, d) => Moved(i, d) = node[i] /\ node[i] # NoPacket
                                            /\ link[i][d] = NoPacket
      /\ \A i, d \in Proc : ~Enters(i, d) => Moved(i, d) = link[i][d]
      /\ \A i \in Proc : Routed(i) => node[i].dest \in Proc /\ Enters(i, node[i].dest)
  <2>1. \A i \in Proc : Routed(i) => node[i].dest \in Proc /\ node[i] # NoPacket
    BY PacketAssumption DEF CrossbarTypeOK, Slot, Routed
  <2>2. \A i \in Proc : Routed(i) => link[i][node[i].dest] = NoPacket
    BY DEF NoOverwrite, Update
  <2> QED BY <2>1, <2>2 DEF Moved
<1>5. /\ \A i \in Proc : \A n \in DOMAIN queue[i] : f[InQueue(i, n)] = InQueue(i, n)
      /\ \A i \in Proc : node[i] # NoPacket =>
           f[InNode(i)] = IF Routed(i) THEN Onward(i, node[i].dest) ELSE InNode(i)
      /\ \A i, d \in Proc : link[i][d] # NoPacket => f[OnLink(i, d)] = Onward(i, d)
  <2> HIDE DEF Onward
  <2> QED BY <1>2 DEF PlacesInUse, InQueue, InNode, OnLink
<1>6. /\ \A i \in Proc : \A n \in DOMAIN queue'[i] : g[InQueue(i, n)] = InQueue(i, n)
      /\ \A d \in Proc : node'[d] # NoPacket =>
           g[InNode(d)] = IF d \in Served THEN Origin(winner[d], d) ELSE InNode(d)
      /\ \A i, d \in Proc : link'[i][d] # NoPacket => g[OnLink(i, d)] = Origin(i, d)
  <2> HIDE DEF Origin
  <2> QED BY <1>2 DEF PlacesInUse, InQueue, InNode, OnLink
<1> HIDE DEF f, g, Wins, Enters
  \* what moves from i to d: where it comes from, where it goes
<1>7. ASSUME NEW i \in Proc, NEW d \in Proc, Moved(i, d) # NoPacket
      PROVE  /\ Origin(i, d) \in Used /\ Held[Origin(i, d)] = Moved(i, d)
             /\ f[Origin(i, d)] = Onward(i, d)
             /\ Onward(i, d) \in Used' /\ Held'[Onward(i, d)] = Moved(i, d)
             /\ g[Onward(i, d)] = Origin(i, d)
  <2>1. Origin(i, d) \in Used /\ Held[Origin(i, d)] = Moved(i, d) /\ f[Origin(i, d)] = Onward(i, d)
    <3>1. CASE Enters(i, d)
      <4>1. Moved(i, d) = node[i] /\ node[i] # NoPacket /\ Origin(i, d) = InNode(i)
        BY <1>4, <3>1
      <4>2. Routed(i) /\ node[i].dest = d
        BY <3>1 DEF Enters
      <4>3. f[InNode(i)] = Onward(i, d)
        <5> HIDE DEF Onward
        <5> QED BY <1>5, <4>1, <4>2
      <4> HIDE DEF Origin, Onward
      <4> QED BY <1>2, <4>1, <4>3 DEF PlacesInUse
    <3>2. CASE ~Enters(i, d)
      <4>1. Moved(i, d) = link[i][d] /\ link[i][d] # NoPacket /\ Origin(i, d) = OnLink(i, d)
        BY <1>4, <1>7, <3>2
      <4>2. f[OnLink(i, d)] = Onward(i, d)
        <5> HIDE DEF Onward
        <5> QED BY <1>5, <4>1
      <4> HIDE DEF Origin, Onward
      <4> QED BY <1>2, <4>1, <4>2 DEF PlacesInUse
    <3> QED BY <3>1, <3>2
  <2>2. Onward(i, d) \in Used' /\ Held'[Onward(i, d)] = Moved(i, d) /\ g[Onward(i, d)] = Origin(i, d)
    <3>1. CASE Wins(i, d)
      <4>1. d \in Served /\ winner[d] = i
        BY <3>1 DEF Wins
      <4>2. node'[d] = Moved(i, d) /\ Onward(i, d) = InNode(d)
        BY <1>3, <3>1, <4>1
      <4>3. g[InNode(d)] = Origin(i, d)
        <5> HIDE DEF Origin
        <5> QED BY <1>6, <1>7, <4>1, <4>2
      <4> HIDE DEF Origin, Onward
      <4> QED BY <1>2, <1>7, <4>2, <4>3 DEF PlacesInUse
    <3>2. CASE ~Wins(i, d)
      <4>1. link'[i][d] = Moved(i, d) /\ Onward(i, d) = OnLink(i, d)
        BY <1>3, <3>2
      <4>2. g[OnLink(i, d)] = Origin(i, d)
        <5> HIDE DEF Origin
        <5> QED BY <1>6, <1>7, <4>1
      <4> HIDE DEF Origin, Onward
      <4> QED BY <1>2, <1>7, <4>1, <4>2 DEF PlacesInUse
    <3> QED BY <3>1, <3>2
  <2> QED BY <2>1, <2>2
<1>8. ASSUME NEW x \in Used
      PROVE  f[x] \in Used' /\ Held'[f[x]] = Held[x] /\ g[f[x]] = x
  <2>1. CASE \E i \in Proc : \E n \in DOMAIN queue[i] : x = InQueue(i, n)
    BY <1>2, <1>3, <1>5, <1>6, <2>1 DEF PlacesInUse
  <2>2. CASE \E i \in Proc : x = InNode(i) /\ node[i] # NoPacket
    <3>1. PICK i \in Proc : x = InNode(i) /\ node[i] # NoPacket
      BY <2>2
    <3>2. CASE Routed(i)
      <4>1. node[i].dest \in Proc /\ Enters(i, node[i].dest) /\ Moved(i, node[i].dest) = node[i]
        BY <1>4, <3>2
      <4>2. Origin(i, node[i].dest) = x
        BY <3>1, <4>1
      <4> HIDE DEF Origin, Onward
      <4> QED BY <1>7, <3>1, <4>1, <4>2
    <3>3. CASE ~Routed(i)
      <4>1. Kept(i) /\ i \notin Served
        BY <1>3, <3>1, <3>3 DEF Kept
      <4>2. node'[i] = node[i] /\ f[x] = x
        BY <1>3, <1>5, <3>1, <3>3, <4>1
      <4>3. g[x] = x
        BY <1>6, <3>1, <4>1, <4>2
      <4> QED BY <1>2, <3>1, <4>2, <4>3 DEF PlacesInUse
    <3> QED BY <3>2, <3>3
  <2>3. CASE \E i, d \in Proc : x = OnLink(i, d) /\ link[i][d] # NoPacket
    <3>1. PICK i \in Proc, d \in Proc : x = OnLink(i, d) /\ link[i][d] # NoPacket
      BY <2>3
    <3>2. ~Enters(i, d) /\ Moved(i, d) = link[i][d]
      BY <1>4, <3>1
    <3>3. Origin(i, d) = x
      BY <3>1, <3>2
    <3> HIDE DEF Origin, Onward
    <3> QED BY <1>7, <3>1, <3>2, <3>3
  <2> QED BY <1>2, <2>1, <2>2, <2>3 DEF PlacesInUse
<1>9. ASSUME NEW x \in Used'
      PROVE  g[x] \in Used /\ f[g[x]] = x
  <2>1. CASE \E i \in Proc : \E n \in DOMAIN queue'[i] : x = InQueue(i, n)
    BY <1>2, <1>3, <1>5, <1>6, <2>1 DEF PlacesInUse
  <2>2. CASE \E d \in Proc : x = InNode(d) /\ node'[d] # NoPacket
    <3>1. PICK d \in Proc : x = InNode(d) /\ node'[d] # NoPacket
      BY <2>2
    <3>2. CASE d \in Served
      <4>1. winner[d] \in Proc /\ Moved(winner[d], d) # NoPacket
        BY <1>3, <3>2
      <4>2. Onward(winner[d], d) = x
        BY <3>1, <3>2 DEF Wins
      <4> HIDE DEF Origin, Onward
      <4> QED BY <1>7, <4>1, <4>2
    <3>3. CASE d \notin Served
      <4>1. Kept(d) /\ node'[d] = node[d] /\ ~Routed(d)
        BY <1>3, <3>1, <3>3 DEF Kept
      <4>2. g[x] = x
        BY <1>6, <3>1, <3>3
      <4>3. f[x] = x
        BY <1>5, <3>1, <4>1
      <4> QED BY <1>2, <3>1, <4>1, <4>2, <4>3 DEF PlacesInUse
    <3> QED BY <3>2, <3>3
  <2>3. CASE \E i, d \in Proc : x = OnLink(i, d) /\ link'[i][d] # NoPacket
    <3>1. PICK i \in Proc, d \in Proc : x = OnLink(i, d) /\ link'[i][d] # NoPacket
      BY <2>3
    <3>2. ~Wins(i, d) /\ Moved(i, d) # NoPacket
      BY <1>3, <3>1
    <3>3. Onward(i, d) = x
      BY <3>1, <3>2
    <3> HIDE DEF Origin, Onward
    <3> QED BY <1>7, <3>2, <3>3
  <2> QED BY <1>2, <2>1, <2>2, <2>3 DEF PlacesInUse
<1>10. DOMAIN Held = Used /\ DOMAIN Held' = Used'
  BY <1>2 DEF PlacesInUse
<1>11. Moves(Held, Held', f, g)
  BY <1>8, <1>9, <1>10 DEF Moves
<1> QED BY <1>11, TransitMoved

(* Packets handed over are added to those in transit, and the packet taken *)
(* from a slot, if any, is no longer one of them.                          *)
LEMMA TransitHandsOver ==
  ASSUME CrossbarTypeOK, CrossbarTypeOK',
         NEW i \in Proc, NEW outs \in Seq(Packet), HandsOver(i, outs)
  PROVE  /\ node' = node => InTransit' = InTransit (+) BagOf(outs)
         /\ Take(i) => /\ BagIn(node[i], InTransit)
                       /\ InTransit' = (InTransit (-) SetToBag({node[i]})) (+) BagOf(outs)
<1>1. queue' = [queue EXCEPT ![i] = @ \o outs] /\ link' = link
  BY HandedOver
<1>2. PlacesInUse
  BY InUse
<1>3. InNode(i) \in Used => node[i] # NoPacket
  BY <1>2, DifferentPlaces DEF PlacesInUse
<1>4. ASSUME node' = node
      PROVE  InTransit' = InTransit (+) BagOf(outs)
  <2>1. DOMAIN Held = {x \in Used : x = InNode(i) => node'[i] # NoPacket}
    BY <1>2, <1>3, <1>4 DEF PlacesInUse
  <2>2. InTransit' = BagOf(Held) (+) BagOf(outs)
    BY <1>1, <1>4, <2>1, TransitHanded
  <2> QED BY <2>2, TransitIsHeld
<1>5. ASSUME Take(i)
      PROVE  /\ BagIn(node[i], InTransit)
             /\ InTransit' = (InTransit (-) SetToBag({node[i]})) (+) BagOf(outs)
  <2> DEFINE kept == [x \in Used \ {InNode(i)} |-> Held[x]]
  <2>1. node[i] # NoPacket /\ node' = [node EXCEPT ![i] = NoPacket] /\ node'[i] = NoPacket
    BY <1>5 DEF Take, Arrived, CrossbarTypeOK
  <2>2. DOMAIN kept = Used \ {InNode(i)} /\ \A x \in Used \ {InNode(i)} : kept[x] = Held[x]
    OBVIOUS
  <2> HIDE DEF kept
  <2>3. BagIn(node[i], InTransit) /\ BagOf(kept) = InTransit (-) SetToBag({node[i]})
    BY <2>1, <2>2, TransitTaken
  <2>4. DOMAIN kept = {x \in Used : x = InNode(i) => node'[i] # NoPacket}
    BY <2>1, <2>2
  <2>5. InTransit' = BagOf(kept) (+) BagOf(outs)
    BY <1>1, <2>1, <2>2, <2>4, TransitHanded
  <2> QED BY <2>3, <2>5
<1> QED BY <1>4, <1>5

(* Nothing is in transit at first.                                         *)
LEMMA TransitInit == CrossbarInit => InTransit = EmptyBag
<1> SUFFICES ASSUME CrossbarInit
             PROVE  InTransit = EmptyBag
  OBVIOUS
<1>1. PlacesInUse
  BY PlacesInit, InUse DEF PlacesInv
<1>2. Used = {}
  BY <1>1 DEF PlacesInUse, CrossbarInit, EndpointsInit
<1>3. DOMAIN Held = {}
  BY <1>1, <1>2 DEF PlacesInUse
<1>4. BagOf(Held) = EmptyBag
  BY <1>3 DEF BagOf, EmptyBag, SetToBag
<1> QED BY <1>4, TransitIsHeld

(* The rest of a tick changes nothing of that.                             *)
LEMMA TransitTick ==
  ASSUME WindowInv, PlacesInv', TickLoad \/ Update \/ TickEnd \/ UNCHANGED crossbarVars
  PROVE  InTransit' = InTransit
<1>1. CASE TickLoad
  BY <1>1, TransitLoaded DEF WindowInv, PlacesInv
<1>2. CASE Update
  BY <1>2, TransitUpdated, WindowFree DEF WindowInv, PlacesInv
<1>3. CASE TickEnd \/ UNCHANGED crossbarVars
  <2>1. UNCHANGED <<queue, node, link>>
    BY <1>3 DEF TickEnd, EndTick, crossbarVars
  <2>2. Used' = Used
    BY <2>1 DEF Used, Places, Content
  <2> QED BY <2>1, <2>2, TransitIsHeld DEF InTransit, Places, Content
<1> QED BY <1>1, <1>2, <1>3

(* The bag of a sequence, in the words of Network.                         *)
LEMMA SentIsBagOf == \A outs : Ideal!Sent(outs) = BagOf(outs)
BY DEF Ideal!Sent, BagOf, Where, Ideal!Cardinality, Cardinality

(* The crossbar delivers every packet handed over, once, to the node it is *)
(* for: with no more nodes than ticks between two packets of a node it is  *)
(* the network that the coherence protocol assumes.                        *)
THEOREM CrossbarIsIdeal ==
  ASSUME FewNodes
  PROVE  CrossbarSpec => IsIdealNetwork
<1>1. CrossbarInit => Ideal!NetInit
  BY TransitInit DEF Ideal!NetInit, Ideal!EmptyBag, Ideal!SetToBag, EmptyBag, SetToBag
<1>2. ASSUME WindowInv, WindowInv', [CrossbarNext]_crossbarVars
      PROVE  [Ideal!NetNext]_InTransit
  <2>1. CrossbarTypeOK /\ CrossbarTypeOK' /\ PlacesInv'
    BY <1>2 DEF WindowInv, PlacesInv
  <2>2. CASE \E i \in Proc, o \in Packet : Request(i, o)
    <3>1. PICK i \in Proc, o \in Packet : Request(i, o)
      BY <2>2
    <3>2. <<o>> \in Seq(Packet) /\ HandsOver(i, <<o>>) /\ node' = node
      BY <3>1 DEF Request, HandsOver
    <3>3. InTransit' = InTransit (+) BagOf(<<o>>)
      BY <2>1, <3>2, TransitHandsOver
    <3>4. Ideal!Send(<<o>>)
      BY <3>3, SentIsBagOf DEF Ideal!Send, Ideal!(+), (+)
    <3> QED BY <3>1, <3>4 DEF Ideal!NetNext
  <2>3. CASE \E i \in Proc : TickDeliver(i)
    <3>1. PICK i \in Proc : TickDeliver(i)
      BY <2>3
    <3>2. Take(i) /\ <<>> \in Seq(Packet) /\ HandsOver(i, <<>>)
      BY <2>1, <3>1, DeliveryHandsNothing DEF TickDeliver
    <3>3. /\ BagIn(node[i], InTransit)
          /\ InTransit' = (InTransit (-) SetToBag({node[i]})) (+) BagOf(<<>>)
      BY <2>1, <3>2, TransitHandsOver
    <3>4. node[i] \in Packet
      BY <2>1, <3>2 DEF Take, Arrived, CrossbarTypeOK, Slot
    <3>5. Ideal!Deliver(node[i], <<>>)
      BY <3>3, SentIsBagOf
         DEF Ideal!Deliver, Ideal!BagIn, Ideal!BagToSet, Ideal!(+), Ideal!(-), Ideal!SetToBag,
             BagIn, BagToSet, (+), (-), SetToBag
    <3> QED BY <3>4, <3>5 DEF Ideal!NetNext
  <2>4. CASE TickLoad \/ Update \/ TickEnd \/ UNCHANGED crossbarVars
    BY <1>2, <2>1, <2>4, TransitTick
  <2> QED BY <1>2, <2>2, <2>3, <2>4 DEF CrossbarNext
<1> QED BY <1>1, <1>2, WindowInit, WindowNext, PTL DEF CrossbarSpec, IsIdealNetwork, Ideal!NetSpec

=============================================================================
