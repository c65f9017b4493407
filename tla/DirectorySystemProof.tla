------------------------ MODULE DirectorySystemProof ------------------------
(***************************************************************************)
(* Proofs about DirectorySystem: the directory-coherent machine on the     *)
(* crossbar implements the machine over an ideal network, for any number   *)
(* of blocks and any initial countdowns, while there are no more nodes     *)
(* than ticks between two packets of a node.  Everything proved about      *)
(* DirectoryCoherence then holds of it.                                    *)
(*                                                                         *)
(* The two proofs it puts together are those of CrossbarProof, whose steps *)
(* let nodes hand over anything at any time outside of update(), and of    *)
(* CoherenceProof, whose invariant says what the nodes hand over.          *)
(***************************************************************************)
EXTENDS DirectorySystem, TLAPS

ICP == INSTANCE CrossbarProof WITH Packet <- PacketSet, MaxQueue <- MaxPackets
AP  == INSTANCE CoherenceProof WITH net <- IC!InTransit

-----------------------------------------------------------------------------
(* The instances of the nodes are the nodes: operator by operator, what    *)
(* they send and do is the same.                                           *)
LEMMA SameNodes ==
  /\ \A p, isRead, l :
       /\ AP!MemoryRequestSends(p, isRead, l) = MemoryRequestSends(p, isRead, l)
       /\ Abstract!MemoryRequestSends(p, isRead, l) = MemoryRequestSends(p, isRead, l)
       /\ AP!MemoryRequest(p, isRead, l) <=> MemoryRequest(p, isRead, l)
       /\ Abstract!MemoryRequest(p, isRead, l) <=> MemoryRequest(p, isRead, l)
  /\ \A d, m :
       /\ AP!CacheReqSends(d, m) = CacheReqSends(d, m)
       /\ Abstract!CacheReqSends(d, m) = CacheReqSends(d, m)
       /\ AP!CacheReq(d, m) <=> CacheReq(d, m)
       /\ Abstract!CacheReq(d, m) <=> CacheReq(d, m)
  /\ AP!RunCallbacks <=> RunCallbacks
  /\ Abstract!RunCallbacks <=> RunCallbacks
<1>1. /\ \A c, t : AP!Fills(c, t) = Fills(c, t)
      /\ \A c, t : Abstract!Fills(c, t) = Fills(c, t)
  BY DEF Fills, AP!Fills, Abstract!Fills, Transient, AP!Transient, Abstract!Transient
<1>2. /\ \A c, t : AP!SendsDataBack(c, t) = SendsDataBack(c, t)
      /\ \A c, t : Abstract!SendsDataBack(c, t) = SendsDataBack(c, t)
  BY DEF SendsDataBack, AP!SendsDataBack, Abstract!SendsDataBack
<1>3. /\ \A c, t : AP!ProcessCache(c, t) = ProcessCache(c, t)
      /\ \A c, t : Abstract!ProcessCache(c, t) = ProcessCache(c, t)
  BY <1>1 DEF ProcessCache, AP!ProcessCache, Abstract!ProcessCache
<1>4. /\ \A d, m : AP!Out(d, m) = Out(d, m)
      /\ \A d, m : Abstract!Out(d, m) = Out(d, m)
  BY DEF Out, AP!Out, Abstract!Out
<1>5. /\ \A t, l, r : AP!Msg(t, l, r) = Msg(t, l, r)
      /\ \A t, l, r : Abstract!Msg(t, l, r) = Msg(t, l, r)
  BY DEF Msg, AP!Msg, Abstract!Msg
<1>6. /\ \A p, isRead, l : AP!Answer(p, isRead, l) = Answer(p, isRead, l)
      /\ \A p, isRead, l : Abstract!Answer(p, isRead, l) = Answer(p, isRead, l)
  BY DEF Answer, AP!Answer, Abstract!Answer, CacheDirectory, AP!CacheDirectory,
     Abstract!CacheDirectory, Grant, AP!Grant, Abstract!Grant, Await, AP!Await,
     Abstract!Await, Transient, AP!Transient, Abstract!Transient
<1>7. /\ \A p, isRead, l : AP!MemoryRequestSends(p, isRead, l) = MemoryRequestSends(p, isRead, l)
      /\ \A p, isRead, l : Abstract!MemoryRequestSends(p, isRead, l) = MemoryRequestSends(p, isRead, l)
  BY <1>4, <1>5, <1>6 DEF MemoryRequestSends, AP!MemoryRequestSends,
     Abstract!MemoryRequestSends
<1>8. /\ \A T, t, h, c : AP!Applied(T, t, h, c) = Applied(T, t, h, c)
      /\ \A T, t, h, c : Abstract!Applied(T, t, h, c) = Applied(T, t, h, c)
  BY <1>3 DEF Applied, AP!Applied, Abstract!Applied
<1>9. /\ \A b, h, l : AP!Plan(b, h, l) = Plan(b, h, l)
      /\ \A b, h, l : Abstract!Plan(b, h, l) = Plan(b, h, l)
  BY DEF Plan, AP!Plan, Abstract!Plan, First, AP!First, Abstract!First, Recorded,
     AP!Recorded, Abstract!Recorded
<1>10. /\ \A S : AP!InOrder(S) = InOrder(S)
       /\ \A S : Abstract!InOrder(S) = InOrder(S)
  BY DEF InOrder, AP!InOrder, Abstract!InOrder, Cardinality, AP!Cardinality,
     Abstract!Cardinality
<1>11. /\ \A T, t, h, c, l, r : AP!Dispatch(T, t, h, c, l, r) = Dispatch(T, t, h, c, l, r)
       /\ \A T, t, h, c, l, r : Abstract!Dispatch(T, t, h, c, l, r) = Dispatch(T, t, h, c, l, r)
  BY <1>2, <1>4, <1>5, <1>10 DEF Dispatch, AP!Dispatch, Abstract!Dispatch
<1>12. /\ \A m : AP!ForDirectory(m) = ForDirectory(m)
       /\ \A m : Abstract!ForDirectory(m) = ForDirectory(m)
  BY DEF ForDirectory, AP!ForDirectory, Abstract!ForDirectory
<1>13. /\ \A d, m : AP!CacheReqSends(d, m) = CacheReqSends(d, m)
       /\ \A d, m : Abstract!CacheReqSends(d, m) = CacheReqSends(d, m)
  BY <1>12, <1>2, <1>4, <1>5, <1>9, <1>8, <1>11 DEF CacheReqSends, AP!CacheReqSends,
     Abstract!CacheReqSends, DirectoryReqSends, AP!DirectoryReqSends,
     Abstract!DirectoryReqSends, BusReqSends, AP!BusReqSends, Abstract!BusReqSends
<1>14. /\ \A p, isRead, l : AP!MemoryRequest(p, isRead, l) <=> MemoryRequest(p, isRead, l)
       /\ \A p, isRead, l : Abstract!MemoryRequest(p, isRead, l) <=> MemoryRequest(p, isRead, l)
  BY <1>6 DEF MemoryRequest, AP!MemoryRequest, Abstract!MemoryRequest
<1>15. /\ \A p, l : AP!CoherCallback(p, l) <=> CoherCallback(p, l)
       /\ \A p, l : Abstract!CoherCallback(p, l) <=> CoherCallback(p, l)
  BY DEF CoherCallback, AP!CoherCallback, Abstract!CoherCallback
<1>16. /\ \A p, m : AP!BusReq(p, m) <=> BusReq(p, m)
       /\ \A p, m : Abstract!BusReq(p, m) <=> BusReq(p, m)
  BY <1>3, <1>1, <1>15 DEF BusReq, AP!BusReq, Abstract!BusReq
<1>17. /\ \A d, m : AP!CacheReq(d, m) <=> CacheReq(d, m)
       /\ \A d, m : Abstract!CacheReq(d, m) <=> CacheReq(d, m)
  BY <1>12, <1>16, <1>9, <1>8 DEF CacheReq, AP!CacheReq, Abstract!CacheReq,
     DirectoryReq, AP!DirectoryReq, Abstract!DirectoryReq
<1>18. /\ AP!RunCallbacks <=> RunCallbacks
       /\ Abstract!RunCallbacks <=> RunCallbacks
  BY DEF RunCallbacks, AP!RunCallbacks, Abstract!RunCallbacks, MemOpsDone,
     AP!MemOpsDone, Abstract!MemOpsDone
<1> QED BY <1>7, <1>14, <1>13, <1>17, <1>18

(* The ideal networks of the two instances of DirectoryCoherence, and with *)
(* them the specifications, are the same.                                  *)
LEMMA SameNetwork ==
  /\ \A outs : AP!Send(outs) <=> Abstract!Send(outs)
  /\ \A o, outs : AP!Deliver(o, outs) <=> Abstract!Deliver(o, outs)
  /\ \A o : AP!BagIn(o, IC!InTransit) <=> Abstract!BagIn(o, IC!InTransit)
  /\ AP!BagToSet(IC!InTransit) = Abstract!BagToSet(IC!InTransit)
  /\ AP!Copies(AP!BagToSet(IC!InTransit)) = Abstract!Copies(Abstract!BagToSet(IC!InTransit))
<1>1. \A outs : AP!Sent(outs) = Abstract!Sent(outs)
  BY DEF AP!Sent, Abstract!Sent, AP!Cardinality, Abstract!Cardinality
<1>2. \A b, c : AP!(+)(b, c) = Abstract!(+)(b, c)
  BY DEF AP!(+), Abstract!(+)
<1>3. \A b, c : AP!(-)(b, c) = Abstract!(-)(b, c)
  BY DEF AP!(-), Abstract!(-)
<1>4. \A S : AP!SetToBag(S) = Abstract!SetToBag(S)
  BY DEF AP!SetToBag, Abstract!SetToBag
<1>5. \A o, b : AP!BagIn(o, b) <=> Abstract!BagIn(o, b)
  BY DEF AP!BagIn, Abstract!BagIn, AP!BagToSet, Abstract!BagToSet
<1>6. \A b : AP!BagToSet(b) = Abstract!BagToSet(b)
  BY DEF AP!BagToSet, Abstract!BagToSet
<1>7. \A S : AP!Copies(S) = Abstract!Copies(S)
  BY DEF AP!Copies, Abstract!Copies, AP!Cardinality, Abstract!Cardinality
<1> QED BY <1>1, <1>2, <1>3, <1>4, <1>5, <1>6, <1>7
        DEF AP!Send, Abstract!Send, AP!Deliver, Abstract!Deliver

LEMMA SameSpec == AP!Spec <=> Abstract!Spec
<1>1. AP!Init <=> Abstract!Init
  BY DEF AP!Init, Abstract!Init, AP!NodesInit, Abstract!NodesInit, AP!NetInit, Abstract!NetInit,
     AP!EmptyBag, Abstract!EmptyBag, AP!SetToBag, Abstract!SetToBag
<1>2. AP!Next <=> Abstract!Next
  <2>1. \A p, isRead, l : AP!Issue(p, isRead, l) <=> Abstract!Issue(p, isRead, l)
    BY SameNodes, SameNetwork DEF AP!Issue, Abstract!Issue
  <2>2. \A o : AP!Receive(o) <=> Abstract!Receive(o)
    BY SameNodes, SameNetwork DEF AP!Receive, Abstract!Receive
  <2>3. AP!Complete <=> Abstract!Complete
    BY SameNodes DEF AP!Complete, Abstract!Complete
  <2> QED BY <2>1, <2>2, <2>3, SameNetwork DEF AP!Next, Abstract!Next
<1>3. [AP!Next]_(AP!vars) <=> [Abstract!Next]_(Abstract!vars)
  BY <1>2 DEF AP!vars, Abstract!vars, AP!nodeVars, Abstract!nodeVars
<1> QED BY <1>1, <1>3, PTL DEF AP!Spec, Abstract!Spec

-----------------------------------------------------------------------------
(* No more nodes than ticks between two packets of a node: INTER_DELAY is  *)
(* 10 in the code.                                                         *)
FewNodes == Cardinality(Proc) <= InterDelay

(* The inductive invariant: that of the network and that of the nodes, the *)
(* network being what is in transit on the crossbar.                       *)
SystemInv == ICP!WindowInv /\ AP!IInv

(* What CrossbarProof and CoherenceProof assume of their constants.        *)
LEMMA NetworkFits ==
  /\ ICP!IsFiniteSet(Proc)
  /\ InterDelay \in Nat \ {0}
  /\ StaleCountDown \subseteq Int /\ StaleCountDown # {}
  /\ NoPacket \notin PacketSet /\ \A o \in PacketSet : o.dest \in Proc
BY ProcAssumption, DelayAssumption, StaleAssumption, NoPacketAssumption
   DEF PacketSet, ICP!IsFiniteSet, IsFiniteSet

LEMMA NodesFit ==
  /\ Proc \subseteq Nat /\ AP!IsFiniteSet(Proc)
  /\ Home \in [Line -> Proc]
  /\ TagLimit \in Nat \ {0}
  /\ ScanLimit \in Nat
  /\ MaxPackets \in Nat
BY ProcAssumption, HomeAssumption, TagAssumption, ScanAssumption, MaxPacketsAssumption
   DEF AP!IsFiniteSet, IsFiniteSet

LEMMA FewNodesFit == FewNodes => ICP!FewNodes
BY DEF FewNodes, ICP!FewNodes, Cardinality, ICP!Cardinality

(* What is in transit, and how many places hold it, in both instances.     *)
LEMMA SameTransit ==
  /\ IC!InTransit = ICP!InTransit
  /\ Travelling = ICP!Cardinality(ICP!Used)
<1>1. IC!Places = ICP!Places
  BY DEF IC!Places, ICP!Places
<1>2. \A pl : IC!Content(pl) = ICP!Content(pl)
  BY DEF IC!Content, ICP!Content
<1>3. \A S : IC!Cardinality(S) = ICP!Cardinality(S) /\ Cardinality(S) = ICP!Cardinality(S)
  BY DEF IC!Cardinality, ICP!Cardinality, Cardinality
<1>4. IC!InTransit = ICP!InTransit
  BY <1>1, <1>2, <1>3 DEF IC!InTransit, ICP!InTransit
<1>5. Travelling = ICP!Cardinality(ICP!Used)
  BY <1>1, <1>2, <1>3 DEF Travelling, ICP!Used
<1> QED BY <1>4, <1>5

(* What the nodes hand over are packets: the invariant of the nodes says   *)
(* that a directory slice answers by nothing but data.                     *)
LEMMA IssueSends ==
  ASSUME AP!IInv, NEW p \in Proc, NEW isRead \in BOOLEAN, NEW l \in Line
  PROVE  MemoryRequestSends(p, isRead, l) \in Seq(PacketSet)
<1> DEFINE t == AP!Answer(p, isRead, l).sent
<1>1. t \in {"NO_REQ", "BUSRD", "BUSWR"}
  BY AP!AccessAnswer, NodesFit DEF AP!IInv
<1>2. AP!MemoryRequestSends(p, isRead, l) =
        IF t = "NO_REQ" THEN <<>> ELSE <<AP!Out(Home[l], AP!Msg(t, l, p))>>
  BY DEF AP!MemoryRequestSends
<1>3. t # "NO_REQ" => AP!Out(Home[l], AP!Msg(t, l, p)) \in PacketSet
  BY <1>1, HomeAssumption DEF AP!Out, AP!Msg, PacketSet, Message, ReqType
<1>4. MemoryRequestSends(p, isRead, l) = AP!MemoryRequestSends(p, isRead, l)
  BY SameNodes
<1> HIDE DEF t
<1> DEFINE o == AP!Out(Home[l], AP!Msg(t, l, p))
<1> HIDE DEF o
<1>5. <<>> \in Seq(PacketSet) /\ (o \in PacketSet => <<o>> \in Seq(PacketSet))
  OBVIOUS
<1> QED BY <1>2, <1>3, <1>4, <1>5 DEF o

LEMMA ReceiveSends ==
  ASSUME AP!IInv, NEW o, AP!BagIn(o, IC!InTransit)
  PROVE  CacheReqSends(o.dest, o.msg) \in Seq(PacketSet)
<1>1. o.dest \in Proc /\ o.msg.line \in Line /\ o.msg.reply \in Proc
  BY AP!Arriving, NodesFit
<1>2. AP!CacheReqSends(o.dest, o.msg) \in {<<>>, <<AP!Echo(o)>>, <<AP!Echo(o), AP!Echo(o)>>}
  BY AP!AnswersAreEchoes, NodesFit
<1>3. AP!Echo(o) \in PacketSet
  BY <1>1 DEF AP!Echo, AP!Out, AP!Msg, PacketSet, Message, ReqType
<1>4. CacheReqSends(o.dest, o.msg) = AP!CacheReqSends(o.dest, o.msg)
  BY SameNodes
<1> DEFINE e == AP!Echo(o)
<1> HIDE DEF e
<1>5. /\ <<>> \in Seq(PacketSet)
      /\ e \in PacketSet => <<e>> \in Seq(PacketSet) /\ <<e, e>> \in Seq(PacketSet)
  OBVIOUS
<1> QED BY <1>2, <1>3, <1>4, <1>5 DEF e

-----------------------------------------------------------------------------
(* The network under any traffic: its invariant holds, what is handed over *)
(* is sent and what is taken delivered, its ticks change nothing of that.  *)
LEMMA NetworkStep ==
  ASSUME FewNodes, ICP!WindowInv, [ICP!TrafficStep]_(ICP!crossbarVars)
  PROVE  ICP!WindowInv'
BY ICP!WindowStep, NetworkFits, FewNodesFit

LEMMA NetworkHandsOver ==
  ASSUME ICP!PlacesInv, ICP!PlacesInv', NEW i \in Proc, NEW outs \in Seq(PacketSet),
         ICP!HandsOver(i, outs)
  PROVE  /\ node' = node => AP!Send(outs)
         /\ ICP!Take(i) => AP!Deliver(node[i], outs)
<1>1. /\ node' = node => ICP!InTransit' = ICP!(+)(ICP!InTransit, ICP!BagOf(outs))
      /\ ICP!Take(i) =>
           /\ ICP!BagIn(node[i], ICP!InTransit)
           /\ ICP!InTransit' = ICP!(+)(ICP!(-)(ICP!InTransit, ICP!SetToBag({node[i]})),
                                       ICP!BagOf(outs))
  BY ICP!TransitHandsOver, NetworkFits DEF ICP!PlacesInv
<1>2. (IC!InTransit = ICP!InTransit) /\ (IC!InTransit = ICP!InTransit)'
  BY SameTransit, PTL
<1>3. ICP!BagOf(outs) = AP!Sent(outs)
  BY DEF ICP!BagOf, ICP!Where, AP!Sent, ICP!Cardinality, AP!Cardinality
<1>4. /\ \A b, c : ICP!(+)(b, c) = AP!(+)(b, c)
      /\ \A b, c : ICP!(-)(b, c) = AP!(-)(b, c)
      /\ \A S : ICP!SetToBag(S) = AP!SetToBag(S)
      /\ \A o, b : ICP!BagIn(o, b) <=> AP!BagIn(o, b)
  BY DEF ICP!(+), AP!(+), ICP!(-), AP!(-), ICP!SetToBag, AP!SetToBag,
         ICP!BagIn, AP!BagIn, ICP!BagToSet, AP!BagToSet
<1> QED BY <1>1, <1>2, <1>3, <1>4 DEF AP!Send, AP!Deliver

LEMMA NetworkTicks ==
  ASSUME ICP!WindowInv, ICP!PlacesInv',
         ICP!TickLoad \/ ICP!Update \/ ICP!TickEnd \/ UNCHANGED ICP!crossbarVars
  PROVE  IC!InTransit' = IC!InTransit
<1>1. ICP!InTransit' = ICP!InTransit
  BY ICP!TransitTick, NetworkFits
<1>2. (IC!InTransit = ICP!InTransit) /\ (IC!InTransit = ICP!InTransit)'
  BY SameTransit, PTL
<1> QED BY <1>1, <1>2

(* The bound on the packets in use is the bound on the packets on the way. *)
LEMMA TravellingCounts ==
  ASSUME ICP!CrossbarTypeOK
  PROVE  Travelling = AP!Copies(AP!BagToSet(IC!InTransit))
<1>1. ICP!IsFiniteSet(ICP!Used)
  BY ICP!FinitelyManyInUse, NetworkFits
<1>2. ICP!InTransit = ICP!BagOf(ICP!Held) /\ DOMAIN ICP!Held = ICP!Used
  BY ICP!TransitIsHeld, NetworkFits DEF ICP!Held
<1> DEFINE b == ICP!BagOf(ICP!Held)
<1>3. ICP!Cardinality(UNION {{o} \X (1 .. b[o]) : o \in DOMAIN b}) = ICP!Cardinality(ICP!Used)
  BY <1>1, <1>2, ICP!BagSize, NetworkFits
<1>4. b = IC!InTransit
  BY <1>2, SameTransit
<1> HIDE DEF b
<1>5. \A S : AP!Cardinality(S) = ICP!Cardinality(S)
  BY DEF AP!Cardinality, ICP!Cardinality
<1>6. AP!Copies(AP!BagToSet(b)) = ICP!Cardinality(UNION {{o} \X (1 .. b[o]) : o \in DOMAIN b})
  BY <1>4, <1>5 DEF AP!Copies, AP!BagToSet
<1> QED BY <1>3, <1>4, <1>6, SameTransit

-----------------------------------------------------------------------------
(* One step of the machine is one of DirectoryCoherence, or the nodes do   *)
(* not take part in it.                                                    *)
LEMMA SystemInit ==
  ASSUME Init
  PROVE  SystemInv /\ AP!Init
<1>1. ICP!CrossbarInit
  BY DEF Init, IC!CrossbarInit, ICP!CrossbarInit, IC!EndpointsInit, ICP!EndpointsInit
<1>2. ICP!WindowInv /\ ICP!InTransit = ICP!EmptyBag
  BY <1>1, ICP!WindowInit, ICP!TransitInit, NetworkFits
<1>3. AP!Init
  <2>1. AP!NodesInit
    BY DEF Init, NodesInit, AP!NodesInit
  <2>2. IC!InTransit = AP!EmptyBag
    BY <1>2, SameTransit DEF ICP!EmptyBag, AP!EmptyBag, ICP!SetToBag, AP!SetToBag
  <2> QED BY <2>1, <2>2 DEF AP!Init, AP!NetInit
<1>4. AP!IInv
  BY <1>3, AP!InitInv, NodesFit
<1> QED BY <1>2, <1>3, <1>4 DEF SystemInv

LEMMA IssueStep ==
  ASSUME FewNodes, SystemInv,
         NEW p \in Proc, NEW isRead \in BOOLEAN, NEW l \in Line, Issue(p, isRead, l)
  PROVE  ICP!WindowInv' /\ AP!Issue(p, isRead, l)
<1> DEFINE outs == MemoryRequestSends(p, isRead, l)
<1>1. outs \in Seq(PacketSet)
  BY IssueSends DEF SystemInv
<1>2. ICP!HandsOver(p, outs) /\ node' = node
  BY DEF Issue, IC!BusReq, ICP!BusReq, ICP!HandsOver
<1>3. outs # <<>> => AP!Copies(AP!BagToSet(IC!InTransit)) < MaxPackets
  BY TravellingCounts DEF Issue, SystemInv, ICP!WindowInv, ICP!PlacesInv
<1>4. MemoryRequest(p, isRead, l)
  BY DEF Issue
<1> HIDE DEF outs
<1>5. ICP!WindowInv'
  BY <1>1, <1>2, NetworkStep DEF SystemInv, ICP!TrafficStep
<1>6. AP!Send(outs)
  BY <1>1, <1>2, <1>5, NetworkHandsOver DEF SystemInv, ICP!WindowInv
<1> QED BY <1>3, <1>4, <1>5, <1>6, SameNodes DEF AP!Issue, outs

LEMMA ReceiveStep ==
  ASSUME FewNodes, SystemInv, NEW d \in Proc, Receive(d)
  PROVE  ICP!WindowInv' /\ node[d] \in AP!BagToSet(IC!InTransit) /\ AP!Receive(node[d])
<1> DEFINE o    == node[d]
           outs == CacheReqSends(d, o.msg)
<1>1. ICP!Take(d) /\ o.dest = d
  BY DEF Receive, IC!Take, ICP!Take, IC!Arrived, ICP!Arrived
<1>2. AP!BagIn(o, IC!InTransit)
  <2>1. ICP!BagIn(node[d], ICP!InTransit)
    BY <1>1, ICP!NodeInTransit, NetworkFits
       DEF SystemInv, ICP!WindowInv, ICP!PlacesInv, ICP!Take, ICP!Arrived
  <2> QED BY <2>1, SameTransit DEF ICP!BagIn, AP!BagIn, ICP!BagToSet, AP!BagToSet
<1>3. outs \in Seq(PacketSet)
  BY <1>1, <1>2, ReceiveSends DEF SystemInv
<1>4. ICP!HandsOver(d, outs)
  BY <1>1 DEF Receive, IC!BusReq, ICP!BusReq, ICP!HandsOver, ICP!Take
<1>5. CacheReq(d, o.msg)
  BY DEF Receive
<1> HIDE DEF outs
<1>6. ICP!WindowInv'
  BY <1>3, <1>4, NetworkStep DEF SystemInv, ICP!TrafficStep
<1>7. AP!Deliver(o, outs)
  BY <1>1, <1>3, <1>4, <1>6, NetworkHandsOver DEF SystemInv, ICP!WindowInv
<1>8. AP!Receive(o)
  BY <1>1, <1>2, <1>5, <1>7, SameNodes DEF AP!Receive, outs
<1>9. o \in AP!BagToSet(IC!InTransit)
  BY <1>2 DEF AP!BagIn
<1> QED BY <1>6, <1>8, <1>9

LEMMA TickStep ==
  ASSUME FewNodes, SystemInv, Load \/ Update \/ Complete \/ UNCHANGED vars
  PROVE  ICP!WindowInv' /\ (AP!Complete \/ UNCHANGED AP!vars)
<1>1. ICP!TickLoad \/ ICP!Update \/ ICP!TickEnd \/ UNCHANGED ICP!crossbarVars
  <2>1. CASE Load
    BY <2>1 DEF Load, IC!TickLoad, ICP!TickLoad, IC!Load, ICP!Load, IC!Loads, ICP!Loads
  <2>2. CASE Update
    BY <2>2 DEF Update, IC!Update, ICP!Update, IC!Served, ICP!Served, IC!Candidates, ICP!Candidates,
                IC!Kept, ICP!Kept, IC!Moved, ICP!Moved, IC!Routed, ICP!Routed
  <2>3. CASE Complete
    BY <2>3 DEF Complete, IC!EndTick, ICP!EndTick, ICP!TickEnd, IC!Arrived, ICP!Arrived
  <2>4. CASE UNCHANGED vars
    BY <2>4 DEF vars, ICP!crossbarVars
  <2> QED BY <2>1, <2>2, <2>3, <2>4
<1>2. ICP!WindowInv'
  BY <1>1, NetworkStep DEF SystemInv, ICP!TrafficStep
<1>3. IC!InTransit' = IC!InTransit
  BY <1>1, <1>2, NetworkTicks DEF SystemInv, ICP!WindowInv
<1>4. CASE UNCHANGED nodeVars
  BY <1>2, <1>3, <1>4 DEF nodeVars, AP!vars, AP!nodeVars
<1>5. CASE Complete
  <2>1. RunCallbacks
    BY <1>5 DEF Complete
  <2>2. CASE readyReq # {}
    BY <1>2, <1>3, <2>1, <2>2, SameNodes DEF AP!Complete
  <2>3. CASE readyReq = {}
    <3>1. /\ pendingMem \in [Proc -> BOOLEAN]
          /\ memOpTag \in [Proc -> 0 .. TagLimit - 1]
      BY DEF SystemInv, AP!IInv, AP!TypeOK
    <3>2. MemOpsDone = {}
      BY <2>3 DEF MemOpsDone
    <3>3. /\ pendingMem' = [p \in Proc |-> pendingMem[p] /\ p \notin {}]
          /\ memOpTag' = [p \in Proc |-> IF p \in {} THEN (memOpTag[p] + 1) % TagLimit
                                                     ELSE memOpTag[p]]
          /\ UNCHANGED <<cacheState, dirState, sharers, pendReq>>
          /\ readyReq' = readyReq
      BY <2>1, <2>3, <3>2 DEF RunCallbacks
    <3>4. memOpTag' = memOpTag
      BY <3>1, <3>3
    <3>5. pendingMem' = pendingMem
      <4>1. pendingMem' \in [Proc -> BOOLEAN] /\ \A p \in Proc : pendingMem'[p] <=> pendingMem[p]
        BY <3>3
      <4> QED BY <3>1, <4>1
    <3>6. UNCHANGED nodeVars
      BY <3>3, <3>4, <3>5 DEF nodeVars
    <3> QED BY <1>4, <3>6
  <2> QED BY <2>2, <2>3
<1> QED BY <1>4, <1>5 DEF Load, Update, vars

LEMMA SystemStep ==
  ASSUME FewNodes, SystemInv, [Next]_vars
  PROVE  SystemInv' /\ [AP!Next]_(AP!vars)
<1>1. ICP!WindowInv' /\ [AP!Next]_(AP!vars)
  BY IssueStep, ReceiveStep, TickStep DEF Next, AP!Next
<1>2. AP!IInv'
  BY <1>1, AP!NextInv, NodesFit DEF SystemInv
<1> QED BY <1>1, <1>2 DEF SystemInv

(* Both invariants hold together.                                          *)
THEOREM SystemInvariant ==
  ASSUME FewNodes
  PROVE  Spec => []SystemInv
<1>1. SystemInv /\ [Next]_vars => SystemInv'
  BY SystemStep
<1> QED BY <1>1, SystemInit, PTL DEF Spec

(* The machine on the crossbar is the machine over an ideal network: no    *)
(* packet that a handler sends is lost, doubled or handled elsewhere, and  *)
(* what nodes and directory do between the ticks is what the protocol      *)
(* does with its messages in some order.                                   *)
THEOREM SystemIsCoherent ==
  ASSUME FewNodes
  PROVE  Spec => ImplementsCoherence
<1>1. SystemInv /\ [Next]_vars => SystemInv' /\ [AP!Next]_(AP!vars)
  BY SystemStep
<1>2. Spec => AP!Spec
  BY <1>1, SystemInit, PTL DEF Spec, AP!Spec
<1> QED BY <1>2, SameSpec DEF ImplementsCoherence

(* What the protocol sends never meets a packet on its link, and no queue  *)
(* it fills falls asleep.                                                  *)
THEOREM SystemLosesNothing ==
  ASSUME FewNodes
  PROVE  Spec => [](IC!NoOverwrite /\ IC!NoSleepingQueue)
<1>1. ICP!WindowInv => ICP!NoOverwrite /\ ICP!NoSleepingQueue
  BY ICP!WindowFree, NetworkFits DEF ICP!WindowInv, ICP!PlacesInv
<1>2. SystemInv => IC!NoOverwrite /\ IC!NoSleepingQueue
  BY <1>1 DEF SystemInv, IC!NoOverwrite, ICP!NoOverwrite, IC!NoSleepingQueue,
     ICP!NoSleepingQueue, IC!Routed, ICP!Routed
<1> QED BY <1>2, SystemInvariant, PTL

(* On the crossbar, too, every completion finds the operation it completes *)
(* and every stalled processor has exactly one request for it.             *)
THEOREM SystemCompletionsMatch ==
  ASSUME FewNodes
  PROVE  Spec => []Abstract!OneRequestPerStall
<1>1. SystemInv => Abstract!OneRequestPerStall
  BY DEF SystemInv, AP!IInv, AP!OneRequestPerStall, Abstract!OneRequestPerStall
<1> QED BY <1>1, SystemInvariant, PTL

(* On the crossbar, too, a block that waits has its request or its data in *)
(* transit, where the loops over directory[] reach every home.             *)
THEOREM SystemForgetsNoMiss ==
  ASSUME FewNodes, \A l \in Line : Home[l] < ScanLimit
  PROVE  Spec => []Abstract!AnswerOnItsWay
<1>1. AP!Spec => []AP!AnswerOnItsWay
  BY AP!NoMissForgotten, NodesFit DEF AP!ScansReachHomes
<1>2. AP!AnswerOnItsWay => Abstract!AnswerOnItsWay
  BY DEF AP!AnswerOnItsWay, Abstract!AnswerOnItsWay, AP!Waiting, Abstract!Waiting,
     AP!Transient, Abstract!Transient, AP!Travels, Abstract!Travels, AP!BagIn, Abstract!BagIn,
     AP!BagToSet, Abstract!BagToSet, AP!Out, Abstract!Out, AP!Msg, Abstract!Msg
<1> QED BY <1>1, <1>2, SameSpec, SystemIsCoherent, PTL DEF ImplementsCoherence

(* On the crossbar, too, stray data only reaches a home that has its block *)
(* cached and sends it back.                                               *)
THEOREM SystemBouncesStrayData ==
  ASSUME FewNodes
  PROVE  Spec => []Abstract!StrayDataFindsHomeCached
<1>1. AP!StrayDataFindsHomeCached => Abstract!StrayDataFindsHomeCached
  BY DEF AP!StrayDataFindsHomeCached, Abstract!StrayDataFindsHomeCached, AP!BagToSet,
         Abstract!BagToSet
<1>2. AP!Spec => []AP!StrayDataFindsHomeCached
  BY AP!StrayDataBounces, NodesFit
<1> QED BY <1>1, <1>2, SameSpec, SystemIsCoherent, PTL DEF ImplementsCoherence

(* On the crossbar, too, what travels without having been asked for never  *)
(* becomes less, where the loops over directory[] reach every home: queues *)
(* and links are never rid of it.                                          *)
THEOREM SystemKeepsSurplus ==
  ASSUME FewNodes, \A l \in Line : Home[l] < ScanLimit
  PROVE  Spec => Abstract!SurplusNeverShrinks
<1>1. AP!Spec => AP!SurplusNeverShrinks
  BY AP!SurplusStays, NodesFit DEF AP!ScansReachHomes
<1>2. \A p, l : AP!Surplus(p, l) = Abstract!Surplus(p, l)
  <2>1. \A S : AP!Copies(S) = Abstract!Copies(S)
    BY DEF AP!Copies, Abstract!Copies, AP!Cardinality, Abstract!Cardinality
  <2>2. \A p, l : AP!Between(p, l) = Abstract!Between(p, l)
    BY DEF AP!Between, Abstract!Between, AP!BagToSet, Abstract!BagToSet
  <2>3. \A p, l : AP!Waiting(p, l) <=> Abstract!Waiting(p, l)
    BY DEF AP!Waiting, Abstract!Waiting, AP!Transient, Abstract!Transient
  <2> QED BY <2>1, <2>2, <2>3 DEF AP!Surplus, Abstract!Surplus
<1> DEFINE Keeps == \A p \in Proc, l \in Line : p # Home[l] => AP!Surplus(p, l)' >= AP!Surplus(p, l)
           Kept  == \A p \in Proc, l \in Line : p # Home[l] => Abstract!Surplus(p, l)' >= Abstract!Surplus(p, l)
<1>3. (\A p, l : AP!Surplus(p, l) = Abstract!Surplus(p, l))'
  BY <1>2, PTL
<1>4. AP!vars = Abstract!vars
  BY DEF AP!vars, Abstract!vars, AP!nodeVars, Abstract!nodeVars
<1>5. (AP!vars = Abstract!vars)'
  BY <1>4, PTL
<1>6. [Keeps]_(AP!vars) => [Kept]_(Abstract!vars)
  BY <1>2, <1>3, <1>4, <1>5
<1>7. AP!SurplusNeverShrinks => Abstract!SurplusNeverShrinks
  BY <1>6, PTL DEF AP!SurplusNeverShrinks, Abstract!SurplusNeverShrinks
<1> QED BY <1>1, <1>7, SameSpec, SystemIsCoherent, PTL DEF ImplementsCoherence

=============================================================================
