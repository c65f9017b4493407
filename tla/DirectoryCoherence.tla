------------------------- MODULE DirectoryCoherence -------------------------
(***************************************************************************)
(* The directory-coherent machine over an ideal interconnect: the nodes of *)
(* CoherenceNodes exchange messages through the bag of Network.  Memory    *)
(* operations, deliveries and callbacks interleave freely, so the          *)
(* behaviours include those of every topology, delay and arbitration the   *)
(* simulator can be built with, as long as no packet is lost.              *)
(***************************************************************************)
EXTENDS CoherenceNodes

CONSTANT MaxPackets  \* bound: no new miss while this many packets travel

ASSUME MaxPacketsAssumption == MaxPackets \in Nat

VARIABLE net

vars == <<nodeVars, net>>

PacketSet == [dest : Proc, msg : Message]

INSTANCE Network WITH Packet <- PacketSet

Init == NodesInit /\ NetInit

-----------------------------------------------------------------------------
(* How many packets of S travel: each copy of a packet has a number.       *)
Copies(S) == Cardinality(UNION {{o} \X (1 .. net[o]) : o \in S})

(* A processor starts its next load or store.                              *)
Issue(p, isRead, l) ==
  /\ MemoryRequest(p, isRead, l)
  /\ MemoryRequestSends(p, isRead, l) # <<>> => Copies(BagToSet(net)) < MaxPackets
  /\ Send(MemoryRequestSends(p, isRead, l))

(* The interconnect hands a packet to cacheReq of its destination.         *)
Receive(o) ==
  /\ BagIn(o, net)
  /\ CacheReq(o.dest, o.msg)
  /\ Deliver(o, CacheReqSends(o.dest, o.msg))

(* A cache tick with completed requests calls the processors back.         *)
Complete ==
  /\ readyReq # {}
  /\ RunCallbacks
  /\ UNCHANGED net

Next ==
  \/ \E p \in Proc, isRead \in BOOLEAN, l \in Line : Issue(p, isRead, l)
  \/ \E o \in BagToSet(net) : Receive(o)
  \/ Complete

(* Every tick of the interconnect moves packets on, and every tick of the  *)
(* cache runs the callbacks; a processor may have no operation left.       *)
Travelling == {o \in PacketSet : \/ o.msg.brt = "DATA"
                                 \/ ForDirectory(o.msg) /\ o.dest = Home[o.msg.line]}

Fairness == /\ \A o \in Travelling : WF_vars(Receive(o))
            /\ WF_vars(Complete)

Spec     == Init /\ [][Next]_vars
FairSpec == Spec /\ Fairness

-----------------------------------------------------------------------------
(* Types.  Finite bags of packets, request lists as sets.                  *)
TypeOK ==
  /\ cacheState \in [Proc -> [Line -> CacheState]]
  /\ dirState   \in [Proc -> [Line -> DirState]]
  /\ sharers    \in [Proc -> [Line -> SUBSET Proc]]
  /\ pendReq    \subseteq Request
  /\ readyReq   \subseteq Request
  /\ pendingMem \in [Proc -> BOOLEAN]
  /\ memOpTag   \in [Proc -> 0 .. TagLimit - 1]
  /\ IsABag(net) /\ BagToSet(net) \subseteq PacketSet

Waiting(p, l) == cacheState[p][l] \in Transient
Travels(d, t, l, r) == BagIn(Out(d, Msg(t, l, r)), net)

(* A slice of the directory never learns of a cache other than the one of  *)
(* its own node, and knows that one from the first request on: directory() *)
(* sets directory[procNum], never directory[replyNum].                     *)
DirectoryTracksOnlyHome ==
  \A h \in Proc, l \in Line :
    sharers[h][l] = IF dirState[h][l] = "D_INVALID" THEN {} ELSE {h}

(* As a result no FETCH and no IC_INVALIDATE ever travels: sendFetch and   *)
(* sendInvalidate always take the direct call, requests go from a node     *)
(* that is not the home to the home, and data between the two.             *)
OnlyRequestsAndDataTravel ==
  \A o \in BagToSet(net) :
    LET h == Home[o.msg.line]
    IN  /\ o.dest # o.msg.reply
        /\ \/ ForDirectory(o.msg) /\ o.dest = h
           \/ o.msg.brt = "DATA" /\ h \in {o.dest, o.msg.reply}

(* The home of a block never waits for it: cacheDirectory grants its       *)
(* processor every access, so the data the directory fetches from it is    *)
(* always there to be sent.                                                *)
HomeNeverWaits == \A l \in Line : ~Waiting(Home[l], l)

(* coherCallback finds what it is called for (cache.c asserts it): a block *)
(* waits exactly while pendReq holds a request of that processor for it.   *)
CallbackFindsRequest ==
  \A p \in Proc, l \in Line :
    Waiting(p, l) <=> \E e \in pendReq : e.proc = p /\ e.line = l

(* memOpCallback always finds the operation it completes still pending: a  *)
(* stalled processor has exactly one request on the lists of the cache and *)
(* that one carries its current tag, and a running one has none.           *)
OneRequestPerStall ==
  /\ \A e \in pendReq \cup readyReq : pendingMem[e.proc] /\ e.tag = memOpTag[e.proc]
  /\ \A e, f \in pendReq \cup readyReq : e.proc = f.proc => e = f
  /\ \A p \in Proc : pendingMem[p] => \E e \in pendReq \cup readyReq : e.proc = p
  /\ pendReq \cap readyReq = {}

(* No miss is forgotten: whatever raced with it, a block that waits has    *)
(* its request on the way to the home or its data on the way back.         *)
AnswerOnItsWay ==
  \A p \in Proc, l \in Line :
    Waiting(p, l) =>
      \/ Travels(Home[l], "BUSRD", l, p)
      \/ Travels(Home[l], "BUSWR", l, p)
      \/ Travels(p, "DATA", l, Home[l])

(* Data that comes back to the home always finds the block cached there,   *)
(* and so is sent out again: stray data is never absorbed at a home.       *)
StrayDataFindsHomeCached ==
  \A o \in BagToSet(net) :
    (o.msg.brt = "DATA" /\ o.dest = Home[o.msg.line]) =>
      cacheState[o.dest][o.msg.line] \in {"SHARED_STATE", "MODIFIED"}

-----------------------------------------------------------------------------
(* The packets on the way between p and the home of l, less one for the    *)
(* block that waits for them: what travels although nobody asked for it.   *)
Between(p, l) == {o \in BagToSet(net) : o.msg.line = l /\ p \in {o.dest, o.msg.reply}}

Surplus(p, l) == Copies(Between(p, l)) - (IF Waiting(p, l) THEN 1 ELSE 0)

(* A write to a block its home has cached is answered twice, by the fetch  *)
(* and by the invalidation; the second copy then bounces between the two   *)
(* nodes.  Traffic nobody asked for can only grow.                         *)
SurplusNeverShrinks ==
  [][\A p \in Proc, l \in Line : p # Home[l] => Surplus(p, l)' >= Surplus(p, l)]_vars

(* Every memory operation completes.                                       *)
EveryOperationCompletes == \A p \in Proc : pendingMem[p] ~> ~pendingMem[p]

-----------------------------------------------------------------------------
(* What the comments of the code promise of the protocol.                  *)

(* A block that is written is held by nobody else: a write sends           *)
(* invalidates to all other copies (directory.c:207).                      *)
SingleWriter ==
  \A p, q \in Proc, l \in Line :
    p # q /\ cacheState[p][l] = "MODIFIED" => cacheState[q][l] \notin {"SHARED_STATE", "MODIFIED"}

=============================================================================
