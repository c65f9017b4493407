------------------------------ MODULE Network -------------------------------
(***************************************************************************)
(* What the coherence protocol needs of an interconnect: every message     *)
(* handed to busReq is delivered to its destination once, and only then is *)
(* it gone.  Nothing is lost, duplicated or invented; nothing is said of   *)
(* the order, which depends on the topology.                               *)
(***************************************************************************)
EXTENDS Naturals, Sequences, FiniteSets, Bags

CONSTANT Packet   \* what travels: a destination and a message for it

VARIABLE net      \* the bag of packets handed over and not yet delivered

(* The bag of the packets of a sequence.                                   *)
Sent(outs) ==
  [o \in {outs[i] : i \in DOMAIN outs} |-> Cardinality({i \in DOMAIN outs : outs[i] = o})]

NetInit == net = EmptyBag

Send(outs)       == net' = net (+) Sent(outs)
Deliver(o, outs) == /\ BagIn(o, net)
                    /\ net' = (net (-) SetToBag({o})) (+) Sent(outs)

(* One step of the network by itself: endpoints hand over packets, or one  *)
(* packet arrives.                                                         *)
NetNext == \/ \E o \in Packet : Send(<<o>>)
           \/ \E o \in Packet : Deliver(o, <<>>)

NetSpec == NetInit /\ [][NetNext]_net
=============================================================================
