--------------------------- MODULE MCCrossbarBurst --------------------------
(* The crossbar with the code's own delay and more senders than that: each *)
(* of 11 nodes queues two packets for node 0 before the first tick, and    *)
(* none after it.                                                          *)
EXTENDS Crossbar

MCProc   == 0 .. 11
MCPacket == [dest : {0}]
Senders  == 1 .. 11

BeforeFirstTick == \E i \in Senders : countDown[i] \in StaleCountDown

BurstNext ==
  \/ \E i \in Senders, o \in Packet :
       /\ countDown[i] \in StaleCountDown
       /\ \A j \in 1 .. i - 1 : countDown[j] = InterDelay
       /\ phase = "idle"
       /\ BusReq(i, <<o, o>>)
       /\ UNCHANGED <<node, phase, link>>
  \/ ~BeforeFirstTick /\ TickLoad
  \/ Update
  \/ \E i \in Proc : TickDeliver(i)
  \/ TickEnd

BurstSpec == CrossbarInit /\ [][BurstNext]_crossbarVars
=============================================================================
