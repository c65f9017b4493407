----------------------------- MODULE MCCrossbar -----------------------------
(* Small instances of Crossbar.  A packet is told apart by its destination *)
(* and a payload.                                                          *)
EXTENDS Crossbar, TLC

CONSTANT Data    \* payloads

MCPacket == [dest : Proc, data : Data]
MCStale  == {-1, 0, InterDelay + 1}
MCSymmetry == Permutations(Proc)
=============================================================================
