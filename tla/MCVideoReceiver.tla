--------------------------- MODULE MCVideoReceiver ---------------------------
(* Instances of VideoReceiver for TLC.                                       *)
EXTENDS VideoReceiver

\* three frames of two, one and one packets
MCLastPacket == [f \in 1 .. 3 |-> <<2, 3, 4>>[f]]
=============================================================================
