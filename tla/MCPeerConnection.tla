--------------------------- MODULE MCPeerConnection ---------------------------
(* Instances of PeerConnection: one user, whose connection may be replaced once. *)
(* The proofs cover any number of users and generations.                         *)
EXTENDS PeerConnectionLifecycle

CONSTANT u1

OneUser == {u1}
JoinLeave == {"join", "leave"}
AllSignals == SignalKinds
NoFaults == {}
AllFaults == FaultKinds
NoAppOps == {}
AllAppOps == AppKinds
=============================================================================
