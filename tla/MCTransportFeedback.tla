------------------------- MODULE MCTransportFeedback -------------------------
(* Two streams of one connection.                                            *)
EXTENDS TransportFeedback

Symmetry == Permutations(Ssrcs)
=============================================================================
