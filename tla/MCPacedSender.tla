--------------------------- MODULE MCPacedSender ---------------------------
(* The instance of PacedSender that TLC checks: the intervals of the code in *)
(* the same order, a few ticks each.                                         *)
EXTENDS PacedSender
=============================================================================
