-------------------------- MODULE MCIceNegotiation --------------------------
(* The instance of IceNegotiation that TLC checks: two joins, so that every  *)
(* message of the first can meet the second.                                 *)
EXTENDS IceNegotiation
=============================================================================
