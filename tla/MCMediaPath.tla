---------------------------- MODULE MCMediaPath -----------------------------
(* The instance of MediaPath that TLC checks: one lost record, and two       *)
(* rechecks, failures or departures.                                         *)
EXTENDS MediaPath
=============================================================================
