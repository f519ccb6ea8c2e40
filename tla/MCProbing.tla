------------------------------ MODULE MCProbing ------------------------------
(* The controller for TLC: rates in units of 100 kbit/s and the starting and *)
(* maximum rates of the code; thresholds of one to three ticks.              *)
EXTENDS Probing
=============================================================================
