----------------------------- MODULE MCSignaling -----------------------------
(* Instances of Signaling.  Three connections allow a loss while the           *)
(* replacement of the first is still logging in; three joins allow one to be    *)
(* replaced and another to be made after a leave.                              *)
EXTENDS Signaling
=============================================================================
