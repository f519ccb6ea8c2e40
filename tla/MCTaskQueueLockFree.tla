------------------------- MODULE MCTaskQueueLockFree -------------------------
(* Two threads post to a queue with one worker, and its owner stops it. *)
EXTENDS TaskQueueLockFree

CONSTANTS p1, p2, w1

MCProducers == {p1, p2}
MCWorkers == {w1}
=============================================================================
