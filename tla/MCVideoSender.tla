--------------------------- MODULE MCVideoSender ---------------------------
(* The instance of VideoSender that TLC checks: two frames of two packets    *)
(* each, a history of three slots, numbers that wrap in mid-stream.          *)
EXTENDS VideoSender

MCFirstSeqs == {6}
=============================================================================
