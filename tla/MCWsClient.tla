------------------------------ MODULE MCWsClient ------------------------------
(* Instances of WsClient.  Three faults reach a reconnect whose connection     *)
(* fails while another thread is still being published.                        *)
EXTENDS WsClient

AllFaults == FaultKinds
NoTls == {"fail", "close", "pong"}
=============================================================================
