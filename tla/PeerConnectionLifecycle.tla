------------------------ MODULE PeerConnectionLifecycle ------------------------
(***************************************************************************)
(* PeerConnection implements ConnectionLifecycle.  The thread that takes a *)
(* connection out of the map owes the application one terminal status: it  *)
(* has a claim on the connection until it has made that call.              *)
(***************************************************************************)
EXTENDS PeerConnection

\* The places in the code that may owe a terminal status.
Claimants ==
    {"nice", "worker", "clear app", "clear ws",
     "release app", "release ws", "release worker"}

Claim(c, g) ==
    \/ c = "nice" /\ nice[g] = "ended"
    \/ c = "worker" /\ worker.pc \in {"closed", "failed"} /\ worker.conn = g
    \/ c = "clear app" /\ g \in clear["app"].todo
    \/ c = "clear ws" /\ g \in clear["ws"].todo
    \/ c = "release app" /\ release["app"].step = "report"
         /\ release["app"].conn = g
    \/ c = "release ws" /\ release["ws"].step = "report"
         /\ release["ws"].conn = g
    \/ c = "release worker" /\ release["worker"].step = "report"
         /\ release["worker"].conn = g

Claimed(g) == \E c \in Claimants : Claim(c, g)

Phase(g) ==
    IF g > created THEN "unborn"
    ELSE IF IsCurrent(g) THEN "current"
    ELSE IF Claimed(g) THEN "ending"
    ELSE IF terminals[g] > 0 THEN "reported"
    ELSE "replaced"

Lifecycle == INSTANCE ConnectionLifecycle WITH
    phase <- [g \in Gens |-> Phase(g)],
    user <- remote,
    reports <- terminals

\* Whatever order the application, the websocket thread, the ICE worker and the
\* libnice threads run in, the application sees each connection created, then
\* silently replaced or ended and reported once; and no thread takes an ended
\* or replaced connection back.
ImplementsLifecycle == Lifecycle!Spec

-----------------------------------------------------------------------------
(* The inductive invariant *)

Born == 1..created

\* Only connections that exist are in a queue or in a thread's hands.
ReleaseRefs ==
    \A t \in Releasers : release[t].step # "none" => release[t].conn \in Born
WorkerRefs ==
    worker.pc \notin {"idle", "lookup", "exited"} => worker.conn \in Born
ClearRefs == \A t \in Clearers : clear[t].todo \subseteq Born
CleanupRefs == \A i \in DOMAIN cleanup : cleanup[i] \in Born
TransportRefs ==
    \A g \in Gens : transport[g] # "none" \/ nice[g] # "idle" => g \in Born
ReportRefs == \A g \in Gens : terminals[g] > 0 => g \in Born

RefsBorn ==
    ReleaseRefs /\ WorkerRefs /\ ClearRefs /\ CleanupRefs /\ TransportRefs
        /\ ReportRefs

\* The map files every connection under its own user.
MapOwned ==
    \A u \in Users : conn_map[u] # NoConn =>
        conn_map[u] \in Born /\ remote[conn_map[u]] = u

\* A message in hand is a real one.
MsgInHand ==
    /\ worker.pc = "lookup" => worker.msg \in Msgs
    /\ ws.pc \in {"created", "push", "connecting"} => ws.msg \in Msgs

\* A thread that starts a release or a clear has finished the one before.
OneAtATime ==
    /\ worker.pc \notin {"releasing", "replace"} => release["worker"] = Idle
    /\ ws.pc \notin {"created", "clearing"} => release["ws"] = Idle
    /\ app \notin {"leaving", "destroying"} => clear["app"].todo = {}
    /\ ws.pc # "clearing" => clear["ws"].todo = {}

\* At most one thread owes the terminal status of a connection, only while the
\* connection is out of the map and its end has not been reported.
ClaimsExclusive ==
    \A g \in Gens : \A c, d \in Claimants : Claim(c, g) /\ Claim(d, g) => c = d
ClaimsOpen ==
    \A g \in Gens : \A c \in Claimants :
        Claim(c, g) => ~IsCurrent(g) /\ terminals[g] = 0

WorkerGone == worker.pc = "exited" => ~running /\ cleanup = <<>>

IInv ==
    /\ TypeOK
    /\ RefsBorn
    /\ MapOwned
    /\ MsgInHand
    /\ OneAtATime
    /\ ClaimsExclusive
    /\ ClaimsOpen
    /\ OneTerminalStatus
    /\ EndedIsNotCurrent
    /\ WorkerGone
    /\ RetiredOnce

=============================================================================
