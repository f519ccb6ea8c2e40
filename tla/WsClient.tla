------------------------------- MODULE WsClient -------------------------------
(***************************************************************************)
(* The signalling client's threads (src/src/ws/ws_client.cpp): Connect,    *)
(* ReConnect and Shutdown, the websocketpp handlers that run on the I/O    *)
(* thread of an endpoint, and the reconnect threads they schedule.         *)
(*                                                                         *)
(* Every Connect makes a new endpoint with a thread of its own.  A step is *)
(* one access to an atomic, one critical section, one status callback or   *)
(* one join.  The wait of a reconnect thread may end at any time.            *)
(***************************************************************************)
EXTENDS Naturals, FiniteSets

CONSTANTS
    MaxFaults,   \* bound: connections that fail, drop or stop answering
    Faults       \* which of FaultKinds happen

FaultKinds == {"fail", "close", "pong", "tls", "uri"}

ASSUME FaultsAssumption == MaxFaults \in Nat /\ Faults \subseteq FaultKinds

Threads == 1..(2 * MaxFaults)        \* reconnect threads
Endpoints == 1..(2 * MaxFaults + 1)
None == 0

VARIABLES
    shutdown,      \* shutdown_
    status,        \* ws_status_
    reconnecting,  \* is_reconnecting_
    generation,    \* reconnect_generation_
    timeouts,      \* timeout_count_, up to the 2 that matter
    endpoint,      \* m_endpoint_ and its m_thread_
    made,          \* endpoints made so far
    work,          \* what keeps each endpoint's event loop running
    conn,          \* the connection of each endpoint
    io,            \* the I/O thread of each endpoint: [pc, thread]
    ping,          \* whether the heartbeat thread runs
    slot,          \* reconnect_thread_
    pending,       \* pending_threads_
    thread,        \* each reconnect thread: [pc, gen, joins]
    started,       \* reconnect threads started so far
    app,           \* the thread that calls Connect and Close: [pc, joins]
    faults         \* faults so far

flags == <<shutdown, reconnecting, generation, timeouts>>
endpoints == <<endpoint, made, work, conn, io>>
workers == <<slot, pending, thread, started>>
vars == <<flags, status, endpoints, workers, ping, app, faults>>

Init ==
    /\ shutdown = FALSE /\ reconnecting = FALSE
    /\ generation = 0 /\ timeouts = 0
    /\ status = "Closed"
    /\ endpoint = None /\ made = 0
    /\ work = [e \in Endpoints |-> "none"]
    /\ conn = [e \in Endpoints |-> "none"]
    /\ io = [e \in Endpoints |-> [pc |-> "none", thread |-> None]]
    /\ ping = FALSE
    /\ slot = None /\ pending = {}
    /\ thread = [t \in Threads |-> [pc |-> "none", gen |-> 0, joins |-> {}]]
    /\ started = 0
    /\ app = [pc |-> "connect", joins |-> {}]
    /\ faults = 0

-----------------------------------------------------------------------------
(* Connect, by the application or a reconnect thread.  The endpoint that was *)
(* there before is gone: ReConnect has stopped it.                           *)

\* A new endpoint, SetStatus(WsOpening), and its thread.
MakeEndpoint ==
    LET e == made + 1 IN
    /\ made' = e
    /\ endpoint' = e
    /\ work' = [work EXCEPT ![e] = "perpetual"]
    /\ io' = [io EXCEPT ![e] = [pc |-> "loop", thread |-> None]]
    /\ status' = "Opening"
    /\ UNCHANGED conn

Dial == conn' = [conn EXCEPT ![endpoint] = "connecting"]

Exited(S) == \A t \in S : thread[t].pc = "exit"
IoExited == endpoint # None => io[endpoint].pc = "exit"

-----------------------------------------------------------------------------
(* The application *)

\* Connect starts with StopThreads, which has nothing to stop yet.
AppConnect ==
    /\ app.pc = "connect"
    /\ generation' = generation + 1
    /\ MakeEndpoint
    /\ app' = [app EXCEPT !.pc = "dial"]
    /\ UNCHANGED <<shutdown, reconnecting, timeouts, workers, ping, faults>>

\* get_connection refuses the address: StopThreads, and no endpoint is left.
AppBadUri ==
    /\ "uri" \in Faults
    /\ app.pc = "dial"
    /\ faults < MaxFaults
    /\ faults' = faults + 1
    /\ generation' = generation + 1
    /\ work' = [work EXCEPT ![endpoint] = "last"]
    /\ io' = [io EXCEPT ![endpoint].pc = "exit"]
    /\ endpoint' = None
    /\ app' = [app EXCEPT !.pc = "up"]
    /\ UNCHANGED <<shutdown, reconnecting, timeouts, status, made, conn, workers,
                   ping>>

AppDial ==
    /\ app.pc = "dial"
    /\ Dial
    /\ app' = [app EXCEPT !.pc = "status"]
    /\ UNCHANGED <<flags, status, endpoint, made, work, io, workers, ping, faults>>

AppStatus ==
    /\ app.pc = "status"
    /\ status' = "Connecting"
    /\ app' = [app EXCEPT !.pc = "up"]
    /\ UNCHANGED <<flags, endpoints, workers, ping, faults>>

\* Shutdown, from Close: the flags first.
AppShutdown ==
    /\ app.pc = "up"
    /\ shutdown' = TRUE
    /\ reconnecting' = FALSE
    /\ generation' = generation + 1
    /\ app' = [app EXCEPT !.pc = "take"]
    /\ UNCHANGED <<timeouts, status, endpoints, workers, ping, faults>>

\* The published reconnect threads are taken under the mutex.
AppTakeThreads ==
    /\ app.pc = "take"
    /\ app' = [pc |-> "join", joins |-> pending \cup ({slot} \ {None})]
    /\ slot' = None
    /\ pending' = {}
    /\ UNCHANGED <<flags, status, endpoints, thread, started, ping, faults>>

\* They are joined, then the heartbeat.
AppJoinThreads ==
    /\ app.pc = "join"
    /\ Exited(app.joins)
    /\ ping' = FALSE
    /\ app' = [pc |-> "stopio", joins |-> {}]
    /\ UNCHANGED <<flags, status, endpoints, workers, faults>>

AppStopEndpoint ==
    /\ app.pc = "stopio"
    /\ work' = [e \in Endpoints |-> IF e = endpoint THEN "stopped" ELSE work[e]]
    /\ app' = [app EXCEPT !.pc = "joinio"]
    /\ UNCHANGED <<flags, status, endpoint, made, conn, io, workers, ping, faults>>

AppJoinIo ==
    /\ app.pc = "joinio"
    /\ IoExited
    /\ endpoint' = None
    /\ app' = [app EXCEPT !.pc = "down"]
    /\ UNCHANGED <<flags, status, made, work, conn, io, workers, ping, faults>>

-----------------------------------------------------------------------------
(* A reconnect thread *)

ThreadGoto(t, pc) == thread' = [thread EXCEPT ![t].pc = pc]

\* The wait is over: cancelled, or on to ReConnect.
ThreadWake(t) ==
    /\ thread[t].pc = "wait"
    /\ IF shutdown \/ generation # thread[t].gen
       THEN ThreadGoto(t, "exit") /\ reconnecting' = FALSE
       ELSE ThreadGoto(t, "reconnect") /\ UNCHANGED reconnecting
    /\ UNCHANGED <<shutdown, generation, timeouts, status, endpoints, slot,
                   pending, started, ping, app, faults>>

\* Mutant: the open connection is not closed first.
ThreadReconnectKeepsOpen(t) ==
    /\ thread[t].pc = "reconnect"
    /\ IF shutdown \/ status = "Reconnecting"
       THEN ThreadGoto(t, "finish") /\ UNCHANGED status
       ELSE ThreadGoto(t, "stop") /\ status' = "Reconnecting"
    /\ UNCHANGED <<flags, endpoints, slot, pending, started, ping, app, faults>>

\* ReConnect does nothing after shutdown or while another one is under way.
ThreadReconnect(t) ==
    /\ thread[t].pc = "reconnect"
    /\ IF shutdown \/ status = "Reconnecting"
       THEN ThreadGoto(t, "finish") /\ UNCHANGED <<status, conn>>
       ELSE /\ ThreadGoto(t, "stop")
            /\ status' = "Reconnecting"
            /\ conn' = [e \in Endpoints |->
                          IF e = endpoint /\ conn[e] = "open" THEN "closing"
                          ELSE conn[e]]
    /\ UNCHANGED <<flags, endpoint, made, work, io, slot, pending, started,
                   ping, app, faults>>

\* StopThreads: the heartbeat, then the pending reconnect threads.
ThreadStop(t) ==
    /\ thread[t].pc = "stop"
    /\ ping' = FALSE
    /\ generation' = generation + 1
    /\ thread' = [thread EXCEPT ![t].pc = "join", ![t].joins = pending]
    /\ pending' = {}
    /\ UNCHANGED <<shutdown, reconnecting, timeouts, status, endpoints, slot,
                   started, app, faults>>

\* A thread never joins itself.
ThreadJoin(t) ==
    /\ thread[t].pc = "join"
    /\ Exited(thread[t].joins \ {t})
    /\ thread' = [thread EXCEPT ![t].pc = "joinio", ![t].joins = {}]
    /\ work' = [e \in Endpoints |->
                  IF e = endpoint /\ work[e] = "perpetual" THEN "last"
                  ELSE work[e]]
    /\ UNCHANGED <<flags, status, endpoint, made, conn, io, slot, pending,
                   started, ping, app, faults>>

\* Mutant: the old event loop is left to end by itself.
ThreadJoinIoDetached(t) ==
    /\ thread[t].pc = "joinio"
    /\ endpoint' = None
    /\ ThreadGoto(t, "connect")
    /\ UNCHANGED <<flags, status, made, work, conn, io, slot, pending, started,
                   ping, app, faults>>

ThreadJoinIo(t) ==
    /\ thread[t].pc = "joinio"
    /\ IoExited
    /\ endpoint' = None
    /\ ThreadGoto(t, "connect")
    /\ UNCHANGED <<flags, status, made, work, conn, io, slot, pending, started,
                   ping, app, faults>>

\* Connect looks at shutdown_ again and begins with another StopThreads: the
\* event loop has ended, but it may have published threads until it did.
ThreadConnect(t) ==
    /\ thread[t].pc = "connect"
    /\ IF shutdown
       THEN /\ ThreadGoto(t, "finish")
            /\ UNCHANGED <<ping, generation, pending>>
       ELSE /\ ping' = FALSE
            /\ generation' = generation + 1
            /\ thread' = [thread EXCEPT ![t].pc = "make", ![t].joins = pending]
            /\ pending' = {}
    /\ UNCHANGED <<shutdown, reconnecting, timeouts, status, endpoints, slot,
                   started, app, faults>>

ThreadMakeEndpoint(t) ==
    /\ thread[t].pc = "make"
    /\ Exited(thread[t].joins \ {t})
    /\ thread' = [thread EXCEPT ![t].pc = "dial", ![t].joins = {}]
    /\ MakeEndpoint
    /\ UNCHANGED <<flags, slot, pending, started, ping, app, faults>>

ThreadDial(t) ==
    /\ thread[t].pc = "dial"
    /\ Dial
    /\ ThreadGoto(t, "status")
    /\ UNCHANGED <<flags, status, endpoint, made, work, io, slot, pending,
                   started, ping, app, faults>>

ThreadStatus(t) ==
    /\ thread[t].pc = "status"
    /\ status' = "Connecting"
    /\ ThreadGoto(t, "finish")
    /\ UNCHANGED <<flags, endpoints, slot, pending, started, ping, app, faults>>

ThreadFinish(t) ==
    /\ thread[t].pc = "finish"
    /\ reconnecting' = FALSE
    /\ ThreadGoto(t, "exit")
    /\ UNCHANGED <<shutdown, generation, timeouts, status, endpoints, slot,
                   pending, started, ping, app, faults>>

-----------------------------------------------------------------------------
(* The handlers, on the I/O thread of an endpoint.  stop() lets the handler  *)
(* that is running finish and starts no other.                               *)

IoGoto(e, pc) == io' = [io EXCEPT ![e].pc = pc]
IoFree(e) == io[e].pc = "loop" /\ work[e] # "stopped"
Fault(k) == k \in Faults /\ faults < MaxFaults /\ faults' = faults + 1

\* AsyncReConnect and the first test of ScheduleReconnect.
IoSchedule(e) == IoGoto(e, IF shutdown THEN "loop" ELSE "cas")

IoOnOpen(e) ==
    /\ IoFree(e)
    /\ conn[e] = "connecting"
    /\ conn' = [conn EXCEPT ![e] = "open"]
    /\ status' = "Opened"
    /\ IoGoto(e, "restart")
    /\ UNCHANGED <<flags, endpoint, made, work, workers, ping, app, faults>>

\* RestartPingThread
IoRestartPing(e) ==
    /\ io[e].pc = "restart"
    /\ IoGoto(e, IF shutdown THEN "loop" ELSE "ping")
    /\ UNCHANGED <<flags, status, endpoint, made, work, conn, workers, ping,
                   app, faults>>

IoStartPing(e) ==
    /\ io[e].pc = "ping"
    /\ ping' = TRUE
    /\ IoGoto(e, "loop")
    /\ UNCHANGED <<flags, status, endpoint, made, work, conn, workers, app,
                   faults>>

IoOnFail(e) ==
    /\ IoFree(e)
    /\ conn[e] = "connecting"
    /\ Fault("fail")
    /\ conn' = [conn EXCEPT ![e] = "failed"]
    /\ IoSchedule(e)
    /\ UNCHANGED <<flags, status, endpoint, made, work, workers, ping, app>>

\* OnTlsVerify finds a certificate that is not trusted ...
IoOnTlsVerify(e) ==
    /\ IoFree(e)
    /\ conn[e] = "connecting"
    /\ Fault("tls")
    /\ conn' = [conn EXCEPT ![e] = "untrusted"]
    /\ status' = "TlsCertError"
    /\ UNCHANGED <<flags, endpoint, made, work, io, workers, ping, app>>

\* ... and OnFail does not retry, if that status is still there.
IoOnTlsFail(e) ==
    /\ IoFree(e)
    /\ conn[e] = "untrusted"
    /\ conn' = [conn EXCEPT ![e] = "failed"]
    /\ IF status = "TlsCertError" THEN UNCHANGED io ELSE IoSchedule(e)
    /\ UNCHANGED <<flags, status, endpoint, made, work, workers, ping, app,
                   faults>>

\* The connection drops, or the close that ReConnect asked for completes.
IoOnClose(e) ==
    /\ IoFree(e)
    /\ \/ conn[e] = "open" /\ Fault("close")
       \/ conn[e] = "closing" /\ UNCHANGED faults
    /\ conn' = [conn EXCEPT ![e] = "closed"]
    /\ IoSchedule(e)
    /\ UNCHANGED <<flags, status, endpoint, made, work, workers, ping, app>>

IoOnPong(e) ==
    /\ IoFree(e)
    /\ conn[e] = "open"
    /\ timeouts' = 0
    /\ UNCHANGED <<shutdown, reconnecting, generation, status, endpoints,
                   workers, ping, app, faults>>

IoOnPongTimeout(e) ==
    /\ IoFree(e)
    /\ conn[e] = "open"
    /\ Fault("pong")
    /\ timeouts' = IF timeouts = 2 THEN 2 ELSE timeouts + 1
    /\ IF timeouts' >= 2 THEN IoSchedule(e) ELSE UNCHANGED io
    /\ UNCHANGED <<shutdown, reconnecting, generation, status, endpoint, made,
                   work, conn, workers, ping, app>>

\* ScheduleReconnect: one at a time.  The thread runs before it is published.
IoCas(e) ==
    LET t == started + 1 IN
    /\ io[e].pc = "cas"
    /\ IF reconnecting
       THEN IoGoto(e, "loop") /\ UNCHANGED <<reconnecting, thread, started>>
       ELSE /\ reconnecting' = TRUE
            /\ started' = t
            /\ thread' = [thread EXCEPT
                            ![t] = [pc |-> "wait", gen |-> generation,
                                    joins |-> {}]]
            /\ io' = [io EXCEPT ![e] = [pc |-> "publish", thread |-> t]]
    /\ UNCHANGED <<shutdown, generation, timeouts, status, endpoint, made, work,
                   conn, slot, pending, ping, app, faults>>

\* Mutant: the thread is published whether or not Shutdown has begun.
IoPublishUnchecked(e) ==
    /\ io[e].pc = "publish"
    /\ pending' = pending \cup ({slot} \ {None})
    /\ slot' = io[e].thread
    /\ IoGoto(e, "loop")
    /\ UNCHANGED <<flags, status, endpoint, made, work, conn, thread, started,
                   ping, app, faults>>

\* The publication looks at shutdown_ again under the mutex.
IoPublish(e) ==
    /\ io[e].pc = "publish"
    /\ IF shutdown
       THEN /\ generation' = generation + 1
            /\ reconnecting' = FALSE
            /\ IoGoto(e, "joining")
            /\ UNCHANGED <<slot, pending>>
       ELSE /\ pending' = pending \cup ({slot} \ {None})
            /\ slot' = io[e].thread
            /\ IoGoto(e, "loop")
            /\ UNCHANGED <<generation, reconnecting>>
    /\ UNCHANGED <<shutdown, timeouts, status, endpoint, made, work, conn,
                   thread, started, ping, app, faults>>

IoJoin(e) ==
    /\ io[e].pc = "joining"
    /\ thread[io[e].thread].pc = "exit"
    /\ IoGoto(e, "loop")
    /\ UNCHANGED <<flags, status, endpoint, made, work, conn, workers, ping,
                   app, faults>>

\* run() returns when it is stopped or has nothing left to do.
IoExit(e) ==
    /\ io[e].pc = "loop"
    /\ \/ work[e] = "stopped"
       \/ work[e] = "last" /\ conn[e] \in {"none", "failed", "closed"}
    /\ IoGoto(e, "exit")
    /\ UNCHANGED <<flags, status, endpoint, made, work, conn, workers, ping,
                   app, faults>>

-----------------------------------------------------------------------------

AppStep ==
    AppConnect \/ AppDial \/ AppStatus \/ AppTakeThreads \/ AppJoinThreads
        \/ AppStopEndpoint \/ AppJoinIo

ThreadStep(t) ==
    ThreadWake(t) \/ ThreadReconnect(t) \/ ThreadStop(t) \/ ThreadJoin(t)
        \/ ThreadJoinIo(t) \/ ThreadConnect(t) \/ ThreadMakeEndpoint(t)
        \/ ThreadDial(t) \/ ThreadStatus(t) \/ ThreadFinish(t)

\* An I/O thread goes on with its handler or ends.
IoStep(e) ==
    IoRestartPing(e) \/ IoStartPing(e) \/ IoCas(e) \/ IoPublish(e) \/ IoJoin(e)
        \/ IoExit(e) \/ IoOnTlsFail(e) \/ (conn[e] = "closing" /\ IoOnClose(e))

\* What the network and the server decide.
NetworkStep(e) ==
    IoOnFail(e) \/ IoOnTlsVerify(e) \/ (conn[e] = "open" /\ IoOnClose(e))
        \/ IoOnPong(e) \/ IoOnPongTimeout(e)

Next ==
    \/ AppStep \/ AppBadUri \/ AppShutdown
    \/ \E t \in Threads : ThreadStep(t)
    \/ \E e \in Endpoints : IoStep(e) \/ NetworkStep(e) \/ IoOnOpen(e)

Spec == Init /\ [][Next]_vars

\* Threads that can go on do, and a connection attempt that is not made to
\* fail succeeds.  Nothing obliges the application to shut down.
Fairness ==
    /\ WF_vars(AppStep)
    /\ \A t \in Threads : WF_vars(ThreadStep(t))
    /\ \A e \in Endpoints : WF_vars(IoStep(e)) /\ WF_vars(IoOnOpen(e))

FairSpec == Spec /\ Fairness

-----------------------------------------------------------------------------
(* Properties *)

Statuses ==
    {"Closed", "Opening", "Connecting", "Opened", "Reconnecting", "TlsCertError"}
ThreadPcs ==
    {"none", "wait", "reconnect", "stop", "join", "joinio", "connect", "make",
     "dial", "status", "finish", "exit"}
IoPcs ==
    {"none", "loop", "restart", "ping", "cas", "publish", "joining", "exit"}
AppPcs == {"connect", "dial", "status", "up", "take", "join", "stopio",
           "joinio", "down"}

TypeOK ==
    /\ shutdown \in BOOLEAN /\ reconnecting \in BOOLEAN
    /\ generation \in Nat /\ timeouts \in 0..2
    /\ status \in Statuses
    /\ endpoint \in Endpoints \cup {None} /\ made \in 0..Cardinality(Endpoints)
    /\ work \in [Endpoints -> {"none", "perpetual", "last", "stopped"}]
    /\ conn \in [Endpoints -> {"none", "connecting", "open", "failed",
                               "untrusted", "closing", "closed"}]
    /\ io \in [Endpoints -> [pc : IoPcs, thread : Threads \cup {None}]]
    /\ ping \in BOOLEAN
    /\ slot \in Threads \cup {None} /\ pending \subseteq Threads
    /\ thread \in [Threads -> [pc : ThreadPcs, gen : Nat, joins : SUBSET Threads]]
    /\ started \in 0..Cardinality(Threads)
    /\ app \in [pc : AppPcs, joins : SUBSET Threads]
    /\ faults \in 0..MaxFaults

Busy == {t \in Threads : thread[t].pc \notin {"none", "wait", "finish", "exit"}}

\* Until Shutdown, at most one reconnect thread works on the endpoint, however
\* failures, closes and missed pongs coincide.
OneReconnectAtATime == ~shutdown => Cardinality(Busy) <= 1

\* The endpoint a reconnect thread or the application replaces is the only one:
\* every older event loop has ended.
OneEventLoop ==
    \A e \in Endpoints : e < made /\ endpoint = made => io[e].pc = "exit"

\* The endpoint has one owner: one reconnect thread and one event loop at a
\* time, although each handler may ask for a new connection.
EndpointIsOwned == TypeOK /\ OneReconnectAtATime /\ OneEventLoop

\* Once Shutdown has returned nothing revives the client: no reconnect thread
\* and no event loop is left to do it.
NothingAfterShutdown ==
    app.pc = "down" =>
        /\ \A t \in Threads : thread[t].pc \in {"none", "exit"}
        /\ \A e \in Endpoints : io[e].pc \in {"none", "exit"}

\* A thread that has started to replace the connection gets to the end of it:
\* the joins it makes, of older reconnect threads and of an event loop that may
\* be in a handler, do not block it.
ReconnectProceeds ==
    \A t \in Threads : (thread[t].pc = "stop" /\ ~shutdown) ~>
                          (thread[t].pc = "exit" \/ shutdown)

\* Close returns.
ShutdownReturns == (app.pc = "take") ~> (app.pc = "down")

\* A client that has not been shut down and whose network recovers has a
\* connection again.
Reopens == <>[](shutdown \/ \E e \in Endpoints : e = endpoint /\ conn[e] = "open")

=============================================================================
