---------------------------- MODULE PeerConnection ----------------------------
(***************************************************************************)
(* The life of the connections a PeerConnection manages                    *)
(* (src/src/pc/peer_connection.cpp, src/src/pc/minirtc_connection.cpp).    *)
(*                                                                         *)
(* Four kinds of thread share peer_connection_map_:                        *)
(*   - the application, in Leave and Destroy;                              *)
(*   - the websocket thread, which creates and replaces connections when a *)
(*     signal arrives and clears them when signalling is lost;             *)
(*   - the ICE worker, which creates and tears down transports;            *)
(*   - one libnice thread for each live transport, whose state changes     *)
(*     call back into the PeerConnection.                                  *)
(* A connection is held by shared_ptr.  Each one ever created is a         *)
(* generation; the comments in the code use the same word.  A step is what *)
(* happens under one lock, one callback to the application, or one join.   *)
(***************************************************************************)
EXTENDS Naturals, Sequences, FiniteSets

CONSTANTS
    Users,        \* remote user ids
    MaxGen,       \* bound: connections created
    MaxSignals,   \* bound: signals received
    Signals,      \* the kinds of signal received, a subset of SignalKinds
    Faults,       \* what may go wrong, a subset of FaultKinds
    AppOps        \* what the application calls, a subset of AppKinds

SignalKinds == {"join", "offer", "answer", "leave"}
FaultKinds ==
    {"ice",       \* a transport reports disconnected or failed
     "init",      \* InitIceTransmission fails
     "expired",   \* ICE credentials expire before the worker uses them
     "config",    \* a signal carries no usable ICE configuration
     "tls"}       \* signalling ends with a certificate error
AppKinds == {"leave", "destroy"}

Gens == 1..MaxGen
NoConn == 0

ASSUME BoundsAssumption == MaxGen \in Nat /\ MaxSignals \in Nat
ASSUME InputsAssumption ==
    /\ Signals \subseteq SignalKinds
    /\ Faults \subseteq FaultKinds
    /\ AppOps \subseteq AppKinds
    /\ "none" \notin Users

\* The threads that run ReleaseAllIceTransmission, and ClearPeerConnections.
Releasers == {"app", "ws", "worker"}
Clearers == {"app", "ws"}

VARIABLES
    conn_map,    \* peer_connection_map_
    created,     \* generations created so far
    remote,      \* the remote user of each generation
    msg_queue,   \* ice_work_msg_queue_
    cleanup,     \* terminal_connection_cleanup_queue_
    running,     \* ice_worker_running_
    transport,   \* ice_transport_ of each connection and its libnice thread
    incarnation, \* how many transports the connection has had
    closed,      \* is_closed_ of that transport
    nice,        \* where each libnice thread is in the status callback
    worker,      \* the ICE worker: [pc, conn, msg]
    ws,          \* the websocket thread: [pc, old, new, msg]
    app,         \* the application thread
    release,     \* each thread's ReleaseAllIceTransmission: [step, conn]
    clear,       \* each thread's ClearPeerConnections: [todo, held]
    signals,     \* signals received
    wanted,      \* users whose last signal was a join or an offer
    terminals,   \* history: terminal statuses reported for each generation
    late,        \* history: generations reported alive after their end
    crashed      \* a libnice thread has joined itself

queues == <<conn_map, msg_queue, cleanup, running>>
conns == <<created, remote, transport, incarnation, closed>>
threads == <<nice, worker, ws, app, release, clear>>
history == <<terminals, late>>
vars == <<queues, conns, threads, signals, wanted, history, crashed>>

Msgs == [type : SignalKinds, user : Users]
NoMsg == [type |-> "none", user |-> "none"]
Idle == [step |-> "none", conn |-> NoConn, tr |-> 0]
NoClear == [todo |-> {}, held |-> {}]

Init ==
    /\ conn_map = [u \in Users |-> NoConn]
    /\ created = 0
    /\ remote = [g \in Gens |-> "none"]
    /\ msg_queue = <<>>
    /\ cleanup = <<>>
    /\ running = TRUE
    /\ transport = [g \in Gens |-> "none"]
    /\ incarnation = [g \in Gens |-> 0]
    /\ closed = [g \in Gens |-> FALSE]
    /\ nice = [g \in Gens |-> "idle"]
    /\ worker = [pc |-> "idle", conn |-> NoConn, msg |-> NoMsg]
    /\ ws = [pc |-> "idle", old |-> NoConn, new |-> NoConn, msg |-> NoMsg]
    /\ app = "idle"
    /\ release = [t \in Releasers |-> Idle]
    /\ clear = [t \in Clearers |-> NoClear]
    /\ signals = 0
    /\ wanted = {}
    /\ terminals = [g \in Gens |-> 0]
    /\ late = {}
    /\ crashed = FALSE

-----------------------------------------------------------------------------
(* Shared pieces *)

\* IsCurrentPeerConnection
IsCurrent(g) == \E u \in Users : remote[g] = u /\ conn_map[u] = g

\* A shared_ptr to g exists outside the listed thread locals.
HeldBy(t, g) ==
    CASE t = "worker" -> worker.conn = g
      [] t = "ws"     -> g \in {ws.old, ws.new} \cup clear["ws"].held
      [] t = "app"    -> g \in clear["app"].held
      [] t = "nice"   -> nice[g] # "idle"

Stored(g) == IsCurrent(g) \/ \E i \in DOMAIN cleanup : cleanup[i] = g

\* Thread t drops its shared_ptrs to the connections in S.  The last one runs
\* ~MiniRtcConnection, which closes a transport that is still alive.
LastHolder(t, g) ==
    /\ ~Stored(g)
    /\ \A s \in {"worker", "ws", "app", "nice"} \ {t} : ~HeldBy(s, g)

Drop(t, S) ==
    transport' = [g \in Gens |->
                    IF g \in S /\ LastHolder(t, g) /\ transport[g] = "live"
                    THEN "dead" ELSE transport[g]]

\* Mutant: any connection of the user is good enough to retire.
CanRetireStale(g) == running

\* RetirePeerConnection succeeds: the connection is current and the worker,
\* which will release it, still runs.
CanRetire(g) == IsCurrent(g) /\ running

\* Mutant: the entry is queued and left in the map.
RetireKeepsEntry(g) ==
    /\ cleanup' = Append(cleanup, g)
    /\ UNCHANGED <<conn_map, msg_queue, running>>

Retire(g) ==
    /\ conn_map' = [conn_map EXCEPT ![remote[g]] = NoConn]
    /\ cleanup' = Append(cleanup, g)
    /\ UNCHANGED <<msg_queue, running>>

\* on_connection_status_ with Disconnected, Failed or Closed.
ReportTerminal(g) ==
    /\ terminals' = [terminals EXCEPT ![g] = @ + 1]
    /\ UNCHANGED late

\* on_connection_status_ with any other status.
ReportAlive(g) ==
    /\ late' = IF terminals[g] > 0 THEN late \cup {g} ELSE late
    /\ UNCHANGED terminals

-----------------------------------------------------------------------------
(* ReleaseAllIceTransmission and DestroyIceTransmission, on any thread *)

Releasing(t, g) ==
    [release EXCEPT ![t] = [step |-> "close", conn |-> g, tr |-> 0]]

\* DestroyIceTransmission works on the transport it found.
Closing(t, step) ==
    LET g == release[t].conn IN
    [release EXCEPT ![t] = [step |-> step, conn |-> g, tr |-> incarnation[g]]]

\* is_closed_ is set and "closed" is reported through the managed callback,
\* which retires the connection if it is still current.
ReleaseClose(t) ==
    LET g == release[t].conn IN
    /\ release[t].step = "close"
    /\ IF transport[g] = "none"
       THEN /\ release' = [release EXCEPT ![t] = Idle]
            /\ UNCHANGED <<closed, queues>>
       ELSE /\ closed' = [closed EXCEPT ![g] = TRUE]
            /\ IF CanRetire(g)
               THEN /\ Retire(g)
                    /\ release' = Closing(t, "report")
               ELSE /\ release' = Closing(t, "join")
                    /\ UNCHANGED queues
    /\ UNCHANGED <<created, remote, transport, incarnation, nice, worker, ws,
                   app, clear, signals, wanted, history, crashed>>

ReleaseReport(t) ==
    /\ release[t].step = "report"
    /\ ReportTerminal(release[t].conn)
    /\ release' = [release EXCEPT ![t].step = "join"]
    /\ UNCHANGED <<queues, conns, nice, worker, ws, app, clear, signals,
                   wanted, crashed>>

\* DestroyIceAgent joins the libnice thread.  A transport whose
\* InitIceTransmission has not run yet has no agent to destroy, and one that
\* the worker has replaced meanwhile was destroyed by the worker.
ReleaseJoin(t) ==
    LET g == release[t].conn
        same == release[t].tr = incarnation[g] IN
    /\ release[t].step = "join"
    /\ same => nice[g] = "idle"
    /\ transport' = [transport EXCEPT
                       ![g] = IF same /\ @ = "live" THEN "dead" ELSE @]
    /\ release' = [release EXCEPT ![t] = Idle]
    /\ UNCHANGED <<queues, created, remote, incarnation, closed, nice, worker,
                   ws, app, clear, signals, wanted, history, crashed>>

-----------------------------------------------------------------------------
(* ClearPeerConnections, on the application or the websocket thread *)

ClearTake(t) ==
    LET S == {g \in Gens : IsCurrent(g)} IN
    /\ clear' = [clear EXCEPT ![t] = [todo |-> S, held |-> S]]
    /\ conn_map' = [u \in Users |-> NoConn]
    /\ UNCHANGED <<msg_queue, cleanup, running>>

\* Closed is reported before the connection is released.
ClearOne(t) ==
    /\ release[t] = Idle
    /\ \E g \in clear[t].todo :
         /\ ReportTerminal(g)
         /\ clear' = [clear EXCEPT ![t].todo = @ \ {g}]
         /\ release' = Releasing(t, g)
    /\ UNCHANGED <<queues, conns, nice, worker, ws, app, signals, wanted,
                   crashed>>

Cleared(t) == release[t] = Idle /\ clear[t].todo = {}

-----------------------------------------------------------------------------
(* The application *)

\* Leave clears the connections; with signalling down it returns early and
\* leaves them alone, which is no step here.
AppLeave ==
    /\ "leave" \in AppOps
    /\ app = "idle"
    /\ ClearTake("app")
    /\ app' = "leaving"
    /\ wanted' = {}
    /\ UNCHANGED <<conns, nice, worker, ws, release, signals, history,
                   crashed>>

AppDestroy ==
    /\ "destroy" \in AppOps
    /\ app = "idle"
    /\ ClearTake("app")
    /\ app' = "destroying"
    /\ wanted' = {}
    /\ UNCHANGED <<conns, nice, worker, ws, release, signals, history,
                   crashed>>

AppClearOne ==
    /\ app \in {"leaving", "destroying"}
    /\ ClearOne("app")

AppClearDone ==
    /\ app \in {"leaving", "destroying"}
    /\ Cleared("app")
    /\ app' = IF app = "leaving" THEN "idle" ELSE "stop"
    /\ clear' = [clear EXCEPT !["app"] = NoClear]
    /\ Drop("app", clear["app"].held)
    /\ UNCHANGED <<queues, created, remote, incarnation, closed, nice, worker,
                   ws, release, signals, wanted, history, crashed>>

AppStopIceWorker ==
    /\ app = "stop"
    /\ running' = FALSE
    /\ app' = "join"
    /\ UNCHANGED <<conn_map, msg_queue, cleanup, conns, nice, worker, ws,
                   release, clear, signals, wanted, history, crashed>>

AppJoinIceWorker ==
    /\ app = "join"
    /\ worker.pc = "exited"
    /\ app' = "close"
    /\ UNCHANGED <<queues, conns, nice, worker, ws, release, clear, signals,
                   wanted, history, crashed>>

\* WsClient::Close joins the websocket thread.
AppCloseWs ==
    /\ app = "close"
    /\ ws.pc = "idle"
    /\ app' = "destroyed"
    /\ UNCHANGED <<queues, conns, nice, worker, ws, release, clear, signals,
                   wanted, history, crashed>>

-----------------------------------------------------------------------------
(* The websocket thread: ProcessSignal and the TLS error of on_ws_status_ *)

WsReady == ws.pc = "idle" /\ app # "destroyed"

Receive(k) ==
    /\ WsReady
    /\ k \in Signals
    /\ signals < MaxSignals
    /\ signals' = signals + 1

\* user_join_transmission and offer: ReplaceOrCreatePeerConnection.  The map
\* entry is replaced at once; the replaced connection is released afterwards.
WsReplaceOrCreate(u, k) ==
    LET g == created + 1 IN
    /\ k \in {"join", "offer"}
    /\ Receive(k)
    /\ created < MaxGen
    /\ created' = g
    /\ remote' = [remote EXCEPT ![g] = u]
    /\ conn_map' = [conn_map EXCEPT ![u] = g]
    /\ ws' = [pc |-> "created", old |-> conn_map[u], new |-> g,
              msg |-> [type |-> k, user |-> u]]
    /\ release' = IF conn_map[u] = NoConn THEN release
                  ELSE Releasing("ws", conn_map[u])
    /\ wanted' = wanted \cup {u}
    /\ UNCHANGED <<msg_queue, cleanup, running, transport, incarnation, closed,
                   nice, worker, app, clear, history, crashed>>

\* ReplaceOrCreatePeerConnection returns and lets go of both connections.
WsCreated ==
    /\ ws.pc = "created"
    /\ release["ws"] = Idle
    /\ ws' = [ws EXCEPT !.pc = "push", !.old = NoConn, !.new = NoConn]
    /\ Drop("ws", {ws.old, ws.new} \cap Gens)
    /\ UNCHANGED <<queues, created, remote, incarnation, closed, nice, worker,
                   app, release, clear, signals, wanted, history, crashed>>

\* BuildConnectionInfo fails: Failed is reported for the user and the signal
\* is dropped.
WsBuildConnectionInfoFails(u, k) ==
    /\ "config" \in Faults
    /\ k \in {"join", "offer"}
    /\ Receive(k)
    /\ UNCHANGED <<queues, conns, threads, wanted, history, crashed>>

\* answer and user_leave_transmission only queue work for the ICE worker.
WsQueueOnly(u, k) ==
    /\ k \in {"answer", "leave"}
    /\ Receive(k)
    /\ ws' = [ws EXCEPT !.pc = "push", !.msg = [type |-> k, user |-> u]]
    /\ wanted' = IF k = "leave" THEN wanted \ {u} ELSE wanted
    /\ UNCHANGED <<queues, conns, nice, worker, app, release, clear, history,
                   crashed>>

\* PushIceWorkMsg does not look at ice_worker_running_.
WsPush ==
    /\ ws.pc = "push"
    /\ msg_queue' = Append(msg_queue, ws.msg)
    /\ ws' = IF ws.msg.type \in {"offer", "answer"}
             THEN [ws EXCEPT !.pc = "connecting"]
             ELSE [ws EXCEPT !.pc = "idle", !.msg = NoMsg]
    /\ UNCHANGED <<conn_map, cleanup, running, conns, nice, worker, app,
                   release, clear, signals, wanted, history, crashed>>

\* Connecting is reported for the user after an offer or an answer is queued,
\* whatever has become of the user's newest connection since.
Newest(u) ==
    {g \in Gens : /\ remote[g] = u
                  /\ \A h \in Gens : remote[h] = u => h <= g}

WsReportConnecting ==
    /\ ws.pc = "connecting"
    /\ late' = late \cup {g \in Newest(ws.msg.user) : terminals[g] > 0}
    /\ ws' = [ws EXCEPT !.pc = "idle", !.msg = NoMsg]
    /\ UNCHANGED <<queues, conns, nice, worker, app, release, clear, signals,
                   wanted, terminals, crashed>>

WsTlsCertError ==
    /\ "tls" \in Faults
    /\ WsReady
    /\ signals < MaxSignals
    /\ signals' = signals + 1
    /\ ClearTake("ws")
    /\ ws' = [ws EXCEPT !.pc = "clearing"]
    /\ wanted' = {}
    /\ UNCHANGED <<conns, nice, worker, app, release, history, crashed>>

WsClearOne ==
    /\ ws.pc = "clearing"
    /\ ClearOne("ws")

WsClearDone ==
    /\ ws.pc = "clearing"
    /\ Cleared("ws")
    /\ ws' = [ws EXCEPT !.pc = "idle"]
    /\ clear' = [clear EXCEPT !["ws"] = NoClear]
    /\ Drop("ws", clear["ws"].held)
    /\ UNCHANGED <<queues, created, remote, incarnation, closed, nice, worker,
                   app, release, signals, wanted, history, crashed>>

-----------------------------------------------------------------------------
(* The ICE worker *)

WorkerGoto(pc, g) == worker' = [worker EXCEPT !.pc = pc, !.conn = g]

\* Terminal cleanup has priority, also while the worker is being stopped.
WorkerTakeCleanup ==
    /\ worker.pc = "idle"
    /\ cleanup # <<>>
    /\ WorkerGoto("releasing", Head(cleanup))
    /\ cleanup' = Tail(cleanup)
    /\ release' = Releasing("worker", Head(cleanup))
    /\ UNCHANGED <<conn_map, msg_queue, running, conns, nice, ws, app, clear,
                   signals, wanted, history, crashed>>

\* Mutant: stopping has priority over cleanup.
WorkerExitFirst ==
    /\ worker.pc = "idle"
    /\ ~running
    /\ WorkerGoto("exited", NoConn)
    /\ msg_queue' = <<>>
    /\ UNCHANGED <<conn_map, cleanup, running, conns, nice, ws, app, release,
                   clear, signals, wanted, history, crashed>>

\* Mutant: the worker wants its messages processed before it stops.
WorkerExitDrained ==
    /\ worker.pc = "idle"
    /\ cleanup = <<>>
    /\ msg_queue = <<>>
    /\ ~running
    /\ WorkerGoto("exited", NoConn)
    /\ UNCHANGED <<queues, conns, nice, ws, app, release, clear, signals,
                   wanted, history, crashed>>

\* The loop ends and the messages left are thrown away.
WorkerExit ==
    /\ worker.pc = "idle"
    /\ cleanup = <<>>
    /\ ~running
    /\ WorkerGoto("exited", NoConn)
    /\ msg_queue' = <<>>
    /\ UNCHANGED <<conn_map, cleanup, running, conns, nice, ws, app, release,
                   clear, signals, wanted, history, crashed>>

WorkerTakeMsg ==
    /\ worker.pc = "idle"
    /\ cleanup = <<>>
    /\ running
    /\ msg_queue # <<>>
    /\ worker' = [worker EXCEPT !.pc = "lookup", !.msg = Head(msg_queue)]
    /\ msg_queue' = Tail(msg_queue)
    /\ UNCHANGED <<conn_map, cleanup, running, conns, nice, ws, app, release,
                   clear, signals, wanted, history, crashed>>

\* ProcessIceWorkMsg finds the connection by user id alone: it is the current
\* one, not necessarily the one that was current when the message was queued.
WorkerLookup ==
    LET g == conn_map[worker.msg.user] IN
    /\ worker.pc = "lookup"
    /\ \/ /\ g = NoConn \/ worker.msg.type = "answer"
          /\ WorkerGoto("idle", NoConn)
          /\ UNCHANGED conn_map
       \/ /\ g # NoConn /\ worker.msg.type = "leave"
          /\ WorkerGoto("closed", g)
          /\ conn_map' = [conn_map EXCEPT ![worker.msg.user] = NoConn]
       \/ /\ g # NoConn /\ worker.msg.type \in {"join", "offer"}
          /\ WorkerGoto("start", g)
          /\ UNCHANGED conn_map
    /\ UNCHANGED <<msg_queue, cleanup, running, conns, nice, ws, app, release,
                   clear, signals, wanted, history, crashed>>

\* UserLeaveTransmission: Closed is reported, then the connection is released.
WorkerReportLeave ==
    /\ worker.pc = "closed"
    /\ ReportTerminal(worker.conn)
    /\ WorkerGoto("releasing", worker.conn)
    /\ release' = Releasing("worker", worker.conn)
    /\ UNCHANGED <<queues, conns, nice, ws, app, clear, signals, wanted,
                   crashed>>

WorkerReleased ==
    /\ worker.pc = "releasing"
    /\ release["worker"] = Idle
    /\ Drop("worker", {worker.conn})
    /\ WorkerGoto("idle", NoConn)
    /\ UNCHANGED <<queues, created, remote, incarnation, closed, nice, ws, app,
                   release, clear, signals, wanted, history, crashed>>

\* UserJoinTransmission or Offer: a transport the connection already has is
\* destroyed first.
WorkerStart ==
    /\ worker.pc = "start"
    /\ WorkerGoto("replace", worker.conn)
    /\ release' = Releasing("worker", worker.conn)
    /\ UNCHANGED <<queues, conns, nice, ws, app, clear, signals, wanted,
                   history, crashed>>

\* on_ice_status_change_("failed") from the worker: retired and reported, or
\* suppressed because the connection is no longer current.
WorkerFail(tr) ==
    LET g == worker.conn IN
    IF CanRetire(g)
    THEN /\ Retire(g)
         /\ WorkerGoto("failed", g)
         /\ transport' = tr
    ELSE /\ WorkerGoto("idle", NoConn)
         /\ transport' = [tr EXCEPT ![g] =
                            IF LastHolder("worker", g) /\ @ = "live"
                            THEN "dead" ELSE @]
         /\ UNCHANGED queues

\* The ICE configuration expired while the message was queued.
WorkerConfigExpired ==
    /\ "expired" \in Faults
    /\ worker.pc = "start"
    /\ WorkerFail(transport)
    /\ UNCHANGED <<created, remote, incarnation, closed, nice, ws, app,
                   release, clear, signals, wanted, history, crashed>>

\* make_shared<IceTransport>
WorkerCreateTransport ==
    /\ worker.pc = "replace"
    /\ release["worker"] = Idle
    /\ transport' = [transport EXCEPT ![worker.conn] = "made"]
    /\ incarnation' = [incarnation EXCEPT ![worker.conn] = @ + 1]
    /\ closed' = [closed EXCEPT ![worker.conn] = FALSE]
    /\ WorkerGoto("init", worker.conn)
    /\ UNCHANGED <<queues, created, remote, nice, ws, app, release, clear,
                   signals, wanted, history, crashed>>

\* InitIceTransmission starts the libnice thread.
WorkerInitIce ==
    /\ worker.pc = "init"
    /\ transport' = [transport EXCEPT ![worker.conn] = "live"]
    /\ WorkerGoto("negotiate", worker.conn)
    /\ UNCHANGED <<queues, created, remote, incarnation, closed, nice, ws, app,
                   release, clear, signals, wanted, history, crashed>>

WorkerInitIceFails ==
    /\ "init" \in Faults
    /\ worker.pc = "init"
    /\ WorkerFail([transport EXCEPT ![worker.conn] = "none"])
    /\ UNCHANGED <<created, remote, incarnation, closed, nice, ws, app,
                   release, clear, signals, wanted, history, crashed>>

\* The streams, SendOffer or SetRemoteSdp and SendAnswer, candidate gathering;
\* then the worker lets go of the connection.
WorkerNegotiate ==
    /\ worker.pc = "negotiate"
    /\ Drop("worker", {worker.conn})
    /\ WorkerGoto("idle", NoConn)
    /\ UNCHANGED <<queues, created, remote, incarnation, closed, nice, ws, app,
                   release, clear, signals, wanted, history, crashed>>

WorkerReportFailed ==
    /\ worker.pc = "failed"
    /\ ReportTerminal(worker.conn)
    /\ Drop("worker", {worker.conn})
    /\ WorkerGoto("idle", NoConn)
    /\ UNCHANGED <<queues, created, remote, incarnation, closed, nice, ws, app,
                   release, clear, signals, wanted, crashed>>

-----------------------------------------------------------------------------
(* A libnice thread: OnIceStateChange and the managed status callback *)

\* The transport is not closed and the weak_ptr can still be locked: from here
\* until the callback returns this thread owns the connection too.
NiceStateChange(g, s) ==
    /\ transport[g] = "live"
    /\ ~closed[g]
    /\ nice[g] = "idle"
    /\ Stored(g) \/ \E t \in {"worker", "ws", "app"} : HeldBy(t, g)
    /\ s = "terminal" => "ice" \in Faults
    /\ nice' = [nice EXCEPT ![g] = s]
    /\ UNCHANGED <<queues, conns, worker, ws, app, release, clear, signals,
                   wanted, history, crashed>>

\* The callback returns.  If this thread held the last reference it now runs
\* the destructor, which joins this very thread.
NiceReturn(g) ==
    /\ nice' = [nice EXCEPT ![g] = "idle"]
    /\ crashed' = (crashed \/ (transport[g] = "live" /\ LastHolder("nice", g)))

NiceRetire(g) ==
    /\ nice[g] = "terminal"
    /\ IF CanRetire(g)
       THEN /\ Retire(g)
            /\ nice' = [nice EXCEPT ![g] = "ended"]
            /\ UNCHANGED crashed
       ELSE /\ NiceReturn(g)
            /\ UNCHANGED queues
    /\ UNCHANGED <<conns, worker, ws, app, release, clear, signals, wanted,
                   history>>

NiceReportTerminal(g) ==
    /\ nice[g] = "ended"
    /\ ReportTerminal(g)
    /\ NiceReturn(g)
    /\ UNCHANGED <<queues, conns, worker, ws, app, release, clear, signals,
                   wanted>>

NiceCheckCurrent(g) ==
    /\ nice[g] = "alive"
    /\ IF IsCurrent(g)
       THEN /\ nice' = [nice EXCEPT ![g] = "current"]
            /\ UNCHANGED crashed
       ELSE NiceReturn(g)
    /\ UNCHANGED <<queues, conns, worker, ws, app, release, clear, signals,
                   wanted, history>>

\* The map lock was released after the check.
NiceReportAlive(g) ==
    /\ nice[g] = "current"
    /\ ReportAlive(g)
    /\ NiceReturn(g)
    /\ UNCHANGED <<queues, conns, worker, ws, app, release, clear, signals,
                   wanted>>

-----------------------------------------------------------------------------

AppStep ==
    AppClearOne \/ AppClearDone \/ AppStopIceWorker \/ AppJoinIceWorker
        \/ AppCloseWs

WsStep ==
    WsCreated \/ WsPush \/ WsReportConnecting \/ WsClearOne \/ WsClearDone

ReleaseStep(t) == ReleaseClose(t) \/ ReleaseReport(t) \/ ReleaseJoin(t)

WorkerStep ==
    WorkerTakeCleanup \/ WorkerExit \/ WorkerTakeMsg \/ WorkerLookup
        \/ WorkerReportLeave \/ WorkerReleased \/ WorkerStart
        \/ WorkerConfigExpired \/ WorkerCreateTransport \/ WorkerInitIce
        \/ WorkerInitIceFails \/ WorkerNegotiate \/ WorkerReportFailed

NiceStep(g) ==
    NiceRetire(g) \/ NiceReportTerminal(g) \/ NiceCheckCurrent(g)
        \/ NiceReportAlive(g)

\* What the application, the signalling server and the network decide.
Environment ==
    \/ AppLeave \/ AppDestroy \/ WsTlsCertError
    \/ \E u \in Users, k \in SignalKinds :
          WsReplaceOrCreate(u, k) \/ WsBuildConnectionInfoFails(u, k)
             \/ WsQueueOnly(u, k)
    \/ \E g \in Gens, s \in {"alive", "terminal"} : NiceStateChange(g, s)

Next ==
    /\ ~crashed
    /\ \/ Environment \/ AppStep \/ WsStep \/ WorkerStep
       \/ \E t \in Releasers : ReleaseStep(t)
       \/ \E g \in Gens : NiceStep(g)

Spec == Init /\ [][Next]_vars

\* Every thread that can go on eventually does; the environment owes nothing.
Fairness ==
    /\ WF_vars(~crashed /\ AppStep)
    /\ WF_vars(~crashed /\ WsStep)
    /\ WF_vars(~crashed /\ WorkerStep)
    /\ \A t \in Releasers : WF_vars(~crashed /\ ReleaseStep(t))
    /\ \A g \in Gens : WF_vars(~crashed /\ NiceStep(g))

FairSpec == Spec /\ Fairness

-----------------------------------------------------------------------------
(* Properties *)

ConnIds == Gens \cup {NoConn}

TransportStates == {"none", "made", "live", "dead"}
NiceStates == {"idle", "alive", "terminal", "current", "ended"}
WorkerStates ==
    [pc : {"idle", "lookup", "closed", "releasing", "start", "replace", "init",
           "negotiate", "failed", "exited"},
     conn : ConnIds, msg : Msgs \cup {NoMsg}]
WsStates ==
    [pc : {"idle", "created", "push", "connecting", "clearing"},
     old : ConnIds, new : ConnIds, msg : Msgs \cup {NoMsg}]
AppStates ==
    {"idle", "leaving", "destroying", "stop", "join", "close", "destroyed"}
ReleaseStates ==
    [step : {"none", "close", "report", "join"}, conn : ConnIds, tr : Nat]
ClearStates == [todo : SUBSET Gens, held : SUBSET Gens]

TypeOK ==
    /\ conn_map \in [Users -> ConnIds]
    /\ created \in 0..MaxGen
    /\ remote \in [Gens -> Users \cup {"none"}]
    /\ msg_queue \in Seq(Msgs)
    /\ cleanup \in Seq(Gens)
    /\ running \in BOOLEAN
    /\ transport \in [Gens -> TransportStates]
    /\ incarnation \in [Gens -> Nat]
    /\ closed \in [Gens -> BOOLEAN]
    /\ nice \in [Gens -> NiceStates]
    /\ worker \in WorkerStates
    /\ ws \in WsStates
    /\ app \in AppStates
    /\ release \in [Releasers -> ReleaseStates]
    /\ clear \in [Clearers -> ClearStates]
    /\ signals \in 0..MaxSignals
    /\ wanted \subseteq Users
    /\ terminals \in [Gens -> Nat]
    /\ late \subseteq Gens
    /\ crashed \in BOOLEAN

\* The application, a leave from the server, a lost signalling connection, a
\* failing transport and the teardown of the transport itself may all end the
\* same connection at once; the application hears of its end at most once.
OneTerminalStatus == \A g \in Gens : terminals[g] <= 1

\* Once the application has been told that a connection ended, nothing it sends
\* reaches that connection again: it is no longer in the map.
EndedIsNotCurrent == \A g \in Gens : terminals[g] > 0 => ~IsCurrent(g)

\* Destroy clears the map before it stops the worker and RetirePeerConnection
\* looks at ice_worker_running_ under the worker's lock: no connection is left
\* in the cleanup queue of a worker that has gone.
NoCleanupAfterWorkerExit == worker.pc = "exited" => cleanup = <<>>

\* A retired connection is in exactly one place: the cleanup queue never holds
\* it twice, nor while it is current.
RetiredOnce ==
    /\ \A i, j \in DOMAIN cleanup : cleanup[i] = cleanup[j] => i = j
    /\ \A i \in DOMAIN cleanup : ~IsCurrent(cleanup[i])

\* A connection that has left the map is shut down: its libnice thread ends.
RemovedIsReleased ==
    \A g \in Gens :
        (transport[g] = "live" /\ ~IsCurrent(g)) ~>
            (transport[g] = "dead" \/ crashed)

\* Leave and Destroy come to an end, though they join the worker, the websocket
\* thread and libnice threads that may be calling back.
AppReturns ==
    (app \notin {"idle", "destroyed"}) ~>
        (app \in {"idle", "destroyed"} \/ crashed)

\* A late callback of a removed connection is ignored: after its terminal
\* status a generation is never reported alive.
NoStatusAfterTerminal == late = {}

\* A libnice callback never destroys and joins its own thread.
NoSelfJoin == ~crashed

\* When everything has been processed, a user whose last signal was a join or
\* an offer has a connection with a live transport, if nothing failed and the
\* application did not leave.
Quiet ==
    /\ ws.pc = "idle" /\ worker.pc = "idle"
    /\ msg_queue = <<>> /\ cleanup = <<>>
    /\ \A t \in Releasers : release[t] = Idle
WantedIsConnected ==
    Quiet => \A u \in wanted :
                conn_map[u] # NoConn /\ transport[conn_map[u]] = "live"

=============================================================================
