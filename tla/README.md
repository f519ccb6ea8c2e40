# MiniRTC: a TLA+ verification project

MiniRTC (`src/src`) is a C++17 library for real-time audio, video and data
between peers. An application creates a peer, the library logs in at a
signalling server over a secure websocket, and a peer connection is negotiated
for every remote user: ICE through libnice, DTLS-SRTP, RTP with NACK, RTX and
key frame requests, pacing and bandwidth estimation.

Almost everything hard in it is concurrency: half a dozen kinds of thread meet
in state that is guarded by several small locks, threads join each other, and
the network loses and reorders what they exchange. The project models those
parts at the grain of single critical sections or tasks, in eleven component
modules, and checks them with TLC; every safety property the passing runs check is
also proved with TLAPS for every value of the constants.

- [1. Inventory](#1-inventory): the parts of the system
- [2. Plan](#2-plan): what is done, what is next
- [3. Modules](#3-modules): state and actions against the code
- [4. Runs](#4-runs): what is checked, with which bounds and fairness
- [5. Proofs](#5-proofs): what is proved and how
- [6. Deviations](#6-deviations): where code and comments disagree
- [7. Not modelled](#7-not-modelled)

`PROJECT.json` lists the components, the runs and their properties, the source
lines of every definition, one mutant for every property and the hazards.

    tlc -workers 2 -config MCSignaling.cfg MCSignaling     # a run
    tlapm SignalingProofs.tla                              # a proof

## 1. Inventory

Paths are relative to `src/src`.

| Component | State it keeps | Operations | Talks to |
|---|---|---|---|
| C API (`api`, `rtc`) | the peer handle | create, init, join, leave, send, destroy | calls PeerConnection |
| Signalling session (`pc/peer_connection.cpp`) | `signal_status_`, `ws_status_`, `pending_join_transmission_id_`, `leave_` | Init, Login, Join, Leave, Destroy, `on_ws_status_`, login answers | WsClient calls back on its I/O and reconnect threads; sends through WsClient |
| Connection lifecycle (`pc/peer_connection.cpp`, `pc/minirtc_connection.cpp`) | `peer_connection_map_`, the worker's message queue, the cleanup queue, each connection's `ice_transport_` | create and replace on a signal, retire on an ICE failure, remove on a leave, clear on loss of signalling, release | four kinds of thread: application, websocket, ICE worker, one libnice thread per transport |
| WsClient (`ws/ws_client.cpp`) | `shutdown_`, `is_reconnecting_`, `reconnect_generation_`, the endpoint and its thread, the reconnect threads, the heartbeat | Connect, ReConnect, ScheduleReconnect, Shutdown, websocketpp handlers | websocketpp runs the handlers; status callbacks into PeerConnection |
| TaskQueueLockFree (`common/task_queue_lock_free.h`) | a lock-free queue, a counter, a stop flag, a mutex and condition variable used only for sleeping | PostTask, WorkerThread, Stop | encode, decode and feedback pipelines |
| TaskQueue (`common/task_queue.h`) | a priority queue by execution time | PostTask, PostDelayedTask, Stop | pacer, congestion control, history |
| Video receiver (`transport/channel/rtp_video_receiver.cpp`, `qos/nack_requester.cc`) | the NACK list, tracked frames, fragments, `awaiting_keyframe_`, the last delivered and last discarded frame, the key frame request timer | InsertRtpPacket, Process, RequestKeyFrame | receive thread, its own thread, the decode queue; RTCP to the sender |
| Video sender (`transport/channel/video_channel_send.cpp`, `rtp/rtp_packet/rtp_packet_history.cpp`) | packet history with pending marks, NACKs to answer, the NACK task flag | SendVideo, OnReceiveNack, ReSendPacket, OnSentRtpPacket, Destroy | history task queue, pacer, RTCP thread |
| ICE transport and agent (`transport/ice_transport.cpp`, `ice/ice_agent.cpp`) | descriptions, queued candidates, gathering flags, component state, the DTLS session | offer, answer, candidates, gathering done, state changes, DTLS records, close | libnice thread, ICE worker, signalling |
| Transport controller (`transport/ice_transport_controller.cpp`) | stream maps, key frame requests, adaptation state, task queues | create, send, receive dispatch, feedback, adaptation | everything in the media path |
| Pacer and probing (`transport/paced_sender`, `qos/pacing_controller.cc`, `qos/prioritized_packet_queue.cc`, `qos/bitrate_prober.cc`, `qos/probe_controller.cc`) | priority queues, budget, probe clusters | enqueue, process, key frame flush, padding, probes | task queue, transport |
| Feedback and estimation (`qos`) | packets in flight, arrival records, rate estimates | on sent, on feedback, build feedback | RTCP both ways |
| Data channels (`pc/datachannel_connection.cpp`, `transport/datachannel_transport.cpp`, `transport/channel/data_channel_*.cpp`) | channel state, KCP | open, close, send, receive | libdatachannel, KCP |
| Adaptation (`media/resolution_adapter`) | hysteresis counters | observe, decide | transport controller |
| RTP, RTCP, SRTP, FEC, codecs, statistics, logging | buffers, counters | encode, decode, count | leaf code |

What is hard, and what correctness means for it:

- **Shutdown against everything.** Every queue, client and connection has a stop
  that joins threads which may be calling back into it. It must return, and
  nothing may survive it.
- **Ends that race.** A connection can be ended by the application, the remote
  user, the signalling server, ICE and teardown at once. The application must
  hear of it exactly once, and afterwards nothing may reach it.
- **Reconnecting.** A reconnect may coincide with failures of the connection it
  is replacing and of the one it makes. There must be one at a time, and one
  when it is needed.
- **Requests across a reconnect.** A join made while not logged in must be sent
  exactly once or cancelled, never both.
- **Loss recovery, receiving.** Packets are lost, late, repeated and reordered
  while three threads consult the NACK list and the frame list under different
  locks. The decoder must not get a delta frame over a gap the receiver does not
  know of, nothing may block for ever, and an awaited key frame must be asked for.
- **Loss recovery, sending.** A packet is numbered on one thread, stored on
  another and asked for on a third. Everything that was numbered must be
  repairable, once at a time, and a key frame that was asked for must come.
- **Early and late signalling.** Candidates come before the description they
  belong to and after the exchange they belong to. An agent must get the right
  ones and must not be told too soon that it has them all.
- **From a path to media.** The ICE path, the handshake and teardown proceed on
  different threads of two peers. Media must wait for keys, and everyone who
  holds a copy of "the network is up" must come to agree.
- **A pacer that wakes itself.** Its one timer must always be armed, early enough,
  and a probe that cannot be sent must not hold up the rest.
- **Counting what is in flight.** Sends fail, numbers wrap and are used again, and
  reports come late or twice.
- **Probing in the right conditions.** Network, path and estimate events come in
  any order, and probing must neither overshoot nor stop.
- **Sleeping and waking** of workers whose queue is not guarded by the mutex of
  their condition variable.

`PROJECT.json` lists the hazards one by one, each at its line, with the
properties that would catch it or the reason none does yet.

## 2. Plan

The order follows what the rest of the system stands on. Done:

1. `TaskQueueLockFree`.
2. `PeerConnection` and the abstract `ConnectionLifecycle` it implements
   (`PeerConnectionLifecycle` is the refinement mapping).
3. `WsClient`.
4. `Signaling`. It takes from `WsClient` only the order in which
   statuses are reported.
5. `VideoReceiver`.
6. `VideoSender`: the encode queue, key frame requests, the pacer's queue and its
   flush, packet history and retransmission.
7. `IceNegotiation`: the offers, answers and candidates of two peers.
8. `MediaPath`: ICE agent, DTLS, transport and controller of two peers.
9. `PacedSender`, with the pacing controller and the prober.
10. `TransportFeedback`: sender, network, receiver's trackers, adapter.
11. `Probing`: congestion control and its probe controller.

Next: `TaskQueue` (delayed tasks and Stop), `DataChannel`, `AdaptationPolicy`
(hysteresis of resolution and frame rate), the priorities of
`PrioritizedPacketQueue`, and 16-bit wraparound in the NACK list. `VideoSender`
and `VideoReceiver` could be composed; each now has the other as an arbitrary
environment, which is weaker than the real one and enough for their properties.

Proved: every invariant, every action property and the refinement that the passing
runs check, of all eleven components. The proofs of components that belong together
share a module: `SchedulingProofs` (`TaskQueueLockFree`, `PacedSender`),
`SignalingProofs` (`Signaling`, `IceNegotiation`), `CongestionControlProofs`
(`TransportFeedback`, `Probing`); the others are in `<Component>Proofs`. What is left
to TLC is liveness. The runs stay few: one passing run for each component or
composition, and a violation run only where the code contradicts a statement of
the repository.

## 3. Modules

Every component module has its state as variables with the source's names where
possible, one action for each critical section, callback or join, `Next`,
`Spec`, the fairness, and its properties. A definition introduced by
`\* Mutant` is a wrong version of the definition after it; no action uses it,
and it serves to show that a property can fail. `MC*` modules only give
constants their values.

### TaskQueueLockFree

`mutex`, `stop_flag`, `pending` and `task_queue` are the queue's members;
`ppc`, `wpc` and `spc` say where each producer, worker and the stopping owner
is. The lock-free queue is one FIFO for each producer (what
`moodycamel::ConcurrentQueue` guarantees; external), and a worker may take the
first task of any of them. PostTask enqueues, counts and notifies under the
mutex; a worker dequeues, decrements and runs without it, takes the mutex only
to sleep, and may wake spuriously; Stop sets the flag, notifies, swaps the
worker list and joins. The delay statistics are left out.

### PeerConnection, ConnectionLifecycle, PeerConnectionLifecycle

Each connection ever made is a *generation*, the word the code's comments use.
`conn_map` is `peer_connection_map_`; `msg_queue` and `cleanup` are the worker's
two queues; `transport`, `incarnation` and `closed` are a connection's
`ice_transport_`; `worker`, `ws`, `app`, `nice`, `release` and `clear` are the
threads' places in the code.

| Code | Actions |
|---|---|
| Leave, Destroy, ClearPeerConnections, StopIceWorker | `AppLeave`, `AppDestroy`, `ClearTake`, `ClearOne`, `AppStopIceWorker`, `AppJoinIceWorker`, `AppCloseWs` |
| ProcessSignal: join, offer, answer, leave, lost signalling | `WsReplaceOrCreate`, `WsBuildConnectionInfoFails`, `WsCreated`, `WsQueueOnly`, `WsPush`, `WsReportConnecting`, `WsTlsCertError`, `WsClearOne` |
| ProcessIceWorkMsg and the worker loop | `WorkerTakeCleanup`, `WorkerTakeMsg`, `WorkerLookup`, `WorkerReportLeave`, `WorkerConfigExpired`, `WorkerCreateTransport`, `WorkerInitIce`, `WorkerInitIceFails`, `WorkerNegotiate`, `WorkerReportFailed`, `WorkerExit` |
| the libnice status callback, RetirePeerConnection | `NiceStateChange`, `NiceRetire`, `NiceReportTerminal`, `NiceCheckCurrent`, `NiceReportAlive` |
| ReleaseAllIceTransmission | `ReleaseClose`, `ReleaseReport`, `ReleaseJoin` |

Three branches are reduced. When a message gives no connection info the code
reports Failed for the user id, and a connection the user already has stays
(`pc/peer_connection.cpp:1062`, `1102`); that report is not one of a generation's, and
`WsBuildConnectionInfoFails` leaves it out. `MiniRtcConnection::Init` always returns 0, so
the branch that retires a connection it failed on is dead. All messages of a run are of
one transmission: that the worker drops those of another
(`pc/minirtc_connection.cpp:182`) is left out.

`ConnectionLifecycle` is the promise: a generation is created, and then either
silently replaced or ended and reported exactly once. `PeerConnectionLifecycle`
holds the mapping and the inductive invariant `IInv`.

### WsClient

Endpoints and reconnect threads are numbered in the order they are made. `io[e]`
is the I/O thread of an endpoint, which runs the websocketpp handlers; `thread[t]`
is a reconnect thread; `slot` and `pending` are `reconnect_thread_` and
`pending_threads_`; `work` says what keeps an event loop running. The actions
are the steps of Connect, Shutdown (`App...`), the scheduled thread and
ReConnect (`Thread...`), and of the handlers and ScheduleReconnect (`Io...`). A
wait may end at any time. Messages are not modelled.

### Signaling

`link`, `reply` and `member` are the connection and the server's view of it;
`wsStatus`, `signal`, `reported` and `pending` are the members; `fate` says what
became of each Join. The I/O thread handles the login answer in three steps
(`IoLoginSucceeds` or `IoLoginFails`, `IoLoggedIn`, `IoReport`); the reconnect
thread reports WsReconnecting (`RcReconnecting`, `RcSetSignalStatus`,
`RcReport`), closes and joins (`RcClose`, `RcJoin`) and dials again (`RcDial`).
WsClient never reports WsFailed, WsClosed or WsServerClosed, so those branches
of `on_ws_status_` are dead code and have no action.

### VideoReceiver

| Code | Actions |
|---|---|
| InsertRtpPacket | `Receive`, then `LateRtx`, or one of `FirstEver`, `OutOfOrder`, `InOrder`, `Overflow` (NackRequester), then `Corrupt`, `InsertNalu`, or `TrackPacket` and `CommitFrame` |
| NACK batches | `InOrder` and `ProcessNacks` take one; `SendNack`, `OnNackBatchSent` |
| key frame requests | `EnterAwaiting`, `SendKeyFrameRequest`, `FirTimer` |
| Process | `ProcessNacks`, `MaybeRetryKeyFrameRequest`, then for the head frame `DropUseless`, `DeliverAwaitedKey`, `SkipDelta`, `Deliver`, `HardTimeout`, `Escalate`, `RequestSoftFir` or `LeaveHead`, and `DropFrameAssembly` |
| decoder failure | `DecoderFails` |

The sender is what may arrive: the stream is in flight from the start, the first
frame is a key frame (`b_force_i_frame_`), any other may be, packets arrive in
any order or never, and a NACK is answered for any subset of what it names.

Abstractions, and why they are sound for the properties:

- sequence numbers and timestamps do not wrap; a frame's timestamp is its number;
- which NACKs are due and how old the head frame is are choices; this allows
  more behaviours than the clock does, with one order kept: the soft deadline
  and its confirmation come before the hard one only if Process looks in time;
- a NACK that the transport refuses is one that nobody answers: both only
  release `send_pending`. A FIR that is refused and one that is sent both start
  a retry interval, of 500 and 1500 ms;
- the retry limit (`qos/nack_requester.cc:127`) and the packet age (`164`) of the NACK
  list are left out: with the hard deadline at most a second away they reach only
  entries no frame waits for. So is the list of recovered packets (`91`): only a
  retransmission ahead of everything received enters it, and what a NACK asks for is
  behind;
- an H.264 frame of one packet is a single NALU. An AV1 frame of one packet takes
  the path of the longer ones, which the model covers with frames of two packets;
- RTX is negotiated (otherwise the NACK list stays empty), padding packets,
  receiver reports, statistics and StopRtcp are left out.

### VideoSender

Six threads: capture, encode queue, pacer queue, history queue, network, and the
one that destroys the channel.

| Code | Actions |
|---|---|
| SendVideo of the controller, FullIntraRequest | `SendVideo`, `FullIntraRequest` |
| the encode task: ForceIdr, Encode, packets to the pacer | `EncodeThread` |
| the pacer: enqueueing, key frame flush, numbering, sending, padding | `PacerThread`, `SendPadding` |
| the history: PutRtpPacket, GetPacketAndMarkAsPending, MarkPacketAsSent, MarkPacketAsAborted, RemoveDeadPackets | `HistoryThread` |
| OnReceiveNack, RTT updates | `OnReceiveNack`, `OnReceiveNackPosts`, `OnRttUpdate` |
| Destroy | `DestroyBegins`, `DestroyThread` |

Sequence numbers wrap at `SeqSpan`. Which packets are old enough to be culled,
and which were resent too recently, are choices. The receiver may ask for any
numbers that were sent, at any time and again. What is in flight is counted by the
positions it has in the queues (`Count`). An encoder may yield nothing when a key frame
was asked of it, and then either still knows (AOM restores its mark) or has forgotten
(SVT-AV1 and NVENC clear theirs first). `owed` is a history variable: the place where
the newest FIR has to be. A retransmission that cannot be built is one that is not
made. Padding may pass packets that wait, as keep-alives and the openers of probes do.

### IceNegotiation

`net[p]` is the signalling channel to a peer, `work[p]` its worker's queue,
`conns[p]` its connection and, in `conns[p].t`, the transport: own and remote
ufrag, what the agent was given, and the two queues in which early candidates
wait (of the connection before there is a transport, of the transport before
there is a remote description), both limited (256 in the code). Each join makes
a new exchange while messages of the one before are still under way. Messages
can be lost, transports fail to be created, offers and answers be refused
(`OfferRefused`, `AnswerRefused`) and candidates and markers by the agent
(`CandidateRefused`). SDP text is reduced to the ufrag and the candidates. The signalling thread is `ProcessSignal`,
the worker `ProcessIceWorkMsg` with one action for each kind of message, the agent's
callbacks are `OnNewLocalCandidate` and `OnGatheringDone`; `Join` and `Send` are the
signalling server. The loops that hand a queue of early candidates to
AddRemoteCandidate one by one are `Replayed`, which says what they come to: without a
description the queue is kept whole, with one the candidates of its generation reach
the agent up to the first marker.

### MediaPath

For both peers: the libnice thread with its callbacks, four DTLS flights (external
OpenSSL), the component state tracker, the controller's flags, the pacer and
congestion control queues that are told of changes, and teardown on the ICE
worker. SRTP may be wanted by either side or neither, and the certificate may
differ from the fingerprint in the description. Records may be lost, and one
that comes before the other side has started its handshake is dropped. That OpenSSL
cannot make a context or a session (the error returns of StartDtls,
`ice/ice_agent.cpp:971-1008`, `1036`) is not modelled: media then never starts. Nor can
SSL_do_handshake complete in StartDtls (`1024`), since both ends wait for a record. A
failing ExportSrtpKeys is left out as well; see section 6.

### PacedSender

PacedSender, PacingController and BitrateProber run on one task queue. `pc` and
`then` say where a task is in the two processing loops; `controller` is the
PacingController with its debts, queue and prober; `delayed_tasks` are the timers posted, of
which `next_process_time` names the one that counts. `Processing` is one step of
ProcessPackets, SendPacket, GeneratePadding, rescheduling or the change of
readiness that ends it. `DelayedTask` and `Tick` are the clock; the other actions
are the calls from outside. Instants are distances from now, so the state is
finite without a bound on time. `silence` is a history variable, the time since a packet
really left; the code's own `last_send_time_` (`since_send`) also moves when a keep-alive
was due and no stream could pad. Left out of the send loop: the clamp for a clock that
was set forward (`qos/pacing_controller.cc:473`) and the circuit breaker after 65536
rounds (`546`), neither of which the thresholds of a run reach.

### TransportFeedback

`queue` and `sending` are the pacer's side, `history`, `rtp_to_transport`,
`in_flight`, `last_ack` and `unwrapper` the adapter's, `trackers` the receiver's;
`net` and `reports` are what is under way, and either may arrive late, twice or
never. A send is registered before it is made (`SendPacket`) and afterwards
confirmed (`OnSentPacket`) or taken back (`RollbackPacketFeedback`); reports may
be processed in between. `misrolled` and `shadowed` are history variables that
mark two situations section 6 describes. A report carries which packets arrived and not
when: the wire format turns an arrival more than 8 s before the report, or after it,
into an offset that reads as not received (`rtcp/congestion_control_feedback.cpp:82-104`,
`qos/transport_feedback_adapter.cc:238`). For the sender that is a packet whose
report says lost, which the model has anyway.

### Probing

One action for each task the controller posts to the congestion control queue:
`OnNetworkAvailability`, `SetRelayPath`, `OnProcessInterval`,
`OnTransportPacketsFeedback`, `OnSentPacket`; and `Tick`. `probe_controller` is the
ProbeController; its operations (`SetBitrates`, `SetEstimatedBitrate`,
`RequestProbe`, `Process`, ...) are operators from one controller state to the
next, as the code's are functions that return clusters, here collected in
its field `sent`. Rates are in units of 100 kbit/s. The estimators are external: each
report chooses a rate, what limits it and whether the estimator has recovered.

## 4. Runs

| Run | Instance | Distinct states | Properties |
|---|---|---|---|
| `tqlf` | 2 producers with 2 posts each, 1 worker, Stop at any time | 12 thousand | `PendingCountsQueue`, `NoTaskBehindSleepingWorkers`, `RunsInPostOrder`, `AcceptedTaskRuns` |
| `pc` | 1 user, 2 generations, 2 signals, every fault and application call | 159 thousand | `OneTerminalStatus`, `IInv`, `ImplementsLifecycle`, `RemovedIsReleased`, `AppReturns` |
| `pc_rejoin` | 1 user, 2 generations, 3 signals (join and leave), no faults | | `WantedIsConnected` is violated |
| `ws` | 3 faults of every kind, Close at any time | 18 thousand | `EndpointIsOwned`, `NothingAfterShutdown`, `ReconnectProceeds` |
| `signaling` | 3 connections, 3 joins, 2 leaves | 161 thousand | `SessionIsSound`, `ReportedIsCurrent`, `FateIsFinal`, `QueuedJoinIsSettled` |
| `video` | 3 frames of two, one and one packets, NACK list of 1, 1 fault | 647 thousand | `NackListIsSound`, `AssemblyIsSound`, `GapsAreAccountedFor`, `PendingFramesDrain`, `KeyFrameIsRequested` |
| `sender` | 2 frames of 2 packets, span 8 from number 6, history of 3, 2 NACKs, 1 FIR, 1 fault | 1.01 million | `RepairIsSound`, `SkipsOnlyToKeyFrames`, `KeyRequestIsHeld`, `NacksAreServed` |
| `pacer` | thresholds of 1 to 4 ticks, tasks at most 1 tick late, queue of 1 | 2.57 million | `TimerIsRight`, `KeepsAlive`, `ProbesMoveOn`, `ProcessingEnds` |
| `ice` | 2 candidates, queues of 2, 2 joins, 1 message lost or candidate refused, 1 failure | 398 thousand | `CandidatesAreSound`, `SettledIsMatched`, `JoinsAreMatched` |
| `path` | 1 record lost, 2 changes of path | 184 thousand | `MediaIsKeyed`, `ControllersAgree`, `MediaStarts` |
| `feedback` | 2 streams, span 8 from number 7, tracker history of 2, 3 packets, 1 failed send, 2 reports | 699 thousand | `InFlightIsExact`, `CreditsAreTrue`, `ArrivalsAreReported` |
| `probing` | thresholds of 1 to 3 ticks, the code's starting and maximum rates, 4 events from outside | 926 thousand | `ProbesAreRestrained`, `ProbingGoesOn` |

What a property says is written above it in its module. Several are conjunctions
of named parts (`NackListIsSound`, `SessionIsSound`, `EndpointIsOwned`,
`RepairIsSound`, `TimerIsRight`, ...), each with its own comment; a type
invariant, where a module has one, is among the parts.

Why the bounds are enough for the interesting cases:

- `tqlf`: two producers give every race of two posts with one sleeping worker,
  and two posts show order and a counter that is negative for a moment. The
  theorems cover any number.
- `pc`: two generations are what replacement needs; all interactions are between
  a connection and its successor, users being independent but for the worker.
  Two signals give create and replace, create and leave, and two creations.
- `ws`: three faults let a reconnect fail while another failure is reported and
  then once more. Endpoints and threads are bounded by what the faults can cause.
- `signaling`: with three joins one can be queued, replaced and sent; with three
  connections a login can be lost twice.
- `video`: with a frame of two packets one can be partial; the two after it give
  a blocked frame and a key frame behind it. The NACK list of one overflows on
  the second loss. Four frames, and layouts `<<1,3,4>>` and `<<1,3,4,5>>` with
  a list of two, were explored for the safety properties as well; only there are
  the excuses `skipped` and `revived` of `GapsAreAccountedFor` needed.
- `sender`: four packets from number 6 cross the wrap at 8 and overrun a history
  of 3; the second frame can flush the first; two NACKs let one arrive while the
  other is served, and a batch limit of 1 makes the task post itself again.
- `pacer`: the thresholds are in the order they have in the code (holding back
  before the paused interval, that before the cluster timeout), so every comparison
  in the code goes both ways; two clusters let one wait behind another, and one
  packet in the queue is enough to hold a keep-alive or a probe back.
- `ice`: two candidates and a marker overrun a queue of two; the second join meets
  what is left of the first.
- `path`: two changes make a path that is ready, rechecked and lost; the
  handshake is complete in the model.
- `feedback`: three packets from number 7 cross the wrap on either stream; two
  reports can come in the wrong order; a tracker history of 2 forgets.
- `probing`: four events are, for example, network, relay, estimate and drop,
  with any number of process intervals and ticks between them.

`CHECK_DEADLOCK FALSE` is set where a bounded run may end: all signals received,
all posts made, the client shut down. `VideoReceiver`, `VideoSender`,
`PacedSender` and `Probing` never stop (a channel that was destroyed stutters in
`Done`) and deadlock is checked.

**Fairness.** A thread that can take its next step takes it (weak fairness for
each thread): the operating system schedules every thread. Locks that are
released again and again are granted (strong fairness on `PostLock`,
`WorkerLock` and the swap in `Stop`), as for any mutex that does not starve.
Nothing is assumed of the network or the application, with two exceptions that
the properties state: in `WsClient` and `Signaling` a connection attempt that is
not made to fail succeeds, and a login on a connection that is not lost is
answered. In `VideoReceiver`, time passes: a retry interval ends, and a frame
that Process finds stalled again and again is some day past its hard deadline
(strong fairness on `HardTimeout`). Elsewhere no more is assumed than the
property needs: in `VideoSender` the history thread and the second half of
OnReceiveNack, in `PacedSender` the task that is running (not the timer), in
`IceNegotiation` and `MediaPath` the threads of each peer (a peer need not join,
libnice need not find a path), in `Probing` the controller's timer thread and
time. `TransportFeedback` has none, since a report may never come.

## 5. Proofs

TLAPS checks these for every value of the constants that satisfies the named
assumptions: bounds that are naturals, finite disjoint sets of threads and a
finite set of SSRCs, frames laid out one after another, a span of sequence
numbers that is even and, as in the code, more than twice what is under way
(`TransportFeedback`) or stored (`VideoSender`), thresholds of the pacer and the
probe controller in the order the code has them in. Each is an invariance proof:
`Init => IInv`, `IInv /\ [Next]_vars => IInv'`, and `IInv` implies the property. Where
a module proves two components the second has names of its own (`PacerInv`, `IceInv`,
`ProbingInv`).

**SchedulingProofs**, TaskQueueLockFree: `TypeCorrect`, `PendingCounts`,
`NoStrandedTask`, `PostOrder`.
`PendingCountsQueue` says that the counter is the length of the queue, less the
tasks being counted in and plus those being counted out; that is not inductive
alone. `IInv` adds that the mutex excludes (`MutexHeld`), that each producer's
stream holds increasing task numbers no larger than what it posted
(`StreamsOrdered`, so a task is in the queue once and enqueueing adds exactly
one), that a worker past its dequeue holds a task, and that a worker about to
block has seen an empty queue with the mutex held. `PostOrder`
(`RunsInPostOrder`) needs the hypothesis `OneWorker`, as the property does: two workers
may dequeue in order and run out of order. Its own invariant says that what a
producer's tasks have run is behind what a worker holds, and that is behind what
is queued (`ExecutedBehind`, `HeldBetween`).

**SchedulingProofs**, PacedSender: `PacerInvariant`, `TheTimerIsRight`
(`TimerIsRight`), `SilenceInvariant`, `ThePeerHears` (`KeepsAlive`), `ProbesDoMoveOn`
(`ProbesMoveOn`). The
pacer re-arms its own timer, and each deadline is a sum: the distance of the timer and
the age of the last packet are together at most the paused interval and the time a
task is held back; the distance of the timer and the age of the oldest cluster are
together less than the cluster timeout and that time. The clock shortens one part and
lengthens the other by the same amount, so only rescheduling has to establish the
sums (`TimerOK`), which follows from what NextSendTime promises (`SendTimeIs`).
Inside the send loop `LoopOK` says what the locals still owe, and `WorkingOK` where
the task may stand while the timer does not count. That a probe is never stuck needs
more: the next probe of the first cluster is due soon (`Soon`), or it is so late that
the next look discards it. Assumed of the constants (`PacerAssumption`,
`ClusterAssumption`): a task is held back for less than the paused interval, no
elapsed time is cut off before it, a probe's spacing is more than what it may come
early, and a cluster is over before the next keep-alive, which in the code is some
120 ms against 500 ms. `TimerOK` bounds the age the code keeps, which is not the
silence of the path. `SilenceInv` ties the two: while a keep-alive would have a packet to
send, the time since one really left is at most that age, and otherwise it is not
counted. `KeepsAlive` follows from both.

**PeerConnectionProofs**: `TypeCorrect`, `ReportedOnce`, `EndedIsUnreachable`,
`CleanupIsExact`, `Implementation`. The idea of `IInv` is a *claim*: the thread
that took a connection out of the map owes one terminal status. `ClaimsExclusive`
says that no two threads claim one connection, `ClaimsOpen` that a claimed
connection has not been reported, `EndedIsNotCurrent` that a reported one is not
in the map, `MapOwned` and `RefsBorn` that the map and the threads refer to
connections that exist, `OneAtATime` and `MsgInHand` where a thread can hold a
claim, `RetiredOnce` and `WorkerGone` what the cleanup queue holds. Each action
has one of four shapes (silent, ends, reports, creates), and the proof has one
lemma for each action that says which; the shapes then map to the actions of
`ConnectionLifecycle`, which gives the refinement (safety part: the abstract
specification has no fairness).

**SignalingProofs**, Signaling: `TypeCorrect`, `MembersAreLoggedIn`, `LeaveIsEffective`,
`ConnectedMeansLoggedIn`, `OnePendingJoin`, `SessionSoundness`, `JoinedOnce`,
`ReportsAreCurrent`. `IInv` ties the places
of the two WsClient threads together (`Replacing`, `NoAnswerYet`: while a
connection is being replaced the I/O thread has no new answer), and says that a
connected session has no pending join, that a member is connected or being
replaced, and that a pending join is wanted. `JoinedOnce` is an action property
and follows from `PendingIsTheQueuedOne` and `UnusedJoins`.

`ReportsAreCurrent` adds `TellsStatus`: unless a connection is being replaced, the
application was told `signal_status_` or the I/O thread is about to tell it; and what
is said last in a replacement is the Connecting of the new connection, because the
old I/O thread was joined before.

**SignalingProofs**, IceNegotiation: `NegotiationInvariant`, `CandidatesStaySound`
(`CandidatesAreSound`), `SettledPeersMatch` (`SettledIsMatched`). What matters to a peer
is its *way*: the worker's queue followed by what the server still has for it
(`Way`). A signal that is handed to the worker does not change it, and the worker takes
its head. `IceInv` says of each direction (`Sound`):

- a candidate never precedes the description of its generation on the way
  (`Behind`), and nothing of a generation whose description is still to come has been
  seen (`Passed`). So what an early queue holds is never of the description that
  arrives, and replaying it gives the agent nothing: this is why the limits of the
  queues cannot hurt;
- if nothing was lost, a marker on the way has every candidate of its generation before
  it or in the agent already (`MarkersLast`), and what the sender has seen or finished
  is on the way or has arrived, as long as the agent takes candidates of that
  generation or will (`SeenIsSent`, `DoneIsSent`). That condition matters: an agent that
  was replaced forgets what it was given, and the sender's transport stays.

There is one lemma for each action and direction, stated for any way, connection and
transport on the other side, and used for both peers. `SettledPeersMatch` needs the
history of the exchange on top. As long as nothing is lost or refused and no exchange
overlaps, the two ways hold together at most one of join, offer and answer, which makes
a phase (`Phase`): idle, join, offer, answer, gathering. Each phase says what the two
connections are: the one that meets the join or the offer has no transport, the one
that waits for the answer has no description, and an answer is of the transport the
other has now (`IsWaiting`, `IsCalling`, `Linked`). A leave in front of the join is
processed before the signalling thread makes the new connection, or the exchanges
overlap. When everything has settled only the last phase is left, and `DoneIsSent`
with an empty way says that both have the marker.

**WsClientProofs**: `Ownership` (`EndpointIsOwned`), `ShutdownIsFinal`
(`NothingAfterShutdown`). A reconnect thread runs before it is published, and Shutdown
clears `is_reconnecting_` while one may be at work, so that no flag says who is
there. `IInv` says who *owns* a thread that runs: `reconnect_thread_`, the set that
Shutdown joins, or the handler that started it (`Owners`). Such a handler keeps
its event loop from ending, so the thread cannot get past the join of that loop
before it is published. With that, only the newest event loop runs (`Loops`) and
at most one thread works on the endpoint (`OneThread`); `Counts` bounds threads and
endpoints by the faults, which shows that the sets of the model are large enough.

**MediaPathProofs**: `HandshakeInvariance`, `KeyedMedia` (`MediaIsKeyed`), `Agreement`
(`ControllersAgree`). The copies of `media_ready` that the pacer and congestion
control apply lag behind it. `IInv` says that what waits in the two queues leads
from each copy to it: the last task of the pacer has its value, the tasks of
congestion control are a chain of changes that ends in it (`PacerIsTold`,
`CcIsTold`), the flags follow the component state one callback behind
(`PathIsKnown`), and keys come only from a completed handshake (`KeysAreEarned`). What
one end's completion says of the other is `HandshakeInv`: a flight under way is one
that its sender has reached, each end is at a point of its own turns, and an end that
is done, or was, has a peer that reached its last flight or is gone.

**VideoReceiverProofs**: `NackSoundness` (`NackListIsSound`), `AssemblySoundness`
(`AssemblyIsSound`), `GapsAccounted` (`GapsAreAccountedFor`, an action property), for
every layout of frames into packets. The core is `Accounted`: a packet up to the
newest is in the NACK list, in the hands of InsertRtpPacket or written off, or its
frame has an entry, was delivered, dropped or skipped. `Batches` says that an entry
that is being sent is in exactly one thread's batch, `InHand` what each step of
InsertRtpPacket may rely on after its lock was released, `LateEntries` that an entry
of an abandoned frame was made after it was abandoned.

**CongestionControlProofs**, TransportFeedback: `InFlight` (`InFlightIsExact`), `Credits`
(`CreditsAreTrue`), `Arrivals` (`ArrivalsAreReported`). As long as fewer than half a
span of packets is under way, unwrapping gives a packet its own number back although
the pacer's priorities reorder the numbers (`NumbersNear`, `NumbersFresh`), and no RTP
number is used twice among the packets that left (`KeysBehind`). So the adapter's two
maps stay inverse to each other (`MapsInverse`, `KeysOwned`), and what it takes from
the flight is what it had added. `TrackerInv` says that a tracker remembers only what
it heard, and has still to report only what lies after its last report.

**CongestionControlProofs**, Probing: `ProbingInvariant`, `ProbesStayRestrained`
(`ProbesAreRestrained`). The events come in any order, so what a probe is measured by
may have been set long before. `ProbingInv` says that the controller knows whether
there is a network (`available`), that it has left its first state only with one
(`ProberIsReady`), and that on a relay its starting rate is the relay's, whatever the
path was before (`StartOK`). Every probe is then bounded by that rate or by the
estimate it was asked for, step by step through the operations that can ask for one.

**VideoSenderProofs**: `KeyRequestsAreHeld` (`KeyRequestIsHeld`),
`SkipsReachKeyFrames` (`SkipsOnlyToKeyFrames`), `HistoryIsRight`, `RepairSound`
(`RepairIsSound`). The lemmas on RtpPacketHistory say that culling, removing a
duplicate, growing at either end and storing keep the deque aligned modulo the span,
whatever number is stored, and that a stored number is found at its place because the
capacity is less than half a span. `KeyRequestsAreHeld` needs that a frame never waits
in the encode queue beside another one, and that nothing but the frame that carries a
request clears the place it is in. `IInv` adds to the types that the numbers of what
was sent run up to `ssrc_seq` (`NumbersInv`), which makes the next packet the one
after the back of the deque; that frames on their way to the pacer are the next ones
(`FramesInOrder`), and that the stream sent and queued is one in which every packet
follows its predecessor and the last frame is complete (`StreamOK`), which is what
the flush and the packets of the next frame need. `HistoryIsRight` is all of
`RepairIsSound` but the pending marks, over any number of wraps. `RepairSound` proves
all of it as long as no number was used twice (`Len(out) <= SeqSpan`), from an
invariant that says that whatever is in flight has been in the history
(`FlightInv`), so that a packet stored for the first time has nothing in flight. The
restriction is real: pacing is left open, so a retransmission can wait while the
numbers wrap and meet a new packet of its number (TLC shows it with a span of 4).
In the code that takes 65536 packets during one wait in the pacer.

Each theorem is for an unbounded instance of what a run checks on a small one; the
lemmas of `FiniteSetTheorems` carry the counting, and a least element of a set of
naturals (from well-foundedness) stands for induction where one is needed. `Count`
in `VideoSender` counts positions of a sequence because the prover has no theory of
`SelectSeq`.

Only model-checked:

- everything about liveness (`AcceptedTaskRuns`, `AppReturns`, `RemovedIsReleased`,
  `ReconnectProceeds`, `QueuedJoinIsSettled`, `PendingFramesDrain`,
  `KeyFrameIsRequested`, `NacksAreServed`, `ProcessingEnds`, `JoinsAreMatched`,
  `MediaStarts`, `ProbingGoesOn`), which TLAPS does not do;
- the pending marks of `RepairIsSound` once numbers are used again, as said above;
- that `Replayed` (IceNegotiation) is what repeated calls of AddRemoteCandidate come
  to, an induction over the queue: the loop and `Replayed` gave the same states in the
  run.

## 6. Deviations

Where the code does not do what a comment or a document says, or what one would
expect of it. One has a violation run:

- **`pc_rejoin`**, `pc/peer_connection.cpp:1301`. Queued worker messages are
  resolved by user id. A leave queued before a rejoin removes the connection the
  rejoin has put in the map, and the rejoin's own message finds none.

Stated in a module and refuted by TLC; to see the counterexample, name the
definition as an INVARIANT or PROPERTY in the module's cfg:

- `StopReturns` (TaskQueueLockFree), `common/task_queue_lock_free.h:65`. Stop sets
  the flag and notifies without the mutex; a worker between its predicate and its
  wait misses both, and the join never returns.
- `NoStatusAfterTerminal` (PeerConnection): the test for the current generation
  and the callback are not atomic, so Connected can follow Closed
  (`pc/peer_connection.cpp:568`).
- `NoSelfJoin` (PeerConnection): when Leave comes between the worker's lookup and
  its creation of the transport, a libnice callback can own the last reference,
  and the destructor joins its own thread.
- `ShutdownReturns` (WsClient), `ws/ws_client.cpp:184`. A reconnect thread that runs
  before it is published joins the I/O thread, while the I/O thread, which has
  seen `shutdown_`, joins it.
- `Reopens` (WsClient), `ws/ws_client.cpp:162`. A new connection that is lost before
  `is_reconnecting_` is cleared is not retried.
- `AcceptedIsSentOrQueued` (Signaling): Join returns 0 while `signal_status_` is
  stale, and the message is dropped; `api/minirtc.h:379` says "0 if sent or
  queued".
- `TimesOutOnce` (VideoReceiver), `transport/channel/rtp_video_receiver.cpp:1177`.
  The test for obsolete frames and the tracking of a fragment are two critical
  sections: a fragment in between revives a frame that has timed out, and it
  times out again.
- `CompleteKeysSurvive` (VideoReceiver): a complete key frame that older losses
  block is dropped at its hard deadline and another key frame is asked for,
  although it could have been decoded.
- `KeysBeforeTeardown` (MediaPath), `transport/ice_transport_controller.cpp:1963`.
  OnDtlsHandshakeDone walks the stream maps without their locks, and Destroy can
  swap them out meanwhile.
- `WaitIsBounded` (Probing), `qos/congestion_control.cpp:87`. The initial
  constraints carry the time PlusInfinity. If the network is there before the
  first process interval, probing starts at that time: the timeout of one second
  (`qos/probe_controller.cc:34`) does not end the wait, no further probe comes
  until an estimate is high enough or the network changes, and the clusters do not
  expire in the prober.

Excused in a property, because the code does otherwise:

- `skipped` and `revived` (VideoReceiver), `transport/channel/rtp_video_receiver.cpp:1132`:
  complete delta frames are dropped while a key frame is awaited; when an older key
  frame is then repaired and decoded, or an abandoned one is revived, the frames that
  follow are decoded without them.
- `lost` of `owed` (VideoSender), `transport/ice_transport_controller.cpp:795-811`: a frame
  that cannot be materialized or scaled is dropped with the key frame request it took,
  although the comments at 750 and 817 mean the request to survive. So is the request
  of a frame whose encoder clears its mark before it can fail
  (`avt/svt_av1_encoder.cpp:291-313`, `nvcodec/nvidia_video_encoder.cpp:234-268`, under
  `media/video/encode`); nobody looks at what Encode returns. The receiver asks again
  after its retry interval.
- `can_pad` (PacedSender), `qos/pacing_controller.cc:407-424`: without a video stream
  GeneratePadding returns nothing (`transport/ice_transport_controller.cpp:256-288`), the
  keep-alive counts as sent and the next one is due 500 ms later. A transport with
  audio or data only that is congested sends nothing at all, which is the state the
  comment at `pacing_controller.cc:314` wants to avoid. TLC finds it in 13 states
  when the premise `can_pad` is taken out of `KeepsAlive` and of `silence`.

- `overlapped` (IceNegotiation): a peer that joins again before it has the answer to
  the first exchange can take the old answer for the new one, since an answer
  carries nothing of the offer it belongs to (`transport/ice_transport.cpp:854`).
  A refused offer is answered by nobody, and the offerer waits for its timeout; a
  refused answer or candidate is only logged.
- `early` and `lost` (MediaPath): no timer of DTLS is served, so a flight that is
  lost is repeated by neither side.
- `misrolled` and `shadowed` (TransportFeedback),
  `qos/transport_feedback_adapter.cc:139`: a failed send that a report on a later
  packet has passed already is subtracted from the bytes in flight a second time;
  and since the map keeps the older entry for an RTP number that is used again
  within the history window (after 65536 packets), taking back or reporting the
  newer packet would meet the older one. The run starts in a steady state in which
  a packet of the last round may still be in the history, so the second case
  happens in it. Packets that
  the receiver does not show to its trackers (RTX, obsolete frames) are reported
  lost (`qos/congestion_control_feedback_tracker.cc:126`).
- `Refused` (Probing), `qos/probe_controller.cc:560`: probing that is refused in a
  limited state when the network comes is not tried again; a recovery probe on
  a relay may use the rate the direct path had.
- `WaitsForClock` (PacedSender): with a probe held back the processing loop can
  spin for up to a millisecond until what it sees as due is due.

Seen while modelling, and not a matter for a property: the waits of AsyncReConnect
are 0, 2, 4, ... 60 s where its comment (`ws/ws_client.cpp:314`) has 0, 1, 2, 4;
`1 << attempts` (line 488) is taken before the cap and overflows after 31 TLS
failures in a row; `RetryWithTurn`, the timed `Process` of the feedback generator,
allocation probes, network state estimates and the congestion window have no
caller; OnDtlsHandshakeDone ignores the result of ExportSrtpKeys
(`transport/ice_transport_controller.cpp:1938`) and would copy keys from empty vectors
(it fails only without a negotiated SRTP profile or inside OpenSSL);
NegotiateVideoPayloadType looks at the first remote payload type only; a
process interval probes from the estimate before its own update
(`qos/congestion_control.cpp:195`).

## 7. Not modelled

- *Within the modelled parts*: application messages over signalling, TURN
  credentials, stream registration, receiving of frames by the application,
  statistics, candidate gathering; data races on plain pointers and `std::thread`
  objects (`ice_transport_`, `m_endpoint_`, `ping_thread_`), whose outcome is
  undefined and which the hazards list.
- *Planned*: TaskQueue, data channels, adaptation, the order of the priority
  queue; see section 2.
- *Out of reach or not worth a model*: codecs, scaling, FEC, SRTP and byte
  layouts of RTP and RTCP (leaf code without interleaving); the numerical part of
  bandwidth estimation (real-valued filters); TLS trust helpers (file and
  certificate handling); SDP text rewriting; vendored code (`inih`, `rtc_base`,
  `nvcodec`) and external libraries (libnice, websocketpp, OpenSSL,
  libdatachannel, KCP), which appear only as what they may do to the code here.

The map of `PROJECT.json` names about 6500 source lines, a tenth of the 67 thousand
in the repository. The core control logic of the files it touches is mostly covered
(half or more of the pacer, prober, probe and congestion controllers, feedback
adapter, websocket client, peer connection, packet history and lock-free queue).
The rest of the repository is mostly what the last item lists: vendor headers and
codecs alone are 20 thousand lines, support and unit classes another 9, and much of
what remains are byte layouts, numerical filters, descriptors and logging, for which
a model would repeat the code.
