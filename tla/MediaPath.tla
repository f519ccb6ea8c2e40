------------------------------ MODULE MediaPath ------------------------------
(* From a selected ICE pair to media that may flow, on the two peers of one  *)
(* connection: IceAgent with its DTLS handshake, IceTransport, and the       *)
(* controller that tells the pacer and congestion control, down to teardown. *)
(*                                                                           *)
(* On each peer libnice's thread runs the state and receive callbacks, two   *)
(* task queues apply what the controller posts, and the ICE worker tears     *)
(* down.  A handshake is four flights, 1 and 3 of the client (the offerer),  *)
(* 2 and 4 of the server.  Nothing here calls DTLSv1_handle_timeout: SSL     *)
(* only goes on when a record arrives, so a lost flight is never repeated.   *)
EXTENDS Integers, Sequences, FiniteSets

CONSTANTS
    MaxLost,       \* bound: records lost
    MaxFaults      \* bound: rechecks and failures of either path

ASSUME BoundsAssumption == MaxLost \in Nat /\ MaxFaults \in Nat

Peers == {"o", "a"}
Other(p) == IF p = "o" THEN "a" ELSE "o"

VARIABLES
    want,        \* want[p]: p is configured to use SRTP
    trusted,     \* the certificates have the fingerprints of the descriptions
    ice,         \* ice[p]: libnice's component state
    nice,        \* nice[p]: where the thread of libnice is
    net,         \* net[p]: flights under way to p
    hs,          \* hs[p]: last flight p has sent or taken, -1 before StartDtls
    usable,      \* IceComponentStateTracker
    ctl,         \* ctl[p]: flags of the controller
    pacer_tasks, cc_tasks,
    transport_ready, network_available,   \* of the pacer and of the controller
    worker,      \* worker[p]: how far teardown is
    lost, early, faults

agents == <<want, trusted, ice, nice, net, hs, usable>>
queues == <<pacer_tasks, cc_tasks, transport_ready, network_available>>
counters == <<lost, early, faults>>
vars == <<agents, ctl, queues, worker, counters>>

\* What the descriptions agree on: an answer has a fingerprint only if the
\* offer has one, and a description without one turns SRTP off.
Answers == want["o"] /\ want["a"]
Srtp(p) == IF p = "o" THEN want["o"] /\ Answers ELSE Answers

IsClosed(p) == worker[p] \notin {"up", "retired"}
-----------------------------------------------------------------------------
(* IceAgent                                                                  *)

\* IceAgent::Send refuses once StopSending was called.
Send(p, flights) ==
    net' = [net EXCEPT ![Other(p)] = IF IsClosed(p) THEN @ ELSE @ \cup flights]

\* OpenSSL can make a context and a session; nothing completes at once, since
\* both ends wait for a record of the other.
StartDtls(p) ==
    IF Srtp(p) /\ hs[p] = -1
    THEN /\ hs' = [hs EXCEPT ![p] = IF p = "o" THEN 1 ELSE 0]
         /\ Send(p, IF p = "o" THEN {1} ELSE {})
    ELSE UNCHANGED <<hs, net>>

\* Component states as libnice goes through them; "checking" stands for
\* gathering, connecting and connected.
Follows(s, t) ==
    \/ s = "checking" /\ t = "ready"
    \/ s # "lost" /\ t = "lost" /\ faults < MaxFaults
    \/ s \in {"ready", "lost"} /\ t = "checking" /\ faults < MaxFaults

OnNiceStateChanged(p, s) ==
    /\ nice[p] = "loop"
    /\ Follows(ice[p], s)
    /\ ice' = [ice EXCEPT ![p] = s]
    /\ faults' = IF s = "ready" THEN faults ELSE faults + 1
    /\ IF s = "ready" THEN StartDtls(p) ELSE UNCHANGED <<hs, net>>
    /\ nice' = [nice EXCEPT ![p] = "state"]
    /\ UNCHANGED <<want, trusted, usable, ctl, queues, worker, lost, early>>

\* A record before StartDtls is dropped; another one than the next is no use to
\* SSL_do_handshake.
OnNiceRecv(p) ==
    /\ nice[p] = "loop"
    /\ \E r \in net[p] :
         LET taken == hs[p] = r - 1
             next == IF r = 4 THEN 4 ELSE r + 1
         IN  /\ net' = [net EXCEPT ![p] = @ \ {r},
                                   ![Other(p)] = IF taken /\ r < 4 /\ ~IsClosed(p)
                                                 THEN @ \cup {next} ELSE @]
             /\ hs' = [hs EXCEPT ![p] = IF taken THEN next ELSE @]
             /\ early' = (early \/ hs[p] = -1)
             /\ nice' = [nice EXCEPT ![p] = IF taken /\ next = 4 /\ trusted
                                            THEN "keys" ELSE @]
    /\ UNCHANGED <<want, trusted, ice, usable, ctl, queues, worker, lost, faults>>

Lose(p) ==
    /\ lost < MaxLost
    /\ lost' = lost + 1
    /\ \E r \in net[p] : net' = [net EXCEPT ![p] = @ \ {r}]
    /\ UNCHANGED <<want, trusted, ice, nice, hs, usable, ctl, queues, worker,
                   early, faults>>
-----------------------------------------------------------------------------
(* IceTransport and IceTransportController                                   *)

\* Mutant: media follows ICE alone.
ReadyWithoutKeys(p, k) == k.ice_ready

Ready(p, k) == k.ice_ready /\ (Srtp(p) => k.dtls_ready)

Post(p, tasks, t) ==
    IF worker[p] \in {"destroying", "gone"} THEN tasks
    ELSE [tasks EXCEPT ![p] = Append(@, t)]

\* Mutant: the flag is read, not exchanged.
UpdateMediaTransportStateLoads(p, k) ==
    LET t == [ready |-> Ready(p, k), was |-> k.media_ready]
    IN  /\ ctl' = [ctl EXCEPT ![p] = k]
        /\ pacer_tasks' = Post(p, pacer_tasks, t)
        /\ cc_tasks' = Post(p, cc_tasks, t)

\* The pacer is told the state, congestion control the changes.
UpdateMediaTransportState(p, k) ==
    LET t == [ready |-> Ready(p, k), was |-> k.media_ready]
    IN  /\ ctl' = [ctl EXCEPT ![p] = [k EXCEPT !.media_ready = t.ready]]
        /\ pacer_tasks' = Post(p, pacer_tasks, t)
        /\ cc_tasks' = Post(p, cc_tasks, t)

UpdateNetworkAvailability(p, available) ==
    UpdateMediaTransportState(p, [ctl[p] EXCEPT !.ice_ready = available,
                                                !.dtls_ready = @ /\ available])

\* IceComponentStateTracker::Update: a path once ready stays usable through
\* rechecks.
Update(p) == ice[p] = "ready" \/ (usable[p] /\ ice[p] # "lost")

\* The rest of the state callback.  Failed and disconnected are terminal: the
\* status callback retires the connection.
OnIceStateChange(p) ==
    /\ nice[p] = "state"
    /\ nice' = [nice EXCEPT ![p] = "loop"]
    /\ IF IsClosed(p) THEN UNCHANGED <<usable, ctl, pacer_tasks, cc_tasks, worker>>
       ELSE /\ usable' = [usable EXCEPT ![p] = Update(p)]
            /\ worker' = [worker EXCEPT ![p] = IF ice[p] = "lost" THEN "retired" ELSE @]
            /\ IF usable'[p] # usable[p] THEN UpdateNetworkAvailability(p, usable'[p])
               ELSE UNCHANGED <<ctl, pacer_tasks, cc_tasks>>
    /\ UNCHANGED <<want, trusted, ice, net, hs, transport_ready, network_available,
                   counters>>

\* Mutant: the keys are there and nobody is told.
OnDtlsHandshakeDoneSilent(p) ==
    /\ nice[p] = "keys"
    /\ nice' = [nice EXCEPT ![p] = "loop"]
    /\ ctl' = [ctl EXCEPT ![p].dtls_ready = TRUE]
    /\ UNCHANGED <<want, trusted, ice, net, hs, usable, queues, worker, counters>>

\* Keys are exported and SRTP sessions made for the streams there are.  The
\* result of ExportSrtpKeys is ignored; that it fails after a handshake that
\* completed is not modelled.
OnDtlsHandshakeDone(p) ==
    /\ nice[p] = "keys"
    /\ nice' = [nice EXCEPT ![p] = "loop"]
    /\ UpdateMediaTransportState(p, [ctl[p] EXCEPT !.dtls_ready = TRUE])
    /\ UNCHANGED <<want, trusted, ice, net, hs, usable, transport_ready,
                   network_available, worker, counters>>

PacerTask(p) ==
    /\ pacer_tasks[p] # <<>>
    /\ pacer_tasks' = [pacer_tasks EXCEPT ![p] = Tail(@)]
    /\ transport_ready' = [transport_ready EXCEPT ![p] = Head(pacer_tasks[p]).ready]
    /\ UNCHANGED <<agents, ctl, cc_tasks, network_available, worker, counters>>

CcTask(p) ==
    LET t == Head(cc_tasks[p])
    IN  /\ cc_tasks[p] # <<>>
        /\ cc_tasks' = [cc_tasks EXCEPT ![p] = Tail(@)]
        /\ network_available' = [network_available EXCEPT ![p] =
                                     IF t.ready # t.was THEN t.ready ELSE @]
        /\ UNCHANGED <<agents, ctl, pacer_tasks, transport_ready, worker, counters>>
-----------------------------------------------------------------------------
(* DestroyIceTransmission, by the worker: after a failure, or because the    *)
(* application leaves                                                        *)

\* is_closed_ and StopSending
Close(p) ==
    /\ ~IsClosed(p)
    /\ worker[p] = "up" => faults < MaxFaults
    /\ faults' = IF worker[p] = "up" THEN faults + 1 ELSE faults
    /\ worker' = [worker EXCEPT ![p] = "closed"]
    /\ UNCHANGED <<agents, ctl, queues, lost, early>>

\* IceTransportController::Destroy: the pacer is shut down, the queues are
\* stopped and the streams taken from their maps.
DestroyController(p) ==
    /\ worker[p] = "closed"
    /\ worker' = [worker EXCEPT ![p] = "destroying"]
    /\ transport_ready' = [transport_ready EXCEPT ![p] = FALSE]
    /\ pacer_tasks' = [pacer_tasks EXCEPT ![p] = <<>>]
    /\ cc_tasks' = [cc_tasks EXCEPT ![p] = <<>>]
    /\ UNCHANGED <<agents, ctl, network_available, counters>>

\* The agent is closed from its own loop, whose thread is joined.
DestroyIceAgent(p) ==
    /\ worker[p] = "destroying" /\ nice[p] = "loop"
    /\ worker' = [worker EXCEPT ![p] = "gone"]
    /\ nice' = [nice EXCEPT ![p] = "gone"]
    /\ hs' = [hs EXCEPT ![p] = -1]
    /\ UNCHANGED <<want, trusted, ice, net, usable, ctl, queues, counters>>
-----------------------------------------------------------------------------
AllFalse == [p \in Peers |-> FALSE]

Init ==
    /\ want \in [Peers -> BOOLEAN] /\ trusted \in BOOLEAN
    /\ ice = [p \in Peers |-> "checking"] /\ nice = [p \in Peers |-> "loop"]
    /\ net = [p \in Peers |-> {}] /\ hs = [p \in Peers |-> -1]
    /\ usable = AllFalse
    /\ ctl = [p \in Peers |-> [ice_ready |-> FALSE, dtls_ready |-> FALSE,
                               media_ready |-> FALSE]]
    /\ pacer_tasks = [p \in Peers |-> <<>>] /\ cc_tasks = [p \in Peers |-> <<>>]
    /\ transport_ready = AllFalse /\ network_available = AllFalse
    /\ worker = [p \in Peers |-> "up"]
    /\ lost = 0 /\ early = FALSE /\ faults = 0

\* The threads of p
Run(p) ==
    \/ OnNiceRecv(p) \/ OnIceStateChange(p) \/ OnDtlsHandshakeDone(p)
    \/ PacerTask(p) \/ CcTask(p)
    \/ (worker[p] # "up" /\ Close(p)) \/ DestroyController(p) \/ DestroyIceAgent(p)

Next ==
    \E p \in Peers :
        \/ Run(p) \/ Lose(p) \/ (worker[p] = "up" /\ Close(p))
        \/ \E s \in {"ready", "checking", "lost"} : OnNiceStateChanged(p, s)

\* Threads and queues go on; libnice need not find a path.
Spec == Init /\ [][Next]_vars /\ \A p \in Peers : WF_vars(Run(p))
-----------------------------------------------------------------------------
(* Properties                                                                *)

\* With SRTP no media leaves before the handshake is done with the certificate
\* that the description announced.  Then the other end has at least sent its
\* last flight, or has gone since: media never runs ahead of the peer by more
\* than one flight, whatever was lost, came early or was torn down.
MediaIsKeyed ==
    \A p \in Peers :
        ctl[p].media_ready /\ Srtp(p) =>
            /\ trusted
            /\ hs[p] = 4 \/ nice[p] = "gone"
            /\ hs[Other(p)] >= 3 \/ nice[Other(p)] = "gone"

Quiet(p) == nice[p] = "loop" /\ ~IsClosed(p)
            /\ pacer_tasks[p] = <<>> /\ cc_tasks[p] = <<>>

\* When the tasks have run the pacer and congestion control have the same
\* view as the controller, though one is told states and the other changes,
\* and it is that of the ICE component: a recheck keeps an established path,
\* a loss ends it.
ControllersAgree ==
    \A p \in Peers : Quiet(p) =>
        /\ transport_ready[p] = ctl[p].media_ready
        /\ network_available[p] = ctl[p].media_ready
        /\ ctl[p].media_ready => ice[p] # "lost"
        /\ ice[p] = "ready" /\ ~Srtp(p) => ctl[p].media_ready

\* When both paths are ready, media can start on both sides, unless a record
\* of the handshake is lost, or comes before the other side has started, the
\* fingerprints do not match, or someone leaves.
MediaStarts ==
    (\A p \in Peers : ice[p] = "ready") ~>
        \/ \A p \in Peers : transport_ready[p] /\ network_available[p]
        \/ lost > 0 \/ early \/ (Srtp("o") /\ ~trusted)
        \/ \E p \in Peers : worker[p] # "up"

\* The streams are not taken from their maps while OnDtlsHandshakeDone, which
\* does not take the locks of the maps, makes sessions for them.
KeysBeforeTeardown ==
    \A p \in Peers : ~(nice[p] = "keys" /\ worker[p] = "destroying")
=============================================================================
