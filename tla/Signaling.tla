------------------------------ MODULE Signaling ------------------------------
(***************************************************************************)
(* PeerConnection's session with the signalling server: status, login, and *)
(* the join that waits for it (src/src/pc/peer_connection.cpp).            *)
(*                                                                         *)
(* Three threads take part: the application, the I/O thread of the current *)
(* signalling connection, and the reconnect thread of WsClient, which      *)
(* reports WsReconnecting, closes the connection, joins the I/O thread and *)
(* then reports WsOpening.  A lost connection is replaced here; when       *)
(* WsClient may fail to do that is the business of module WsClient.        *)
(*                                                                         *)
(* WsClient never reports WsFailed, WsClosed or WsServerClosed, so their    *)
(* branches of on_ws_status_ have no action.                               *)
(***************************************************************************)
EXTENDS Naturals

CONSTANTS
    MaxConns,   \* bound: signalling connections
    MaxJoins,   \* bound: calls of Join
    MaxLeaves   \* bound: calls of Leave

ASSUME BoundsAssumption ==
    MaxConns \in Nat \ {0} /\ MaxJoins \in Nat /\ MaxLeaves \in Nat

Conns == 1..MaxConns
Joins == 1..MaxJoins
NoJoin == 0

VARIABLES
    conn,      \* the signalling connection, counted
    link,      \* its state as Send sees it
    reply,     \* the server's answer to the login on it
    wsStatus,  \* ws_status_
    signal,    \* signal_status_
    reported,  \* the status the application was last told
    pending,   \* pending_join_transmission_id_, as the Join that set it
    io,        \* the I/O thread's place in its handler
    rc,        \* the reconnect thread's
    app,       \* "ready", or how far Destroy is
    calls,     \* calls of Join so far
    leaves,    \* calls of Leave so far
    fate,      \* what became of each Join
    member,    \* whether the server has the peer in a transmission
    wanted     \* whether the application wants it to

status == <<wsStatus, signal, reported>>
server == <<reply, member>>
threads == <<io, rc, app>>
requests == <<pending, calls, leaves, fate, wanted>>
vars == <<conn, link, server, status, threads, requests>>

\* As Init's call of Connect leaves it.
Init ==
    /\ conn = 1 /\ link = "dialing" /\ reply = "none"
    /\ wsStatus = "Opening" /\ signal = "Connecting" /\ reported = "Connecting"
    /\ pending = NoJoin
    /\ io = "idle" /\ rc = "idle" /\ app = "ready"
    /\ calls = 0 /\ leaves = 0
    /\ fate = [j \in Joins |-> "none"]
    /\ member = FALSE /\ wanted = FALSE

-----------------------------------------------------------------------------
(* The application *)

\* Send drops the message unless the connection is open.
SendJoin(j) ==
    /\ fate' = [fate EXCEPT ![j] = IF link = "open" THEN "sent" ELSE "lost"]
    /\ member' = (member \/ link = "open")

\* Join sends at once, or queues in place of an earlier one, or refuses.
AppJoin ==
    LET j == calls + 1 IN
    /\ app = "ready"
    /\ calls < MaxJoins
    /\ calls' = j
    /\ \/ /\ signal = "Connected"
          /\ SendJoin(j)
          /\ wanted' = TRUE
          /\ UNCHANGED pending
       \/ /\ signal \in {"Connecting", "Reconnecting"}
          /\ pending' = j
          /\ fate' = [k \in Joins |-> IF k = j THEN "queued"
                                      ELSE IF k = pending THEN "replaced"
                                      ELSE fate[k]]
          /\ wanted' = TRUE
          /\ UNCHANGED member
       \/ /\ signal \notin {"Connected", "Connecting", "Reconnecting"}
          /\ fate' = [fate EXCEPT ![j] = "refused"]
          /\ UNCHANGED <<pending, member, wanted>>
    /\ UNCHANGED <<conn, link, reply, status, threads, leaves>>

Cancel ==
    /\ pending' = NoJoin
    /\ fate' = [j \in Joins |-> IF j = pending THEN "cancelled" ELSE fate[j]]

\* Leave cancels a queued join, or tells the server, or fails.
AppLeave ==
    /\ app = "ready"
    /\ leaves < MaxLeaves
    /\ leaves' = leaves + 1
    /\ \/ /\ pending # NoJoin
          /\ Cancel
          /\ wanted' = FALSE
          /\ UNCHANGED member
       \/ /\ pending = NoJoin
          /\ signal = "Connected"
          /\ member' = (member /\ link # "open")
          /\ wanted' = FALSE
          /\ UNCHANGED <<pending, fate>>
       \/ /\ pending = NoJoin
          /\ signal # "Connected"
          /\ UNCHANGED <<pending, fate, member, wanted>>
    /\ UNCHANGED <<conn, link, reply, status, threads, calls>>

AppDestroy ==
    /\ app = "ready"
    /\ Cancel
    /\ app' = "destroying"
    /\ UNCHANGED <<conn, link, server, status, io, rc, calls, leaves, wanted>>

\* Close begins: from here on WsClient reports no status.
AppClose ==
    /\ app = "destroying"
    /\ app' = "closing"
    /\ UNCHANGED <<conn, link, server, status, io, rc, requests>>

\* Close has joined WsClient's threads.
AppClosed ==
    /\ app = "closing"
    /\ io = "idle" /\ rc = "idle"
    /\ app' = "closed"
    /\ link' = "closed"
    /\ member' = FALSE
    /\ UNCHANGED <<conn, reply, status, io, rc, requests>>

-----------------------------------------------------------------------------
(* The I/O thread: status callbacks and signalling messages *)

\* SetStatus calls back unless Shutdown has begun.
Reports == app \notin {"closing", "closed"}

IoOpened ==
    /\ io = "idle"
    /\ link = "dialing"
    /\ link' = "open"
    /\ IF Reports THEN wsStatus' = "Opened" /\ io' = "login"
       ELSE UNCHANGED <<wsStatus, io>>
    /\ UNCHANGED <<conn, server, signal, reported, rc, app, requests>>

\* Login looks at ws_status_ again, which the reconnect thread may have changed.
IoLogin ==
    /\ io = "login"
    /\ reply' = IF wsStatus = "Opened" /\ link = "open" THEN "due" ELSE reply
    /\ io' = "idle"
    /\ UNCHANGED <<conn, link, member, status, rc, app, requests>>

\* A login answer is handled by the I/O thread of the connection it came on.
IoLoginSucceeds ==
    /\ io = "idle" /\ link = "open" /\ reply = "due"
    /\ reply' = "success"
    /\ io' = "success"
    /\ UNCHANGED <<conn, link, member, status, rc, app, requests>>

\* Mutant: the queued join is sent and stays queued.
IoLoggedInKeepsPending ==
    /\ io = "success"
    /\ signal' = "Connected"
    /\ io' = "connected"
    /\ UNCHANGED pending
    /\ IF pending # NoJoin THEN SendJoin(pending) ELSE UNCHANGED <<fate, member>>
    /\ UNCHANGED <<conn, link, reply, wsStatus, reported, rc, app, calls, leaves,
                   wanted>>

\* Mutant: the login does not look for a queued join.
IoLoggedInForgets ==
    /\ io = "success"
    /\ signal' = "Connected"
    /\ io' = "connected"
    /\ UNCHANGED <<conn, link, server, wsStatus, reported, rc, app, requests>>

\* The status changes and the queued join is sent under one lock.
IoLoggedIn ==
    /\ io = "success"
    /\ signal' = "Connected"
    /\ io' = "connected"
    /\ pending' = NoJoin
    /\ IF pending # NoJoin THEN SendJoin(pending) ELSE UNCHANGED <<fate, member>>
    /\ UNCHANGED <<conn, link, reply, wsStatus, reported, rc, app, calls, leaves,
                   wanted>>

IoLoginFails ==
    /\ io = "idle" /\ link = "open" /\ reply = "due"
    /\ reply' = "fail"
    /\ signal' = "Failed"
    /\ Cancel
    /\ io' = "failed"
    /\ UNCHANGED <<conn, link, member, wsStatus, reported, rc, app, calls, leaves,
                   wanted>>

IoReport ==
    /\ io \in {"connected", "failed", "cert"}
    /\ reported' = CASE io = "connected" -> "Connected"
                     [] io = "failed" -> "Failed"
                     [] OTHER -> "TlsCertError"
    /\ io' = "idle"
    /\ UNCHANGED <<conn, link, server, wsStatus, signal, rc, app, requests>>

\* The certificate is not trusted: ws_status_, then signal_status_ ...
IoCertError ==
    /\ io = "idle" /\ link = "dialing"
    /\ link' = "untrusted"
    /\ IF Reports THEN wsStatus' = "TlsCertError" /\ io' = "untrusted"
       ELSE UNCHANGED <<wsStatus, io>>
    /\ UNCHANGED <<conn, server, signal, reported, rc, app, requests>>

IoCertStatus ==
    /\ io = "untrusted"
    /\ signal' = "TlsCertError"
    /\ io' = "cert"
    /\ UNCHANGED <<conn, link, server, wsStatus, reported, rc, app, requests>>

\* The connection is refused or drops.  A TLS error is retried only if its
\* status has been overwritten (module WsClient).
IoLost ==
    /\ io = "idle" /\ link \in {"dialing", "untrusted", "open"}
    /\ conn < MaxConns
    /\ link' = "lost"
    /\ member' = FALSE
    /\ UNCHANGED <<conn, reply, status, threads, requests>>

-----------------------------------------------------------------------------
(* The reconnect thread *)

\* After a loss, or after missed pongs on a connection that is still open.
RcReconnecting ==
    /\ rc = "idle"
    /\ link \in {"lost", "open"}
    /\ conn < MaxConns
    /\ Reports
    /\ wsStatus' = "Reconnecting"
    /\ rc' = "reconnecting"
    /\ UNCHANGED <<conn, link, server, signal, reported, io, app, requests>>

RcSetSignalStatus ==
    /\ rc \in {"reconnecting", "opening"}
    /\ \/ rc = "reconnecting" /\ signal' = "Reconnecting" /\ rc' = "tell"
       \/ rc = "opening" /\ signal' = "Connecting" /\ rc' = "telldial"
    /\ UNCHANGED <<conn, link, server, wsStatus, reported, io, app, requests>>

RcReport ==
    /\ rc = "tell"
    /\ reported' = "Reconnecting"
    /\ rc' = "close"
    /\ UNCHANGED <<conn, link, server, wsStatus, signal, io, app, requests>>

\* The close keeps further messages out.
RcClose ==
    /\ rc = "close"
    /\ link' = "closing"
    /\ member' = FALSE
    /\ rc' = "join"
    /\ UNCHANGED <<conn, reply, status, io, app, requests>>

\* Mutant: the new connection is opened while the old handler still runs.
RcJoinDetached ==
    /\ rc = "join"
    /\ IF ~Reports THEN rc' = "idle" /\ UNCHANGED <<conn, reply, wsStatus>>
       ELSE /\ rc' = "opening"
            /\ conn' = conn + 1
            /\ reply' = "none"
            /\ wsStatus' = "Opening"
    /\ UNCHANGED <<link, member, signal, reported, io, app, requests>>

\* StopThreads has joined the I/O thread.  Connect, unless Shutdown has begun.
RcJoin ==
    /\ rc = "join"
    /\ io = "idle"
    /\ IF ~Reports THEN rc' = "idle" /\ UNCHANGED <<conn, reply, wsStatus>>
       ELSE /\ rc' = "opening"
            /\ conn' = conn + 1
            /\ reply' = "none"
            /\ wsStatus' = "Opening"
    /\ UNCHANGED <<link, member, signal, reported, io, app, requests>>

RcDial ==
    /\ rc = "telldial"
    /\ reported' = "Connecting"
    /\ link' = "dialing"
    /\ rc' = "idle"
    /\ UNCHANGED <<conn, server, wsStatus, signal, io, app, requests>>

-----------------------------------------------------------------------------

AppStep == AppClose \/ AppClosed
IoStep == IoLogin \/ IoLoggedIn \/ IoReport \/ IoCertStatus
RcStep ==
    RcSetSignalStatus \/ RcReport \/ RcClose \/ RcJoin \/ RcDial
        \/ (link = "lost" /\ RcReconnecting)
Answer == IoLoginSucceeds \/ IoLoginFails

Next ==
    \/ AppJoin \/ AppLeave \/ AppDestroy \/ AppStep
    \/ IoStep \/ IoOpened \/ Answer \/ IoCertError \/ IoLost
    \/ RcStep \/ (link = "open" /\ RcReconnecting)

Spec == Init /\ [][Next]_vars

\* The threads go on; a connection that is not refused opens and a login that is
\* not lost is answered.  Nothing makes the application call or a link fail.
Fairness ==
    WF_vars(AppStep) /\ WF_vars(IoStep) /\ WF_vars(RcStep) /\ WF_vars(IoOpened)
        /\ WF_vars(Answer)

FairSpec == Spec /\ Fairness

-----------------------------------------------------------------------------
(* Properties *)

Fates ==
    {"none", "queued", "sent", "lost", "replaced", "cancelled", "refused"}

TypeOK ==
    /\ conn \in Conns
    /\ link \in {"dialing", "open", "untrusted", "lost", "closing", "closed"}
    /\ reply \in {"none", "due", "success", "fail"}
    /\ wsStatus \in {"Opening", "Opened", "Reconnecting", "TlsCertError"}
    /\ signal \in {"Connecting", "Connected", "Failed", "Reconnecting",
                   "TlsCertError"}
    /\ reported \in {"Connecting", "Connected", "Failed", "Reconnecting",
                     "TlsCertError"}
    /\ pending \in Joins \cup {NoJoin}
    /\ io \in {"idle", "login", "success", "connected", "failed", "untrusted",
               "cert"}
    /\ rc \in {"idle", "reconnecting", "tell", "close", "join", "opening",
               "telldial"}
    /\ app \in {"ready", "destroying", "closing", "closed"}
    /\ calls \in 0..MaxJoins /\ leaves \in 0..MaxLeaves
    /\ fate \in [Joins -> Fates]
    /\ member \in BOOLEAN /\ wanted \in BOOLEAN

\* The server has the peer in a transmission only over a connection on which it
\* has accepted the peer's login.
MemberOnlyAfterLogin == member => reply = "success" /\ link = "open"

\* A peer whose last successful call was Leave is in no transmission, whatever
\* join was queued, sent or lost before; while the connection is being replaced
\* the server may not know yet.
LeftIsNotMember == ~wanted /\ rc = "idle" => ~member

\* The one pending join is the last that was queued, and a join that has been
\* replaced, cancelled, refused or sent is not pending.
PendingIsTheQueuedOne ==
    \A j \in Joins : fate[j] = "queued" <=> j = pending

\* A join goes only one way: once sent, lost, cancelled, replaced or refused it
\* is never sent again.
FateIsFinal ==
    [][\A j \in Joins : fate[j] \in {"none", "queued"} \/ fate'[j] = fate[j]]_vars

\* When no thread is in a callback the application's last news is the status,
\* although the I/O and the reconnect thread report without a common lock.
ReportedIsCurrent ==
    io = "idle" /\ rc = "idle" /\ Reports => reported = signal

\* Connected means a login that was accepted on the connection of the moment,
\* except while that connection is being replaced.
ConnectedIsLoggedIn == signal = "Connected" /\ rc = "idle" => reply = "success"

\* What the peer wants, what it has queued and what the server has done agree,
\* across logins, losses, leaves and reconnects.
SessionIsSound ==
    /\ TypeOK
    /\ MemberOnlyAfterLogin
    /\ LeftIsNotMember
    /\ PendingIsTheQueuedOne
    /\ ConnectedIsLoggedIn

\* A queued join does not wait for ever: it is sent or given up, unless the
\* certificate of the server is refused.
QueuedJoinIsSettled ==
    \A j \in Joins : fate[j] = "queued" ~> (fate[j] # "queued" \/ link = "untrusted")

\* A Join that returns 0 has been sent or queued.
AcceptedIsSentOrQueued == \A j \in Joins : fate[j] # "lost"

=============================================================================
