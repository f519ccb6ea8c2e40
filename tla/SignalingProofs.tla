--------------------------- MODULE SignalingProofs ---------------------------
(***************************************************************************)
(* Signaling keeps the server's membership in line with the application's  *)
(* calls, for any number of connections, joins and leaves; and the two     *)
(* peers of IceNegotiation agree on one exchange, for any candidates, any  *)
(* limit of the queues of early ones and any number of joins.              *)
(*                                                                         *)
(* Signaling.  The statuses of the three threads are tied together by the  *)
(* link and the server's answer: a new connection starts with no answer,   *)
(* and until it does no handler of the old one is left that could set      *)
(* SignalConnected.                                                        *)
(*                                                                         *)
(* IceNegotiation.  The worker's queue and the net are one way to a peer.  *)
(* On it a candidate never precedes the description of its generation, and *)
(* of a description that is still to come nothing was seen; so replaying   *)
(* an early queue changes nothing, and a marker finds every candidate      *)
(* before it.  As long as no exchange overlaps another the two ways hold   *)
(* at most one of join, offer and answer: an exchange goes through phases. *)
(***************************************************************************)
EXTENDS Signaling, IceNegotiation, TLAPS

\* The reconnect thread before its join has a connection to replace, and past it
\* there is no link and no handler.
Replacing ==
    /\ rc \in {"reconnecting", "tell", "close"} => link \in {"lost", "open"}
    /\ rc \in {"reconnecting", "tell", "close", "join"} => conn < MaxConns
    /\ rc \in {"join", "opening", "telldial"} => link = "closing"
    /\ rc \in {"opening", "telldial"} => io = "idle" /\ reply = "none"

\* A connection has no answer before its login.
NoAnswerYet ==
    /\ link \in {"dialing", "untrusted"} => reply = "none"
    /\ io = "login" => reply = "none"
    /\ io \in {"success", "connected"} => reply = "success"
    /\ io = "untrusted" => link = "untrusted"

\* signal_status_ is stale only from the join of the I/O thread to the next
\* report.
ConnectedAnswered == signal = "Connected" => reply = "success" \/ rc = "opening"

\* Nothing is queued while joins are sent at once.
ConnectedHasNoPending == signal = "Connected" => pending = NoJoin

\* A member whose connection is not being replaced was told so.
MemberSettled == member /\ rc = "idle" => signal = "Connected"

PendingWanted == pending # NoJoin => wanted

UnusedJoins == \A j \in Joins : j > calls => fate[j] = "none"

\* The threads' part of the invariant and the requests' part.
ThreadInv ==
    /\ Replacing
    /\ NoAnswerYet
    /\ ConnectedAnswered

MemberInv ==
    /\ ConnectedHasNoPending
    /\ MemberOnlyAfterLogin
    /\ MemberSettled
    /\ PendingWanted
    /\ LeftIsNotMember

IInv ==
    /\ TypeOK
    /\ ThreadInv
    /\ MemberInv
    /\ PendingIsTheQueuedOne
    /\ UnusedJoins

-----------------------------------------------------------------------------
(* What a step may do, action by action *)

Actions ==
    \/ AppJoin \/ AppLeave \/ AppDestroy \/ AppClose \/ AppClosed
    \/ IoOpened \/ IoLogin \/ IoLoginSucceeds \/ IoLoggedIn \/ IoLoginFails
    \/ IoReport \/ IoCertError \/ IoCertStatus \/ IoLost
    \/ RcReconnecting \/ RcSetSignalStatus \/ RcReport \/ RcClose \/ RcJoin
    \/ RcDial

\* The groups that Next names for fairness are these actions.
LEMMA NextIsActions == Next => Actions
BY DEF Next, Actions, AppStep, IoStep, RcStep, Answer

\* The invariant holds initially.
LEMMA InitInv == Init => IInv
<1> SUFFICES ASSUME Init PROVE IInv
    OBVIOUS
<1>1. TypeOK
  <2>1. member \in BOOLEAN /\ wanted \in BOOLEAN
    BY DEF Init
  <2>2. fate \in [Joins -> Fates]
    BY DEF Init, Fates
  <2> QED BY <2>1, <2>2, BoundsAssumption DEF Init, TypeOK, Conns, Joins, NoJoin
<1>2. ThreadInv
    BY DEF Init, ThreadInv, Replacing, NoAnswerYet, ConnectedAnswered
<1>3. MemberInv
    BY DEF Init, MemberInv, ConnectedHasNoPending, MemberOnlyAfterLogin,
       MemberSettled, PendingWanted,
           LeftIsNotMember
<1>4. PendingIsTheQueuedOne /\ UnusedJoins
    BY DEF Init, PendingIsTheQueuedOne, UnusedJoins, Joins, NoJoin
<1> QED BY <1>1, <1>2, <1>3, <1>4 DEF IInv

\* Types are kept.
LEMMA StepType == TypeOK /\ ThreadInv /\ [Next]_vars => TypeOK'
<1> SUFFICES ASSUME TypeOK /\ ThreadInv, [Next]_vars PROVE TypeOK'
    OBVIOUS
<1>1. CASE AppJoin
  <2>1. (member \in BOOLEAN)'
    BY <1>1, Zenon DEF AppJoin, TypeOK, SendJoin
  <2>2. (wanted \in BOOLEAN)'
    BY <1>1, Zenon DEF AppJoin, TypeOK
  <2>3. (fate \in [Joins -> Fates])'
    BY <1>1, BoundsAssumption DEF AppJoin, SendJoin, TypeOK, Fates, Joins,
       NoJoin
  <2>4. (pending \in Joins \cup {NoJoin} /\ calls \in 0..MaxJoins)'
    BY <1>1, BoundsAssumption DEF AppJoin, TypeOK, Joins
  <2> QED BY <1>1, <2>1, <2>2, <2>3, <2>4, BoundsAssumption DEF AppJoin,
         TypeOK, server, status, threads, requests, Conns, Joins, NoJoin
<1>2. CASE AppLeave
  <2>1. (member \in BOOLEAN)'
    BY <1>2, Zenon DEF AppLeave, TypeOK
  <2>2. (wanted \in BOOLEAN)'
    BY <1>2, Zenon DEF AppLeave, TypeOK
  <2>3. (fate \in [Joins -> Fates])'
    BY <1>2, BoundsAssumption DEF AppLeave, Cancel, TypeOK, Fates, Joins, NoJoin
  <2>4. (pending \in Joins \cup {NoJoin} /\ leaves \in 0..MaxLeaves)'
    BY <1>2, BoundsAssumption DEF AppLeave, Cancel, TypeOK, Joins
  <2> QED BY <1>2, <2>1, <2>2, <2>3, <2>4, BoundsAssumption DEF AppLeave,
         TypeOK, server, status, threads, requests, Conns, Joins, NoJoin
<1>3. CASE AppDestroy
  <2>1. (fate \in [Joins -> Fates])'
    BY <1>3, BoundsAssumption DEF AppDestroy, Cancel, TypeOK, Fates, Joins,
       NoJoin
  <2> QED BY <1>3, <2>1, BoundsAssumption DEF AppDestroy, Cancel, TypeOK,
         server, status, threads, requests, Conns, Joins, NoJoin
<1>4. CASE AppClose
    BY <1>4, BoundsAssumption DEF AppClose, TypeOK, server, status, threads,
       requests, Conns, Joins, NoJoin
<1>5. CASE AppClosed
  <2>1. (member \in BOOLEAN)'
    BY <1>5, Zenon DEF AppClosed, TypeOK
  <2> QED BY <1>5, <2>1, BoundsAssumption DEF AppClosed, TypeOK, server,
         status, threads, requests, Conns, Joins, NoJoin
<1>6. CASE IoOpened
    BY <1>6, BoundsAssumption DEF IoOpened, TypeOK, server, status, threads,
       requests, Conns, Joins, NoJoin
<1>7. CASE IoLogin
    BY <1>7, BoundsAssumption DEF IoLogin, TypeOK, server, status, threads,
       requests, Conns, Joins, NoJoin
<1>8. CASE IoLoginSucceeds
    BY <1>8, BoundsAssumption DEF IoLoginSucceeds, TypeOK, server, status,
       threads, requests, Conns, Joins, NoJoin
<1>9. CASE IoLoggedIn
  <2>1. (member \in BOOLEAN)'
    BY <1>9, Zenon DEF IoLoggedIn, TypeOK, SendJoin
  <2>2. (fate \in [Joins -> Fates])'
    BY <1>9, BoundsAssumption DEF IoLoggedIn, SendJoin, TypeOK, Fates, Joins,
       NoJoin
  <2> QED BY <1>9, <2>1, <2>2, BoundsAssumption DEF IoLoggedIn, TypeOK, server,
         status, threads, requests, Conns, Joins, NoJoin
<1>10. CASE IoLoginFails
  <2>1. (fate \in [Joins -> Fates])'
    BY <1>10, BoundsAssumption DEF IoLoginFails, Cancel, TypeOK, Fates, Joins,
       NoJoin
  <2> QED BY <1>10, <2>1, BoundsAssumption DEF IoLoginFails, Cancel, TypeOK,
         server, status, threads, requests, Conns, Joins, NoJoin
<1>11. CASE IoReport
    BY <1>11, BoundsAssumption DEF IoReport, TypeOK, server, status, threads,
       requests, Conns, Joins, NoJoin
<1>12. CASE IoCertError
    BY <1>12, BoundsAssumption DEF IoCertError, TypeOK, server, status,
       threads, requests, Conns, Joins, NoJoin
<1>13. CASE IoCertStatus
    BY <1>13, BoundsAssumption DEF IoCertStatus, TypeOK, server, status,
       threads, requests, Conns, Joins, NoJoin
<1>14. CASE IoLost
  <2>1. (member \in BOOLEAN)'
    BY <1>14, Zenon DEF IoLost, TypeOK
  <2> QED BY <1>14, <2>1, BoundsAssumption DEF IoLost, TypeOK, server, status,
         threads, requests, Conns, Joins, NoJoin
<1>15. CASE RcReconnecting
    BY <1>15, BoundsAssumption DEF RcReconnecting, TypeOK, server, status,
       threads, requests, Conns, Joins, NoJoin
<1>16. CASE RcSetSignalStatus
    BY <1>16, BoundsAssumption DEF RcSetSignalStatus, TypeOK, server, status,
       threads, requests, Conns, Joins, NoJoin
<1>17. CASE RcReport
    BY <1>17, BoundsAssumption DEF RcReport, TypeOK, server, status, threads,
       requests, Conns, Joins, NoJoin
<1>18. CASE RcClose
  <2>1. (member \in BOOLEAN)'
    BY <1>18, Zenon DEF RcClose, TypeOK
  <2> QED BY <1>18, <2>1, BoundsAssumption DEF RcClose, TypeOK, server, status,
         threads, requests, Conns, Joins, NoJoin
<1>19. CASE RcJoin
    BY <1>19, BoundsAssumption DEF RcJoin, ThreadInv, Replacing, TypeOK,
       server, status, threads, requests, Conns, Joins, NoJoin
<1>20. CASE RcDial
    BY <1>20, BoundsAssumption DEF RcDial, TypeOK, server, status, threads,
       requests, Conns, Joins, NoJoin
<1>21. CASE UNCHANGED vars
    BY <1>21 DEF vars, TypeOK, server, status, threads, requests, Conns, Joins,
       NoJoin
<1> QED BY NextIsActions, <1>1, <1>2, <1>3, <1>4, <1>5, <1>6, <1>7, <1>8, <1>9,
       <1>10, <1>11, <1>12, <1>13, <1>14, <1>15, <1>16, <1>17, <1>18, <1>19,
       <1>20, <1>21 DEF Actions

\* The threads stay in step.
LEMMA StepThreads == TypeOK /\ ThreadInv /\ [Next]_vars => ThreadInv'
<1> SUFFICES ASSUME TypeOK /\ ThreadInv, [Next]_vars PROVE ThreadInv'
    OBVIOUS
<1>1. CASE AppJoin
    BY <1>1 DEF AppJoin, SendJoin, ThreadInv, Replacing, NoAnswerYet,
       ConnectedAnswered, TypeOK, server, status, threads, requests
<1>2. CASE AppLeave
    BY <1>2 DEF AppLeave, Cancel, ThreadInv, Replacing, NoAnswerYet,
       ConnectedAnswered, TypeOK, server, status, threads, requests
<1>3. CASE AppDestroy
    BY <1>3 DEF AppDestroy, Cancel, ThreadInv, Replacing, NoAnswerYet,
       ConnectedAnswered, TypeOK, server, status, threads, requests
<1>4. CASE AppClose
    BY <1>4 DEF AppClose, ThreadInv, Replacing, NoAnswerYet, ConnectedAnswered,
       TypeOK, server, status, threads, requests
<1>5. CASE AppClosed
    BY <1>5 DEF AppClosed, ThreadInv, Replacing, NoAnswerYet,
       ConnectedAnswered, TypeOK, server, status, threads, requests
<1>6. CASE IoOpened
    BY <1>6 DEF IoOpened, ThreadInv, Replacing, NoAnswerYet, ConnectedAnswered,
       TypeOK, server, status, threads, requests
<1>7. CASE IoLogin
    BY <1>7 DEF IoLogin, ThreadInv, Replacing, NoAnswerYet, ConnectedAnswered,
       TypeOK, server, status, threads, requests
<1>8. CASE IoLoginSucceeds
    BY <1>8 DEF IoLoginSucceeds, ThreadInv, Replacing, NoAnswerYet,
       ConnectedAnswered, TypeOK, server, status, threads, requests
<1>9. CASE IoLoggedIn
    BY <1>9 DEF IoLoggedIn, SendJoin, ThreadInv, Replacing, NoAnswerYet,
       ConnectedAnswered, TypeOK, server, status, threads, requests
<1>10. CASE IoLoginFails
    BY <1>10 DEF IoLoginFails, Cancel, ThreadInv, Replacing, NoAnswerYet,
       ConnectedAnswered, TypeOK, server, status, threads, requests
<1>11. CASE IoReport
    BY <1>11 DEF IoReport, ThreadInv, Replacing, NoAnswerYet,
       ConnectedAnswered, TypeOK, server, status, threads, requests
<1>12. CASE IoCertError
    BY <1>12 DEF IoCertError, ThreadInv, Replacing, NoAnswerYet,
       ConnectedAnswered, TypeOK, server, status, threads, requests
<1>13. CASE IoCertStatus
    BY <1>13 DEF IoCertStatus, ThreadInv, Replacing, NoAnswerYet,
       ConnectedAnswered, TypeOK, server, status, threads, requests
<1>14. CASE IoLost
    BY <1>14 DEF IoLost, ThreadInv, Replacing, NoAnswerYet, ConnectedAnswered,
       TypeOK, server, status, threads, requests
<1>15. CASE RcReconnecting
    BY <1>15 DEF RcReconnecting, ThreadInv, Replacing, NoAnswerYet,
       ConnectedAnswered, TypeOK, server, status, threads, requests
<1>16. CASE RcSetSignalStatus
    BY <1>16 DEF RcSetSignalStatus, ThreadInv, Replacing, NoAnswerYet,
       ConnectedAnswered, TypeOK, server, status, threads, requests
<1>17. CASE RcReport
    BY <1>17 DEF RcReport, ThreadInv, Replacing, NoAnswerYet,
       ConnectedAnswered, TypeOK, server, status, threads, requests
<1>18. CASE RcClose
    BY <1>18 DEF RcClose, ThreadInv, Replacing, NoAnswerYet, ConnectedAnswered,
       TypeOK, server, status, threads, requests
<1>19. CASE RcJoin
    BY <1>19 DEF RcJoin, ThreadInv, Replacing, NoAnswerYet, ConnectedAnswered,
       TypeOK, server, status, threads, requests
<1>20. CASE RcDial
    BY <1>20 DEF RcDial, ThreadInv, Replacing, NoAnswerYet, ConnectedAnswered,
       TypeOK, server, status, threads, requests
<1>21. CASE UNCHANGED vars
    BY <1>21 DEF vars, ThreadInv, Replacing, NoAnswerYet, ConnectedAnswered,
       TypeOK, server, status, threads, requests
<1> QED BY NextIsActions, <1>1, <1>2, <1>3, <1>4, <1>5, <1>6, <1>7, <1>8, <1>9,
       <1>10, <1>11, <1>12, <1>13, <1>14, <1>15, <1>16, <1>17, <1>18, <1>19,
       <1>20, <1>21 DEF Actions

\* The server's membership stays in line with the calls.
LEMMA StepMember == TypeOK /\ ThreadInv /\ MemberInv /\ [Next]_vars => MemberInv'
<1> SUFFICES ASSUME TypeOK /\ ThreadInv /\ MemberInv, [Next]_vars PROVE MemberInv'
    OBVIOUS
<1>1. CASE AppJoin
  <2>1. CASE signal = "Connected"
    BY <1>1, <2>1 DEF AppJoin, SendJoin, MemberInv, ConnectedHasNoPending,
       MemberOnlyAfterLogin, MemberSettled, PendingWanted, LeftIsNotMember,
       ThreadInv, Replacing, NoAnswerYet, ConnectedAnswered, TypeOK, server,
       status, threads, requests, NoJoin
  <2>2. CASE signal \in {"Connecting", "Reconnecting"}
    BY <1>1, <2>2 DEF AppJoin, SendJoin, MemberInv, ConnectedHasNoPending,
       MemberOnlyAfterLogin, MemberSettled, PendingWanted, LeftIsNotMember,
       ThreadInv, Replacing, NoAnswerYet, ConnectedAnswered, TypeOK, server,
       status, threads, requests, NoJoin
  <2>3. CASE signal \notin {"Connected", "Connecting", "Reconnecting"}
    BY <1>1, <2>3 DEF AppJoin, SendJoin, MemberInv, ConnectedHasNoPending,
       MemberOnlyAfterLogin, MemberSettled, PendingWanted, LeftIsNotMember,
       ThreadInv, Replacing, NoAnswerYet, ConnectedAnswered, TypeOK, server,
       status, threads, requests, NoJoin
  <2> QED BY <1>1, <2>1, <2>2, <2>3 DEF AppJoin
<1>2. CASE AppLeave
  <2>1. CASE pending # NoJoin
    <3>1. ~(member /\ rc = "idle")
      BY <2>1 DEF MemberInv, MemberSettled, ConnectedHasNoPending
    <3>2. pending' = NoJoin /\ UNCHANGED <<member, rc, signal, reply, link>>
      BY <1>2, <2>1 DEF AppLeave, Cancel, server, status, threads
    <3> QED BY <3>1, <3>2 DEF MemberInv, ConnectedHasNoPending, MemberSettled,
          MemberOnlyAfterLogin, PendingWanted, LeftIsNotMember
  <2>2. CASE pending = NoJoin /\ signal = "Connected"
    BY <1>2, <2>2 DEF AppLeave, Cancel, MemberInv, ConnectedHasNoPending,
       MemberOnlyAfterLogin, MemberSettled, PendingWanted, LeftIsNotMember,
       ThreadInv, Replacing, NoAnswerYet, ConnectedAnswered, TypeOK, server,
       status, threads, requests, NoJoin
  <2>3. CASE pending = NoJoin /\ signal # "Connected"
    BY <1>2, <2>3 DEF AppLeave, Cancel, MemberInv, ConnectedHasNoPending,
       MemberOnlyAfterLogin, MemberSettled, PendingWanted, LeftIsNotMember,
       ThreadInv, Replacing, NoAnswerYet, ConnectedAnswered, TypeOK, server,
       status, threads, requests, NoJoin
  <2> QED BY <1>2, <2>1, <2>2, <2>3 DEF AppLeave
<1>3. CASE AppDestroy
    BY <1>3 DEF AppDestroy, Cancel, MemberInv, ConnectedHasNoPending,
       MemberOnlyAfterLogin, MemberSettled, PendingWanted, LeftIsNotMember,
       ThreadInv, Replacing, NoAnswerYet, ConnectedAnswered, TypeOK, server,
       status, threads, requests, NoJoin
<1>4. CASE AppClose
    BY <1>4 DEF AppClose, MemberInv, ConnectedHasNoPending,
       MemberOnlyAfterLogin, MemberSettled, PendingWanted, LeftIsNotMember,
       ThreadInv, Replacing, NoAnswerYet, ConnectedAnswered, TypeOK, server,
       status, threads, requests, NoJoin
<1>5. CASE AppClosed
    BY <1>5 DEF AppClosed, MemberInv, ConnectedHasNoPending,
       MemberOnlyAfterLogin, MemberSettled, PendingWanted, LeftIsNotMember,
       ThreadInv, Replacing, NoAnswerYet, ConnectedAnswered, TypeOK, server,
       status, threads, requests, NoJoin
<1>6. CASE IoOpened
    BY <1>6 DEF IoOpened, MemberInv, ConnectedHasNoPending,
       MemberOnlyAfterLogin, MemberSettled, PendingWanted, LeftIsNotMember,
       ThreadInv, Replacing, NoAnswerYet, ConnectedAnswered, TypeOK, server,
       status, threads, requests, NoJoin
<1>7. CASE IoLogin
    BY <1>7 DEF IoLogin, MemberInv, ConnectedHasNoPending,
       MemberOnlyAfterLogin, MemberSettled, PendingWanted, LeftIsNotMember,
       ThreadInv, Replacing, NoAnswerYet, ConnectedAnswered, TypeOK, server,
       status, threads, requests, NoJoin
<1>8. CASE IoLoginSucceeds
    BY <1>8 DEF IoLoginSucceeds, MemberInv, ConnectedHasNoPending,
       MemberOnlyAfterLogin, MemberSettled, PendingWanted, LeftIsNotMember,
       ThreadInv, Replacing, NoAnswerYet, ConnectedAnswered, TypeOK, server,
       status, threads, requests, NoJoin
<1>9. CASE IoLoggedIn
    BY <1>9 DEF IoLoggedIn, SendJoin, MemberInv, ConnectedHasNoPending,
       MemberOnlyAfterLogin, MemberSettled, PendingWanted, LeftIsNotMember,
       ThreadInv, Replacing, NoAnswerYet, ConnectedAnswered, TypeOK, server,
       status, threads, requests, NoJoin
<1>10. CASE IoLoginFails
    BY <1>10 DEF IoLoginFails, Cancel, MemberInv, ConnectedHasNoPending,
       MemberOnlyAfterLogin, MemberSettled, PendingWanted, LeftIsNotMember,
       ThreadInv, Replacing, NoAnswerYet, ConnectedAnswered, TypeOK, server,
       status, threads, requests, NoJoin
<1>11. CASE IoReport
    BY <1>11 DEF IoReport, MemberInv, ConnectedHasNoPending,
       MemberOnlyAfterLogin, MemberSettled, PendingWanted, LeftIsNotMember,
       ThreadInv, Replacing, NoAnswerYet, ConnectedAnswered, TypeOK, server,
       status, threads, requests, NoJoin
<1>12. CASE IoCertError
    BY <1>12 DEF IoCertError, MemberInv, ConnectedHasNoPending,
       MemberOnlyAfterLogin, MemberSettled, PendingWanted, LeftIsNotMember,
       ThreadInv, Replacing, NoAnswerYet, ConnectedAnswered, TypeOK, server,
       status, threads, requests, NoJoin
<1>13. CASE IoCertStatus
    BY <1>13 DEF IoCertStatus, MemberInv, ConnectedHasNoPending,
       MemberOnlyAfterLogin, MemberSettled, PendingWanted, LeftIsNotMember,
       ThreadInv, Replacing, NoAnswerYet, ConnectedAnswered, TypeOK, server,
       status, threads, requests, NoJoin
<1>14. CASE IoLost
    BY <1>14 DEF IoLost, MemberInv, ConnectedHasNoPending,
       MemberOnlyAfterLogin, MemberSettled, PendingWanted, LeftIsNotMember,
       ThreadInv, Replacing, NoAnswerYet, ConnectedAnswered, TypeOK, server,
       status, threads, requests, NoJoin
<1>15. CASE RcReconnecting
    BY <1>15 DEF RcReconnecting, MemberInv, ConnectedHasNoPending,
       MemberOnlyAfterLogin, MemberSettled, PendingWanted, LeftIsNotMember,
       ThreadInv, Replacing, NoAnswerYet, ConnectedAnswered, TypeOK, server,
       status, threads, requests, NoJoin
<1>16. CASE RcSetSignalStatus
    BY <1>16 DEF RcSetSignalStatus, MemberInv, ConnectedHasNoPending,
       MemberOnlyAfterLogin, MemberSettled, PendingWanted, LeftIsNotMember,
       ThreadInv, Replacing, NoAnswerYet, ConnectedAnswered, TypeOK, server,
       status, threads, requests, NoJoin
<1>17. CASE RcReport
    BY <1>17 DEF RcReport, MemberInv, ConnectedHasNoPending,
       MemberOnlyAfterLogin, MemberSettled, PendingWanted, LeftIsNotMember,
       ThreadInv, Replacing, NoAnswerYet, ConnectedAnswered, TypeOK, server,
       status, threads, requests, NoJoin
<1>18. CASE RcClose
    BY <1>18 DEF RcClose, MemberInv, ConnectedHasNoPending,
       MemberOnlyAfterLogin, MemberSettled, PendingWanted, LeftIsNotMember,
       ThreadInv, Replacing, NoAnswerYet, ConnectedAnswered, TypeOK, server,
       status, threads, requests, NoJoin
<1>19. CASE RcJoin
    BY <1>19 DEF RcJoin, MemberInv, ConnectedHasNoPending,
       MemberOnlyAfterLogin, MemberSettled, PendingWanted, LeftIsNotMember,
       ThreadInv, Replacing, NoAnswerYet, ConnectedAnswered, TypeOK, server,
       status, threads, requests, NoJoin
<1>20. CASE RcDial
    BY <1>20 DEF RcDial, MemberInv, ConnectedHasNoPending,
       MemberOnlyAfterLogin, MemberSettled, PendingWanted, LeftIsNotMember,
       ThreadInv, Replacing, NoAnswerYet, ConnectedAnswered, TypeOK, server,
       status, threads, requests, NoJoin
<1>21. CASE UNCHANGED vars
    BY <1>21 DEF vars, MemberInv, ConnectedHasNoPending, MemberOnlyAfterLogin,
       MemberSettled, PendingWanted, LeftIsNotMember, ThreadInv, Replacing,
       NoAnswerYet, ConnectedAnswered, TypeOK, server, status, threads,
       requests, NoJoin
<1> QED BY NextIsActions, <1>1, <1>2, <1>3, <1>4, <1>5, <1>6, <1>7, <1>8, <1>9,
       <1>10, <1>11, <1>12, <1>13, <1>14, <1>15, <1>16, <1>17, <1>18, <1>19,
       <1>20, <1>21 DEF Actions

\* Exactly the queued join is pending.
LEMMA StepRequests == TypeOK /\ PendingIsTheQueuedOne /\ UnusedJoins /\ [Next]_vars => (PendingIsTheQueuedOne /\ UnusedJoins)'
<1> SUFFICES ASSUME TypeOK /\ PendingIsTheQueuedOne /\ UnusedJoins, [Next]_vars PROVE (PendingIsTheQueuedOne /\ UnusedJoins)'
    OBVIOUS
<1>a. \A k \in Joins : /\ fate[k] = "queued" <=> k = pending
                       /\ k > calls => fate[k] = "none"
    BY DEF PendingIsTheQueuedOne, UnusedJoins
<1> SUFFICES ASSUME NEW k \in Joins
             PROVE /\ fate'[k] = "queued" <=> k = pending'
                   /\ k > calls' => fate'[k] = "none"
    BY DEF PendingIsTheQueuedOne, UnusedJoins
<1> USE <1>a
<1>1. CASE AppJoin
  <2> DEFINE j == calls + 1
  <2>0. j \in Joins /\ calls' = j /\ calls \in Nat /\ k \in Nat
    BY <1>1, BoundsAssumption DEF AppJoin, TypeOK, Joins
  <2>1. j \in Joins /\ calls' = j /\ j # pending /\ calls \in Nat /\ k \in Nat
    BY <2>0
  <2>2. CASE signal = "Connected"
    <3>1. /\ pending' = pending
          /\ \E x \in {"sent", "lost"} : fate' = [fate EXCEPT ![j] = x]
      BY <1>1, <2>2 DEF AppJoin, SendJoin
    <3> HIDE DEF j
    <3> QED BY <2>1, <3>1 DEF TypeOK, j
  <2>3. CASE signal \in {"Connecting", "Reconnecting"}
    <3>1. /\ pending' = j
          /\ fate'[k] = IF k = j THEN "queued"
                        ELSE IF k = pending THEN "replaced" ELSE fate[k]
      BY <1>1, <2>3 DEF AppJoin
    <3> QED BY <2>1, <3>1 DEF TypeOK
  <2>4. CASE signal \notin {"Connected", "Connecting", "Reconnecting"}
    <3>1. pending' = pending /\ fate' = [fate EXCEPT ![j] = "refused"]
      BY <1>1, <2>4 DEF AppJoin
    <3> QED BY <2>1, <3>1 DEF TypeOK
  <2> QED BY <2>2, <2>3, <2>4
<1>2. CASE AppLeave
  <2>1. CASE pending # NoJoin
    <3>1. /\ pending' = NoJoin /\ calls' = calls
          /\ fate'[k] = IF k = pending THEN "cancelled" ELSE fate[k]
      BY <1>2, <2>1 DEF AppLeave, Cancel
    <3> QED BY <2>1, <3>1 DEF TypeOK, Joins, NoJoin
  <2>2. CASE pending = NoJoin /\ signal = "Connected"
    BY <1>2, <2>2 DEF AppLeave, Cancel, TypeOK, Joins, NoJoin, server, status,
       threads, requests
  <2>3. CASE pending = NoJoin /\ signal # "Connected"
    BY <1>2, <2>3 DEF AppLeave, Cancel, TypeOK, Joins, NoJoin, server, status,
       threads, requests
  <2> QED BY <1>2, <2>1, <2>2, <2>3 DEF AppLeave
<1>3. CASE AppDestroy
    BY <1>3 DEF AppDestroy, Cancel, TypeOK, Joins, NoJoin, server, status,
       threads, requests
<1>4. CASE AppClose
    BY <1>4 DEF AppClose, TypeOK, Joins, NoJoin, server, status, threads,
       requests
<1>5. CASE AppClosed
    BY <1>5 DEF AppClosed, TypeOK, Joins, NoJoin, server, status, threads,
       requests
<1>6. CASE IoOpened
    BY <1>6 DEF IoOpened, TypeOK, Joins, NoJoin, server, status, threads,
       requests
<1>7. CASE IoLogin
    BY <1>7 DEF IoLogin, TypeOK, Joins, NoJoin, server, status, threads,
       requests
<1>8. CASE IoLoginSucceeds
    BY <1>8 DEF IoLoginSucceeds, TypeOK, Joins, NoJoin, server, status,
       threads, requests
<1>9. CASE IoLoggedIn
  <2>1. CASE pending # NoJoin
    <3>1. /\ pending' = NoJoin /\ calls' = calls
          /\ \E x \in {"sent", "lost"} : fate' = [fate EXCEPT ![pending] = x]
      BY <1>9, <2>1 DEF IoLoggedIn, SendJoin
    <3> QED BY <2>1, <3>1 DEF TypeOK, Joins, NoJoin
  <2>2. CASE pending = NoJoin
    BY <1>9, <2>2 DEF IoLoggedIn, SendJoin, TypeOK, Joins, NoJoin, server,
       status, threads, requests
  <2> QED BY <1>9, <2>1, <2>2 DEF IoLoggedIn
<1>10. CASE IoLoginFails
    BY <1>10 DEF IoLoginFails, Cancel, TypeOK, Joins, NoJoin, server, status,
       threads, requests
<1>11. CASE IoReport
    BY <1>11 DEF IoReport, TypeOK, Joins, NoJoin, server, status, threads,
       requests
<1>12. CASE IoCertError
    BY <1>12 DEF IoCertError, TypeOK, Joins, NoJoin, server, status, threads,
       requests
<1>13. CASE IoCertStatus
    BY <1>13 DEF IoCertStatus, TypeOK, Joins, NoJoin, server, status, threads,
       requests
<1>14. CASE IoLost
    BY <1>14 DEF IoLost, TypeOK, Joins, NoJoin, server, status, threads,
       requests
<1>15. CASE RcReconnecting
    BY <1>15 DEF RcReconnecting, TypeOK, Joins, NoJoin, server, status,
       threads, requests
<1>16. CASE RcSetSignalStatus
    BY <1>16 DEF RcSetSignalStatus, TypeOK, Joins, NoJoin, server, status,
       threads, requests
<1>17. CASE RcReport
    BY <1>17 DEF RcReport, TypeOK, Joins, NoJoin, server, status, threads,
       requests
<1>18. CASE RcClose
    BY <1>18 DEF RcClose, TypeOK, Joins, NoJoin, server, status, threads,
       requests
<1>19. CASE RcJoin
    BY <1>19 DEF RcJoin, TypeOK, Joins, NoJoin, server, status, threads,
       requests
<1>20. CASE RcDial
    BY <1>20 DEF RcDial, TypeOK, Joins, NoJoin, server, status, threads,
       requests
<1>21. CASE UNCHANGED vars
    BY <1>21 DEF vars, TypeOK, Joins, NoJoin, server, status, threads, requests
<1> QED BY NextIsActions, <1>1, <1>2, <1>3, <1>4, <1>5, <1>6, <1>7, <1>8, <1>9,
       <1>10, <1>11, <1>12, <1>13, <1>14, <1>15, <1>16, <1>17, <1>18, <1>19,
       <1>20, <1>21 DEF Actions

\* The invariant is inductive.
LEMMA StepInv == IInv /\ [Next]_vars => IInv'
BY StepType, StepThreads, StepMember, StepRequests DEF IInv

-----------------------------------------------------------------------------
(* What the application has been told *)

Told(s) ==
    CASE s = "connected" -> "Connected"
      [] s = "failed" -> "Failed"
      [] OTHER -> "TlsCertError"

\* Outside a replacement the status is what the application was told, or what
\* the I/O thread is about to tell it.  During a replacement the two threads may
\* report in any order; what is said last is the Connecting of the new
\* connection, because the old I/O thread is joined before it is set.
TellsStatus ==
    Reports =>
        /\ rc = "idle" => IF io \in {"connected", "failed", "cert"}
                          THEN signal = Told(io)
                          ELSE reported = signal
        /\ rc = "telldial" => signal = "Connecting"

\* TellsStatus is kept by every step.
LEMMA StepTells == TypeOK /\ ThreadInv /\ TellsStatus /\ [Next]_vars => TellsStatus'
<1> SUFFICES ASSUME TypeOK /\ ThreadInv /\ TellsStatus, [Next]_vars PROVE TellsStatus'
    OBVIOUS
<1> USE DEF TellsStatus, Told, Reports
<1>1. CASE AppJoin
    BY <1>1 DEF AppJoin, ThreadInv, Replacing, NoAnswerYet, TypeOK, server, status, threads,
       requests
<1>2. CASE AppLeave
    BY <1>2 DEF AppLeave, ThreadInv, Replacing, NoAnswerYet, TypeOK, server, status, threads,
       requests
<1>3. CASE AppDestroy
    BY <1>3 DEF AppDestroy, ThreadInv, Replacing, NoAnswerYet, TypeOK, server, status, threads,
       requests
<1>4. CASE AppClose
    BY <1>4 DEF AppClose, ThreadInv, Replacing, NoAnswerYet, TypeOK, server, status, threads,
       requests
<1>5. CASE AppClosed
    BY <1>5 DEF AppClosed, ThreadInv, Replacing, NoAnswerYet, TypeOK, server, status, threads,
       requests
<1>6. CASE IoOpened
    BY <1>6 DEF IoOpened, ThreadInv, Replacing, NoAnswerYet, TypeOK, server, status, threads,
       requests
<1>7. CASE IoLogin
    BY <1>7 DEF IoLogin, ThreadInv, Replacing, NoAnswerYet, TypeOK, server, status, threads,
       requests
<1>8. CASE IoLoginSucceeds
    BY <1>8 DEF IoLoginSucceeds, ThreadInv, Replacing, NoAnswerYet, TypeOK, server, status, threads,
       requests
<1>9. CASE IoLoggedIn
    BY <1>9 DEF IoLoggedIn, ThreadInv, Replacing, NoAnswerYet, TypeOK, server, status, threads,
       requests
<1>10. CASE IoLoginFails
    BY <1>10 DEF IoLoginFails, ThreadInv, Replacing, NoAnswerYet, TypeOK, server, status, threads,
       requests
<1>11. CASE IoReport
    BY <1>11 DEF IoReport, ThreadInv, Replacing, NoAnswerYet, TypeOK, server, status, threads,
       requests
<1>12. CASE IoCertError
    BY <1>12 DEF IoCertError, ThreadInv, Replacing, NoAnswerYet, TypeOK, server, status, threads,
       requests
<1>13. CASE IoCertStatus
    BY <1>13 DEF IoCertStatus, ThreadInv, Replacing, NoAnswerYet, TypeOK, server, status, threads,
       requests
<1>14. CASE IoLost
    BY <1>14 DEF IoLost, ThreadInv, Replacing, NoAnswerYet, TypeOK, server, status, threads,
       requests
<1>15. CASE RcReconnecting
    BY <1>15 DEF RcReconnecting, ThreadInv, Replacing, NoAnswerYet, TypeOK, server, status, threads,
       requests
<1>16. CASE RcSetSignalStatus
    BY <1>16 DEF RcSetSignalStatus, ThreadInv, Replacing, NoAnswerYet, TypeOK, server, status, threads,
       requests
<1>17. CASE RcReport
    BY <1>17 DEF RcReport, ThreadInv, Replacing, NoAnswerYet, TypeOK, server, status, threads,
       requests
<1>18. CASE RcClose
    BY <1>18 DEF RcClose, ThreadInv, Replacing, NoAnswerYet, TypeOK, server, status, threads,
       requests
<1>19. CASE RcJoin
    BY <1>19 DEF RcJoin, ThreadInv, Replacing, NoAnswerYet, TypeOK, server, status, threads,
       requests
<1>20. CASE RcDial
    BY <1>20 DEF RcDial, ThreadInv, Replacing, NoAnswerYet, TypeOK, server, status, threads,
       requests
<1>21. CASE UNCHANGED vars
    BY <1>21 DEF vars, server, status, threads, requests
<1> QED BY NextIsActions, <1>1, <1>2, <1>3, <1>4, <1>5, <1>6, <1>7, <1>8, <1>9,
       <1>10, <1>11, <1>12, <1>13, <1>14, <1>15, <1>16, <1>17, <1>18, <1>19,
       <1>20, <1>21 DEF Actions

-----------------------------------------------------------------------------
(* Theorems *)

\* The inductive invariant holds throughout.
THEOREM Invariance == Spec => []IInv
BY InitInv, StepInv, PTL DEF Spec

\* Every variable keeps its type.
THEOREM TypeCorrect == Spec => []TypeOK
<1>1. IInv => TypeOK
    BY DEF IInv
<1> QED BY <1>1, Invariance, PTL

\* The server has the peer in a transmission only over a connection on which it
\* accepted the login, however connections are replaced under Join and the login
\* handler.
THEOREM MembersAreLoggedIn == Spec => []MemberOnlyAfterLogin
<1>1. IInv => MemberOnlyAfterLogin
    BY DEF IInv, MemberInv
<1> QED BY <1>1, Invariance, PTL

\* After a Leave that returned 0 the peer is in no transmission, although the
\* login handler may be about to send the queued join.
THEOREM LeaveIsEffective == Spec => []LeftIsNotMember
<1>1. IInv => LeftIsNotMember
    BY DEF IInv, MemberInv
<1> QED BY <1>1, Invariance, PTL

\* signal_status_ says Connected only after a login on the connection of the
\* moment, although the old I/O thread may set it after SignalReconnecting.
THEOREM ConnectedMeansLoggedIn == Spec => []ConnectedIsLoggedIn
<1>1. IInv => ConnectedIsLoggedIn
    BY DEF IInv, ThreadInv, ConnectedAnswered, ConnectedIsLoggedIn
<1> QED BY <1>1, Invariance, PTL

\* Exactly the queued join is pending.
THEOREM OnePendingJoin == Spec => []PendingIsTheQueuedOne
<1>1. IInv => PendingIsTheQueuedOne
    BY DEF IInv
<1> QED BY <1>1, Invariance, PTL

\* The membership, the pending join and the reported status agree with each
\* other in every state (Join, Leave, the login answer and reconnects).
THEOREM SessionSoundness == Spec => []SessionIsSound
<1>1. TypeOK /\ MemberOnlyAfterLogin /\ LeftIsNotMember /\ PendingIsTheQueuedOne
         /\ ConnectedIsLoggedIn => SessionIsSound
    BY DEF SessionIsSound
<1> QED
    BY <1>1, TypeCorrect, MembersAreLoggedIn, LeaveIsEffective, OnePendingJoin,
       ConnectedMeansLoggedIn, PTL

\* Whenever no thread is in a callback, the last status the application was told
\* is signal_status_, although on_ws_status_ and the login handler set the one
\* and report the other without a common lock.
THEOREM ReportsAreCurrent == Spec => []ReportedIsCurrent
<1>1. Init => TellsStatus
    BY DEF Init, TellsStatus, Told
<1>2. IInv /\ TellsStatus /\ [Next]_vars => TellsStatus'
    BY StepTells DEF IInv
<1>3. TellsStatus => ReportedIsCurrent
    BY DEF TellsStatus, ReportedIsCurrent
<1> QED BY <1>1, <1>2, <1>3, Invariance, PTL DEF Spec

\* Each Join is handled once.
THEOREM JoinedOnce == Spec => FateIsFinal
<1> DEFINE Final == \A j \in Joins : fate[j] \in {"none", "queued"} \/ fate'[j] = fate[j]
<1>1. IInv /\ [Next]_vars => [Final]_vars
  <2> SUFFICES ASSUME IInv, Next PROVE Final
    OBVIOUS
  <2> SUFFICES ASSUME NEW k \in Joins, fate[k] \notin {"none", "queued"}
               PROVE fate'[k] = fate[k]
    OBVIOUS
  <2>0. k # pending /\ ~(k > calls)
    BY DEF IInv, PendingIsTheQueuedOne, UnusedJoins
  <2>1. CASE AppJoin
    <3>1. k # calls + 1
      BY <2>0 DEF IInv, TypeOK, Joins
    <3> QED BY <2>0, <2>1, <3>1 DEF AppJoin, SendJoin, IInv, TypeOK
  <2>2. CASE AppLeave
    BY <2>0, <2>2 DEF AppLeave, Cancel
  <2>3. CASE AppDestroy
    BY <2>0, <2>3 DEF AppDestroy, Cancel
  <2>4. CASE IoLoggedIn
    BY <2>0, <2>4 DEF IoLoggedIn, SendJoin, IInv, TypeOK
  <2>5. CASE IoLoginFails
    BY <2>0, <2>5 DEF IoLoginFails, Cancel
  <2>6. CASE \/ AppClose \/ AppClosed \/ IoOpened \/ IoLogin \/ IoLoginSucceeds
             \/ IoReport \/ IoCertError \/ IoCertStatus \/ IoLost
             \/ RcReconnecting \/ RcSetSignalStatus \/ RcReport \/ RcClose
             \/ RcJoin \/ RcDial
    BY <2>6 DEF AppClose, AppClosed, IoOpened, IoLogin, IoLoginSucceeds,
       IoReport,
                IoCertError, IoCertStatus, IoLost, RcReconnecting,
                RcSetSignalStatus, RcReport, RcClose, RcJoin, RcDial, requests
  <2> QED BY <2>1, <2>2, <2>3, <2>4, <2>5, <2>6, NextIsActions DEF Actions
<1> QED BY <1>1, Invariance, PTL DEF Spec, FateIsFinal
-----------------------------------------------------------------------------
(* IceNegotiation: what is on its way, and what an agent has got *)

\* Everything on its way to p, in the order in which p's worker will see it.
Way(p) == work[p] \o net[p]

Kinds == {"join", "leave", "offer", "answer", "candidate"}
Descriptions == {"offer", "answer"}

\* The messages that there can be after n generations.
Letters(n) ==
    {m \in [type : Kinds, ufrag : 0 .. n, sdp : Candidates \cup {EndOfCandidates}] :
        m.type \in Descriptions \cup {"candidate"} => m.ufrag # NoUfrag}

Transports(n) ==
    [me : 0 .. n, remote : 0 .. n, pending : Seq(Letters(n)), keys : SUBSET Letters(n),
     remote_done : BOOLEAN, gathering : BOOLEAN, seen : SUBSET Candidates,
     local_done : BOOLEAN]

Connections(n) == [exists : BOOLEAN, pending : Seq(Letters(n)), t : Transports(n)]

Early(s) == Len(s) <= MaxPending /\ \A i \in DOMAIN s : s[i].type = "candidate"

\* The agent has what belongs to its description, and nothing before it.
TransportOK(t) ==
    /\ Early(t.pending)
    /\ t.remote = NoUfrag => t.keys = {} /\ ~t.remote_done
    /\ t.remote # NoUfrag => t.pending = <<>>
    /\ t.me = NoUfrag => t = NoTransport
    /\ \A m \in t.keys : m.type = "candidate" /\ m.ufrag = t.remote /\ m.sdp # EndOfCandidates

ConnectionOK(k) ==
    /\ TransportOK(k.t) /\ Early(k.pending)
    /\ ~k.exists => k = NoConnection

IceTypes ==
    /\ ufrags \in Nat
    /\ net \in [Peers -> Seq(Letters(ufrags))] /\ work \in [Peers -> Seq(Letters(ufrags))]
    /\ conns \in [Peers -> Connections(ufrags)]
    /\ joins \in 0 .. JoinLimit /\ lost \in 0 .. MaxLost /\ failures \in 0 .. MaxFailures
    /\ overlapped \in BOOLEAN

\* The description of u is still to come.
Coming(S, u) == \E j \in DOMAIN S : S[j].type \in Descriptions /\ S[j].ufrag = u

\* A candidate never precedes the description of its generation ...
Behind(S) ==
    \A i, j \in DOMAIN S :
        S[i].type = "candidate" /\ S[j].type \in Descriptions /\ S[i].ufrag = S[j].ufrag => j < i

\* ... nor has it been seen before it.
Held(k) ==
    k.t.keys \cup {k.pending[i] : i \in DOMAIN k.pending}
             \cup {k.t.pending[i] : i \in DOMAIN k.t.pending}

Passed(S, k) ==
    /\ \A m \in Held(k) : ~Coming(S, m.ufrag)
    /\ k.t.remote_done => ~Coming(S, k.t.remote)

\* The agent of t takes candidates of u, or will.
Open(S, t, u) == t.remote = u \/ Coming(S, u)

IsCandidate(m, u, c) == m.type = "candidate" /\ m.ufrag = u /\ m.sdp = c

\* The agent has the candidate c of u, or it is on its way before position i.
Has(S, t, u, c, i) ==
    \/ t.remote = u /\ \E m \in t.keys : m.sdp = c
    \/ \E j \in DOMAIN S : j < i /\ IsCandidate(S[j], u, c)

MarkersLast(S, t) ==
    \A i \in DOMAIN S :
        S[i].type = "candidate" /\ S[i].sdp = EndOfCandidates /\ Open(S, t, S[i].ufrag) =>
            \A c \in Candidates : Has(S, t, S[i].ufrag, c, i)

SeenIsSent(S, t, q) ==
    q.me # NoUfrag /\ Open(S, t, q.me) => \A c \in q.seen : Has(S, t, q.me, c, Len(S) + 1)

DoneIsSent(S, t, q) ==
    q.local_done /\ q.me # NoUfrag /\ Open(S, t, q.me) =>
        \/ t.remote = q.me /\ t.remote_done
        \/ \E i \in DOMAIN S : IsCandidate(S[i], q.me, EndOfCandidates)

DoneIsComplete(t) == t.remote_done => \A c \in Candidates : \E m \in t.keys : m.sdp = c

\* What the transport q has sent, the way there and what the agent of t has got.
Whole(S, t, q) ==
    /\ MarkersLast(S, t) /\ SeenIsSent(S, t, q) /\ DoneIsSent(S, t, q) /\ DoneIsComplete(t)

\* One direction: n generations, l lost messages, the way S to the connection
\* k, and the transport q of the other side.
Ordered(n, S, k) ==
    /\ S \in Seq(Letters(n)) /\ k \in Connections(n) /\ ConnectionOK(k)
    /\ Behind(S) /\ Passed(S, k)

Sound(n, l, S, k, q) == Ordered(n, S, k) /\ (l = 0 => Whole(S, k.t, q))

IceInv ==
    /\ IceTypes
    /\ \A p \in Peers : Sound(ufrags, lost, Way(p), conns[p], conns[Other(p)].t)

\* The phases of an exchange.  A way on which the message at j is the only one of
\* its kind: what precedes it, and only candidates after it.
Only(S, kinds) == \A i \in DOMAIN S : S[i].type \in kinds
Marked(S, j, kind, before) ==
    /\ j \in DOMAIN S /\ S[j].type = kind
    /\ \A i \in DOMAIN S : (i < j => S[i].type \in before) /\ (i > j => S[i].type = "candidate")

IsWaiting(k) == k.exists /\ k.t = NoTransport
IsCalling(k) == /\ k.exists /\ k.t.me # NoUfrag /\ k.t.remote = NoUfrag
                /\ ~k.t.local_done /\ ~k.t.gathering
Linked(k, e) == /\ k.exists /\ k.t.me # NoUfrag /\ k.t.remote = e.t.me
                /\ k.t.gathering \/ k.t.local_done

\* The offerer has the connection k and the way S to it, the other e and T; w
\* messages of the way are in the worker's queue.  The join is on its way: when
\* the worker meets it, nothing is left of the exchange before.
JoinPhase(w, S, k, T) ==
    /\ Only(T, {"candidate"})
    /\ \E j \in DOMAIN S :
         /\ Marked(S, j, "join", {"leave", "answer", "candidate"})
         /\ j <= w => IsWaiting(k) /\ Marked(S, j, "join", {"answer", "candidate"})

OfferPhase(w, S, k, T, e) ==
    /\ Only(S, {"candidate"}) /\ IsCalling(k)
    /\ \E j \in DOMAIN T :
         /\ Marked(T, j, "offer", {"candidate"}) /\ T[j].ufrag = k.t.me
         /\ j <= w => IsWaiting(e)

AnswerPhase(S, k, T, e) ==
    /\ Only(T, {"candidate"}) /\ IsCalling(k) /\ Linked(e, k)
    /\ \E j \in DOMAIN S : Marked(S, j, "answer", {"candidate"}) /\ S[j].ufrag = e.t.me

GatherPhase(S, k, T, e) ==
    /\ Only(S, {"candidate"}) /\ Only(T, {"candidate"}) /\ Linked(k, e) /\ Linked(e, k)

Idle == joins = 0 /\ \A p \in Peers : Way(p) = <<>> /\ conns[p] = NoConnection

Clean == lost = 0 /\ failures = 0 /\ ~overlapped

Phase ==
    \/ Idle
    \/ JoinPhase(Len(work["o"]), Way("o"), conns["o"], Way("a"))
    \/ OfferPhase(Len(work["a"]), Way("o"), conns["o"], Way("a"), conns["a"])
    \/ AnswerPhase(Way("o"), conns["o"], Way("a"), conns["a"])
    \/ GatherPhase(Way("o"), conns["o"], Way("a"), conns["a"])

Phases == Clean => Phase
-----------------------------------------------------------------------------
LEMMA PeersAre ==
    ASSUME NEW p \in Peers
    PROVE  Other(p) \in Peers /\ Other(p) # p /\ Other(Other(p)) = p
           /\ \A r \in Peers : r = p \/ r = Other(p)
BY DEF Peers, Other

LEMMA EndIsNone == EndOfCandidates \notin Candidates /\ EndOfCandidates \in Nat /\ Candidates \subseteq Nat
BY NegotiationAssumption DEF EndOfCandidates

LEMMA LetterIs ==
    ASSUME NEW n \in Nat, NEW m \in Letters(n)
    PROVE  /\ m.type \in Kinds /\ m.ufrag \in 0 .. n /\ m.ufrag \in Nat /\ m.sdp \in Nat
           /\ (m.type = "candidate" \/ m.type \in Descriptions) => m.ufrag # NoUfrag
           /\ m.sdp \in Candidates \cup {EndOfCandidates}
<1>1. /\ m.type \in Kinds /\ m.ufrag \in 0 .. n /\ m.sdp \in Candidates \cup {EndOfCandidates}
      /\ m.type \in Descriptions \cup {"candidate"} => m.ufrag # NoUfrag
    BY Zenon DEF Letters
<1>2. m.ufrag \in Nat
    BY <1>1
<1>3. m.sdp \in Nat
    BY <1>1, EndIsNone
<1>4. m.type = "candidate" \/ m.type \in Descriptions => m.ufrag # NoUfrag
    BY <1>1
<1> QED BY <1>1, <1>2, <1>3, <1>4

\* What is true of a tail.
LEMMA TailIs ==
    ASSUME NEW L, NEW S \in Seq(L), S # <<>>, NEW T, T = Tail(S)
    PROVE  /\ T \in Seq(L) /\ Len(T) = Len(S) - 1 /\ Head(S) = S[1] /\ 1 \in DOMAIN S
           /\ \A i \in DOMAIN T : i + 1 \in DOMAIN S /\ T[i] = S[i + 1] /\ i \in Nat
           /\ \A i \in DOMAIN S : i \in Nat /\ (i = 1 \/ (i - 1 \in DOMAIN T /\ T[i - 1] = S[i]))
OBVIOUS

LEMMA AppendIs ==
    ASSUME NEW L, NEW S \in Seq(L), NEW m \in L, NEW T, T = Append(S, m)
    PROVE  /\ T \in Seq(L) /\ Len(T) = Len(S) + 1 /\ Len(T) \in DOMAIN T /\ T[Len(T)] = m
           /\ \A i \in DOMAIN S : i \in DOMAIN T /\ T[i] = S[i] /\ i \in Nat /\ i <= Len(S)
           /\ \A i \in DOMAIN T : i \in Nat /\ i <= Len(T) /\ (i = Len(T) \/ (i \in DOMAIN S))
           /\ Len(S) \in Nat
OBVIOUS
-----------------------------------------------------------------------------
\* What an agent loses, it had passed.
LEMMA AgentLost ==
    ASSUME NEW n \in Nat, NEW S, NEW k, Ordered(n, S, k), NEW q, Whole(S, k.t, q),
           NEW e, e.remote = NoUfrag, ~e.remote_done
    PROVE  Whole(S, e, q)
<1>0. S \in Seq(Letters(n)) /\ TransportOK(k.t) /\ Passed(S, k) /\ k.t.keys \subseteq Held(k)
    BY DEF Ordered, ConnectionOK, Held
<1>1. ASSUME NEW u, u # NoUfrag, Open(S, e, u), NEW c, NEW i, Has(S, k.t, u, c, i)
      PROVE  Has(S, e, u, c, i)
  <2>1. Coming(S, u)
    BY <1>1 DEF Open
  <2>2. ASSUME k.t.remote = u, NEW m \in k.t.keys PROVE FALSE
    <3>1. m.ufrag = u
      BY <1>0, <2>2 DEF TransportOK
    <3> QED BY <1>0, <2>1, <3>1 DEF Passed
  <2> QED BY <1>1, <2>2, Zenon DEF Has
<1>2. ASSUME NEW u, u # NoUfrag, Open(S, e, u)
      PROVE  Open(S, k.t, u)
    BY <1>2 DEF Open
<1>3. MarkersLast(S, e)
  <2> SUFFICES ASSUME NEW i \in DOMAIN S, S[i].type = "candidate", S[i].sdp = EndOfCandidates,
                      Open(S, e, S[i].ufrag), NEW c \in Candidates
               PROVE  Has(S, e, S[i].ufrag, c, i)
    BY Zenon DEF MarkersLast
  <2>1. S[i] \in Letters(n)
    BY <1>0
  <2>2. S[i].ufrag # NoUfrag
    BY <2>1, LetterIs
  <2>3. Has(S, k.t, S[i].ufrag, c, i)
    BY <1>2, <2>2, Zenon DEF Whole, MarkersLast
  <2> QED BY <1>1, <2>2, <2>3, Zenon
<1>4. SeenIsSent(S, e, q)
    BY <1>1, <1>2, Zenon DEF Whole, SeenIsSent
<1>5. DoneIsSent(S, e, q)
  <2> SUFFICES ASSUME q.local_done, q.me # NoUfrag, Open(S, e, q.me)
               PROVE  \E i \in DOMAIN S : IsCandidate(S[i], q.me, EndOfCandidates)
    BY Zenon DEF DoneIsSent
  <2>1. Coming(S, q.me)
    BY DEF Open
  <2>2. ~(k.t.remote = q.me /\ k.t.remote_done)
    BY <1>0, <2>1 DEF Passed
  <2> QED BY <1>2, <2>2, Zenon DEF Whole, DoneIsSent
<1>6. DoneIsComplete(e)
    BY DEF DoneIsComplete
<1> QED BY <1>3, <1>4, <1>5, <1>6 DEF Whole

\* A transport that has sent nothing.
LEMMA SenderNew ==
    ASSUME NEW S, NEW t, NEW q, Whole(S, t, q), NEW r, r.seen = {}, ~r.local_done
    PROVE  Whole(S, t, r)
BY DEF Whole, SeenIsSent, DoneIsSent

SameAgent(t, e) == e.remote = t.remote /\ e.keys = t.keys /\ e.remote_done = t.remote_done
SameSender(q, r) == r.me = q.me /\ r.seen = q.seen /\ r.local_done = q.local_done

LEMMA SenderSame ==
    ASSUME NEW S, NEW t, NEW q, Whole(S, t, q), NEW r, SameSender(q, r)
    PROVE  Whole(S, t, r)
BY DEF Whole, SeenIsSent, DoneIsSent, SameSender

LEMMA AgentSame ==
    ASSUME NEW S, NEW t, NEW q, Whole(S, t, q), NEW e, SameAgent(t, e)
    PROVE  Whole(S, e, q)
<1>1. \A u : Open(S, e, u) <=> Open(S, t, u)
    BY DEF Open, SameAgent
<1>2. \A u, c, i : Has(S, e, u, c, i) <=> Has(S, t, u, c, i)
    BY DEF Has, SameAgent
<1>3. MarkersLast(S, e)
    BY <1>1, <1>2, Zenon DEF Whole, MarkersLast
<1>4. SeenIsSent(S, e, q)
    BY <1>1, <1>2, Zenon DEF Whole, SeenIsSent
<1>5. DoneIsSent(S, e, q)
    BY <1>1 DEF Whole, DoneIsSent, SameAgent
<1>6. DoneIsComplete(e)
    BY DEF Whole, DoneIsComplete, SameAgent
<1> QED BY <1>3, <1>4, <1>5, <1>6 DEF Whole
-----------------------------------------------------------------------------
\* A message leaves the way.

LEMMA ComingTail ==
    ASSUME NEW L, NEW S \in Seq(L), S # <<>>, NEW u, Coming(Tail(S), u)
    PROVE  Coming(S, u)
<1>1. PICK T : T = Tail(S)
    OBVIOUS
<1>2. PICK j \in DOMAIN T : T[j].type \in Descriptions /\ T[j].ufrag = u
    BY <1>1 DEF Coming
<1>3. j + 1 \in DOMAIN S /\ T[j] = S[j + 1]
    BY <1>1, TailIs
<1> QED BY <1>2, <1>3 DEF Coming

\* A candidate that leaves the way: its description is not behind it.
LEMMA CandidateIsPast ==
    ASSUME NEW L, NEW S \in Seq(L), S # <<>>, Behind(S), S[1].type = "candidate"
    PROVE  ~Coming(Tail(S), S[1].ufrag)
<1>1. PICK T : T = Tail(S)
    OBVIOUS
<1>2. ASSUME NEW j \in DOMAIN T, T[j].type \in Descriptions, T[j].ufrag = S[1].ufrag PROVE FALSE
  <2>1. j + 1 \in DOMAIN S /\ T[j] = S[j + 1] /\ j \in Nat /\ 1 \in DOMAIN S
    BY <1>1, TailIs
  <2>2. j + 1 < 1
    BY <1>2, <2>1 DEF Behind
  <2> QED BY <2>1, <2>2
<1> QED BY <1>1, <1>2 DEF Coming

LEMMA BehindTail ==
    ASSUME NEW L, NEW S \in Seq(L), S # <<>>, Behind(S)
    PROVE  Behind(Tail(S))
<1>1. PICK T : T = Tail(S)
    OBVIOUS
<1>2. ASSUME NEW i \in DOMAIN T, NEW j \in DOMAIN T, T[i].type = "candidate",
             T[j].type \in Descriptions, T[i].ufrag = T[j].ufrag
      PROVE  j < i
  <2>1. i + 1 \in DOMAIN S /\ T[i] = S[i + 1] /\ i \in Nat
    BY <1>1, TailIs
  <2>2. j + 1 \in DOMAIN S /\ T[j] = S[j + 1] /\ j \in Nat
    BY <1>1, TailIs
  <2>3. j + 1 < i + 1
    BY <1>2, <2>1, <2>2, Zenon DEF Behind
  <2> QED BY <2>1, <2>2, <2>3
<1> QED BY <1>1, <1>2, Zenon DEF Behind

\* What becomes of a candidate of an agent: it is given to it.
Taken(T, e, m) ==
    \/ m.type # "candidate"
    \/ ~Open(T, e, m.ufrag)
    \/ /\ e.remote = m.ufrag
       /\ m.sdp = EndOfCandidates => e.remote_done
       /\ m.sdp # EndOfCandidates => \E x \in e.keys : x.sdp = m.sdp

LEMMA HasTail ==
    ASSUME NEW L, NEW S \in Seq(L), S # <<>>, NEW T, T = Tail(S), NEW t, NEW e,
           e.remote = t.remote, t.keys \subseteq e.keys, Taken(T, e, S[1]),
           NEW u, Open(T, e, u), NEW c \in Candidates, NEW i \in Nat, Has(S, t, u, c, i + 1)
    PROVE  Has(T, e, u, c, i)
<1>1. CASE t.remote = u /\ \E m \in t.keys : m.sdp = c
    BY <1>1 DEF Has
<1>2. CASE \E j \in DOMAIN S : j < i + 1 /\ IsCandidate(S[j], u, c)
  <2>1. PICK j \in DOMAIN S : j < i + 1 /\ IsCandidate(S[j], u, c)
    BY <1>2
  <2>2. CASE j = 1
    <3>1. S[1].type = "candidate" /\ S[1].ufrag = u /\ S[1].sdp = c
      BY <2>1, <2>2 DEF IsCandidate
    <3>2. S[1].sdp # EndOfCandidates
      BY <3>1, EndIsNone
    <3>3. e.remote = u /\ \E x \in e.keys : x.sdp = c
      BY <3>1, <3>2 DEF Taken
    <3> QED BY <3>3 DEF Has
  <2>3. CASE j # 1
    <3>1. j \in Nat /\ j - 1 \in DOMAIN T /\ T[j - 1] = S[j]
      BY <2>3, TailIs
    <3>2. j - 1 < i
      BY <2>1, <3>1
    <3> QED BY <2>1, <3>1, <3>2 DEF Has
  <2> QED BY <2>2, <2>3
<1> QED BY <1>1, <1>2 DEF Has

LEMMA WholePops ==
    ASSUME NEW n \in Nat, NEW S \in Seq(Letters(n)), S # <<>>, NEW T, T = Tail(S),
           NEW t, NEW e, e.remote = t.remote, t.keys \subseteq e.keys,
           t.remote_done => e.remote_done, Taken(T, e, S[1]), DoneIsComplete(e),
           NEW q, q.seen \subseteq Candidates, Whole(S, t, q)
    PROVE  Whole(T, e, q)
<1>1. \A u : Open(T, e, u) => Open(S, t, u)
    BY ComingTail DEF Open
<1>2. MarkersLast(T, e)
  <2> SUFFICES ASSUME NEW i \in DOMAIN T, T[i].type = "candidate", T[i].sdp = EndOfCandidates,
                      Open(T, e, T[i].ufrag), NEW c \in Candidates
               PROVE  Has(T, e, T[i].ufrag, c, i)
    BY Zenon DEF MarkersLast
  <2>1. i + 1 \in DOMAIN S /\ T[i] = S[i + 1] /\ i \in Nat
    BY TailIs
  <2>2. Has(S, t, T[i].ufrag, c, i + 1)
    BY <1>1, <2>1, Zenon DEF Whole, MarkersLast
  <2> QED BY <2>1, <2>2, HasTail
<1>3. SeenIsSent(T, e, q)
  <2> SUFFICES ASSUME q.me # NoUfrag, Open(T, e, q.me), NEW c \in q.seen
               PROVE  Has(T, e, q.me, c, Len(T) + 1)
    BY Zenon DEF SeenIsSent
  <2>1. Len(S) = (Len(T) + 1) /\ Len(T) + 1 \in Nat
    BY TailIs
  <2>2. Has(S, t, q.me, c, Len(S) + 1) /\ c \in Candidates
    BY <1>1, Zenon DEF Whole, SeenIsSent
  <2>3. Has(S, t, q.me, c, (Len(T) + 1) + 1)
    BY <2>1, <2>2
  <2> QED BY <2>1, <2>2, <2>3, HasTail
<1>4. DoneIsSent(T, e, q)
  <2> SUFFICES ASSUME q.local_done, q.me # NoUfrag, Open(T, e, q.me), ~(e.remote = q.me /\ e.remote_done)
               PROVE  \E i \in DOMAIN T : IsCandidate(T[i], q.me, EndOfCandidates)
    BY Zenon DEF DoneIsSent
  <2>1. PICK i \in DOMAIN S : IsCandidate(S[i], q.me, EndOfCandidates)
    BY <1>1, Zenon DEF Whole, DoneIsSent
  <2>2. i # 1
    BY <2>1 DEF Taken, IsCandidate
  <2>3. i - 1 \in DOMAIN T /\ T[i - 1] = S[i]
    BY <2>2, TailIs
  <2> QED BY <2>1, <2>3
<1> QED BY <1>2, <1>3, <1>4 DEF Whole

\* A description that is accepted opens the agent.
LEMMA WholeOpens ==
    ASSUME NEW n \in Nat, NEW S \in Seq(Letters(n)), S # <<>>, NEW T, T = Tail(S),
           S[1].type \in Descriptions, NEW t, t.remote = NoUfrag, ~t.remote_done,
           NEW e, e.remote = S[1].ufrag, ~e.remote_done,
           NEW q, q.seen \subseteq Candidates, Whole(S, t, q)
    PROVE  Whole(T, e, q)
<1>0. 1 \in DOMAIN S /\ S[1] \in Letters(n) /\ S[1].type # "candidate"
    BY DEF Descriptions
<1>1. \A u : Open(T, e, u) => Open(S, t, u)
  <2>1. Coming(S, e.remote)
    BY <1>0 DEF Coming
  <2> QED BY <2>1, ComingTail DEF Open
<1>2. ASSUME NEW u, u # NoUfrag, NEW c, NEW i \in Nat, Has(S, t, u, c, i + 1)
      PROVE  Has(T, e, u, c, i)
  <2>1. PICK j \in DOMAIN S : j < i + 1 /\ IsCandidate(S[j], u, c)
    BY <1>2 DEF Has
  <2>2. j # 1
    BY <1>0, <2>1 DEF IsCandidate
  <2>3. j \in Nat /\ j - 1 \in DOMAIN T /\ T[j - 1] = S[j]
    BY <2>2, TailIs
  <2>4. j - 1 < i
    BY <2>1, <2>3
  <2> QED BY <2>1, <2>3, <2>4 DEF Has
<1>3. MarkersLast(T, e)
  <2> SUFFICES ASSUME NEW i \in DOMAIN T, T[i].type = "candidate", T[i].sdp = EndOfCandidates,
                      Open(T, e, T[i].ufrag), NEW c \in Candidates
               PROVE  Has(T, e, T[i].ufrag, c, i)
    BY Zenon DEF MarkersLast
  <2>1. i + 1 \in DOMAIN S /\ T[i] = S[i + 1] /\ i \in Nat
    BY TailIs
  <2>2. T[i] \in Letters(n)
    BY <2>1
  <2>3. T[i].ufrag # NoUfrag
    BY <2>2, LetterIs
  <2>4. Has(S, t, T[i].ufrag, c, i + 1)
    BY <1>1, <2>1, Zenon DEF Whole, MarkersLast
  <2> QED BY <1>2, <2>1, <2>3, <2>4
<1>4. SeenIsSent(T, e, q)
  <2> SUFFICES ASSUME q.me # NoUfrag, Open(T, e, q.me), NEW c \in q.seen
               PROVE  Has(T, e, q.me, c, Len(T) + 1)
    BY Zenon DEF SeenIsSent
  <2>1. Len(S) = (Len(T) + 1) /\ Len(T) + 1 \in Nat
    BY TailIs
  <2>2. Has(S, t, q.me, c, Len(S) + 1)
    BY <1>1, Zenon DEF Whole, SeenIsSent
  <2>3. Has(S, t, q.me, c, (Len(T) + 1) + 1)
    BY <2>1, <2>2
  <2> QED BY <1>2, <2>1, <2>3
<1>5. DoneIsSent(T, e, q)
  <2> SUFFICES ASSUME q.local_done, q.me # NoUfrag, Open(T, e, q.me)
               PROVE  \E i \in DOMAIN T : IsCandidate(T[i], q.me, EndOfCandidates)
    BY Zenon DEF DoneIsSent
  <2>1. PICK i \in DOMAIN S : IsCandidate(S[i], q.me, EndOfCandidates)
    BY <1>1, Zenon DEF Whole, DoneIsSent
  <2>2. i # 1
    BY <1>0, <2>1 DEF IsCandidate
  <2>3. i - 1 \in DOMAIN T /\ T[i - 1] = S[i]
    BY <2>2, TailIs
  <2> QED BY <2>1, <2>3
<1>6. DoneIsComplete(e)
    BY DEF DoneIsComplete
<1> QED BY <1>3, <1>4, <1>5, <1>6 DEF Whole
-----------------------------------------------------------------------------
\* A message joins the way.

LEMMA ComingAppend ==
    ASSUME NEW L, NEW S \in Seq(L), NEW m \in L, NEW u, Coming(Append(S, m), u),
           ~(m.type \in Descriptions /\ m.ufrag = u)
    PROVE  Coming(S, u)
<1>1. PICK T : T = Append(S, m)
    OBVIOUS
<1>2. PICK j \in DOMAIN T : T[j].type \in Descriptions /\ T[j].ufrag = u
    BY <1>1 DEF Coming
<1>3. /\ j = Len(T) \/ j \in DOMAIN S
      /\ T[Len(T)] = m
    BY <1>1, AppendIs
<1>4. j \in DOMAIN S
    BY <1>2, <1>3
<1>5. T[j] = S[j]
    BY <1>1, <1>4, AppendIs
<1> QED BY <1>2, <1>4, <1>5 DEF Coming

LEMMA HasAppend ==
    ASSUME NEW L, NEW S \in Seq(L), NEW m \in L, NEW T, T = Append(S, m), NEW t, NEW u, NEW c,
           NEW i, Has(S, t, u, c, i)
    PROVE  Has(T, t, u, c, i)
<1>1. \A j \in DOMAIN S : j \in DOMAIN T /\ T[j] = S[j]
    BY AppendIs
<1> QED BY <1>1, Zenon DEF Has

LEMMA HasLater ==
    ASSUME NEW L, NEW S \in Seq(L), NEW t, NEW u, NEW c, NEW i \in Int, Has(S, t, u, c, i)
    PROVE  Has(S, t, u, c, i + 1)
<1>1. \A j \in DOMAIN S : j \in Int /\ (j < i => j < i + 1)
    OBVIOUS
<1> QED BY <1>1, Zenon DEF Has

\* What is sent is fresh, or a candidate of the sender's own.
LEMMA BehindAppend ==
    ASSUME NEW n \in Nat, NEW S \in Seq(Letters(n)), Behind(S), NEW m \in Letters(n + 1),
           m.type \in Descriptions => m.ufrag = n + 1, S \in Seq(Letters(n + 1))
    PROVE  Behind(Append(S, m))
<1>1. PICK T : T = Append(S, m)
    OBVIOUS
<1>2. ASSUME NEW i \in DOMAIN T, NEW j \in DOMAIN T, T[i].type = "candidate",
             T[j].type \in Descriptions, T[i].ufrag = T[j].ufrag
      PROVE  j < i
  <2>0. T[Len(T)] = m /\ i \in Nat /\ j \in Nat /\ i <= Len(T) /\ j <= Len(T) /\ Len(T) \in Nat
    BY <1>1, AppendIs
  <2>1. CASE i = Len(T)
    <3>1. j # i
      BY <1>2 DEF Descriptions
    <3> QED BY <2>0, <2>1, <3>1
  <2>2. CASE i # Len(T)
    <3>1. i \in DOMAIN S /\ T[i] = S[i]
      BY <1>1, <2>2, AppendIs
    <3>2. S[i].ufrag <= n /\ S[i].ufrag \in Nat
      <4>1. S[i] \in Letters(n)
        BY <3>1
      <4> QED BY <4>1, LetterIs
    <3>3. j # Len(T)
      BY <1>2, <2>0, <3>1, <3>2
    <3>4. j \in DOMAIN S /\ T[j] = S[j]
      BY <1>1, <3>3, AppendIs
    <3> QED BY <1>2, <3>1, <3>4, Zenon DEF Behind
  <2> QED BY <2>1, <2>2
<1> QED BY <1>1, <1>2, Zenon DEF Behind

\* A fresh description is appended, or a message that is neither description nor
\* candidate.
LEMMA WholeAppends ==
    ASSUME NEW n \in Nat, NEW S \in Seq(Letters(n)), S \in Seq(Letters(n + 1)),
           NEW m \in Letters(n + 1), m.type # "candidate",
           m.type \in Descriptions => m.ufrag = n + 1,
           NEW t, NEW q, q.me \in 0 .. n \/ (q.seen = {} /\ ~q.local_done),
           Whole(S, t, q), NEW T, T = Append(S, m)
    PROVE  Whole(T, t, q)
<1>1. \A u : u \in 0 .. n /\ Open(T, t, u) => Open(S, t, u)
    BY ComingAppend DEF Open
<1>2. \A u, c, i : Has(S, t, u, c, i) => Has(T, t, u, c, i)
    BY HasAppend
<1>3. MarkersLast(T, t)
  <2> SUFFICES ASSUME NEW i \in DOMAIN T, T[i].type = "candidate", T[i].sdp = EndOfCandidates,
                      Open(T, t, T[i].ufrag), NEW c \in Candidates
               PROVE  Has(T, t, T[i].ufrag, c, i)
    BY Zenon DEF MarkersLast
  <2>1. T[Len(T)] = m
    BY AppendIs
  <2>2. i # Len(T)
    BY <2>1
  <2>3. i \in DOMAIN S /\ T[i] = S[i]
    BY <2>2, AppendIs
  <2>4. S[i] \in Letters(n)
    BY <2>3
  <2>5. S[i].ufrag \in 0 .. n
    BY <2>4, LetterIs
  <2>6. Has(S, t, S[i].ufrag, c, i)
    BY <1>1, <2>3, <2>5, Zenon DEF Whole, MarkersLast
  <2> QED BY <1>2, <2>3, <2>6
<1>4. SeenIsSent(T, t, q)
  <2> SUFFICES ASSUME q.me # NoUfrag, Open(T, t, q.me), NEW c \in q.seen
               PROVE  Has(T, t, q.me, c, Len(T) + 1)
    BY Zenon DEF SeenIsSent
  <2>1. q.me \in 0 .. n
    OBVIOUS
  <2>2. Has(S, t, q.me, c, Len(S) + 1)
    BY <1>1, <2>1, Zenon DEF Whole, SeenIsSent
  <2>3. Len(T) = Len(S) + 1 /\ Len(S) + 1 \in Int
    BY AppendIs
  <2>4. Has(S, t, q.me, c, (Len(S) + 1) + 1)
    BY <2>2, <2>3, HasLater
  <2> QED BY <1>2, <2>3, <2>4
<1>5. DoneIsSent(T, t, q)
  <2> SUFFICES ASSUME q.local_done, q.me # NoUfrag, Open(T, t, q.me), ~(t.remote = q.me /\ t.remote_done)
               PROVE  \E i \in DOMAIN T : IsCandidate(T[i], q.me, EndOfCandidates)
    BY Zenon DEF DoneIsSent
  <2>1. q.me \in 0 .. n
    OBVIOUS
  <2>2. PICK i \in DOMAIN S : IsCandidate(S[i], q.me, EndOfCandidates)
    BY <1>1, <2>1, Zenon DEF Whole, DoneIsSent
  <2>3. i \in DOMAIN T /\ T[i] = S[i]
    BY AppendIs
  <2> QED BY <2>2, <2>3
<1>6. DoneIsComplete(t)
    BY DEF Whole
<1> QED BY <1>3, <1>4, <1>5, <1>6 DEF Whole

\* The sender's own candidate is appended, or its marker after all of them.
LEMMA WholeSends ==
    ASSUME NEW n \in Nat, NEW S \in Seq(Letters(n)), NEW t, NEW q, Whole(S, t, q), q.me # NoUfrag,
           NEW m \in Letters(n), m.type = "candidate", m.ufrag = q.me,
           NEW r, r.me = q.me,
           \A c \in r.seen : c \in q.seen \/ c = m.sdp,
           r.local_done => q.local_done \/ m.sdp = EndOfCandidates,
           m.sdp = EndOfCandidates => Candidates \subseteq q.seen,
           NEW T, T = Append(S, m)
    PROVE  Whole(T, t, r)
<1>0. /\ T[Len(T)] = m /\ Len(T) = Len(S) + 1 /\ Len(S) \in Nat /\ Len(T) \in DOMAIN T
    BY AppendIs
<1>1. \A u : Open(T, t, u) => Open(S, t, u)
  <2>1. m.type \notin Descriptions
    BY DEF Descriptions
  <2> QED BY <2>1, ComingAppend DEF Open
<1>2. \A u, c, i : Has(S, t, u, c, i) => Has(T, t, u, c, i)
    BY HasAppend
<1>3. MarkersLast(T, t)
  <2> SUFFICES ASSUME NEW i \in DOMAIN T, T[i].type = "candidate", T[i].sdp = EndOfCandidates,
                      Open(T, t, T[i].ufrag), NEW c \in Candidates
               PROVE  Has(T, t, T[i].ufrag, c, i)
    BY Zenon DEF MarkersLast
  <2>1. CASE i = Len(T)
    <3>1. T[i].ufrag = q.me /\ c \in q.seen
      BY <1>0, <2>1
    <3>2. Has(S, t, q.me, c, Len(S) + 1)
      BY <1>1, <3>1, Zenon DEF Whole, SeenIsSent
    <3> QED BY <1>0, <1>2, <2>1, <3>1, <3>2
  <2>2. CASE i # Len(T)
    <3>1. i \in DOMAIN S /\ T[i] = S[i]
      BY <2>2, AppendIs
    <3>2. Has(S, t, S[i].ufrag, c, i)
      BY <1>1, <3>1, Zenon DEF Whole, MarkersLast
    <3> QED BY <1>2, <3>1, <3>2
  <2> QED BY <2>1, <2>2
<1>4. SeenIsSent(T, t, r)
  <2> SUFFICES ASSUME Open(T, t, q.me), NEW c \in r.seen
               PROVE  Has(T, t, q.me, c, Len(T) + 1)
    BY Zenon DEF SeenIsSent
  <2>1. CASE c \in q.seen
    <3>1. Has(S, t, q.me, c, Len(S) + 1)
      BY <1>1, <2>1, Zenon DEF Whole, SeenIsSent
    <3>2. Has(S, t, q.me, c, (Len(S) + 1) + 1)
      BY <1>0, <3>1, HasLater
    <3> QED BY <1>0, <1>2, <3>2
  <2>2. CASE c = m.sdp
    <3>1. IsCandidate(T[Len(T)], q.me, c) /\ Len(T) < Len(T) + 1
      BY <1>0, <2>2 DEF IsCandidate
    <3> QED BY <1>0, <3>1 DEF Has
  <2> QED BY <2>1, <2>2
<1>5. DoneIsSent(T, t, r)
  <2> SUFFICES ASSUME r.local_done, Open(T, t, q.me), ~(t.remote = q.me /\ t.remote_done)
               PROVE  \E i \in DOMAIN T : IsCandidate(T[i], q.me, EndOfCandidates)
    BY Zenon DEF DoneIsSent
  <2>1. CASE q.local_done
    <3>1. PICK i \in DOMAIN S : IsCandidate(S[i], q.me, EndOfCandidates)
      BY <1>1, <2>1, Zenon DEF Whole, DoneIsSent
    <3>2. i \in DOMAIN T /\ T[i] = S[i]
      BY AppendIs
    <3> QED BY <3>1, <3>2
  <2>2. CASE m.sdp = EndOfCandidates
    BY <1>0, <2>2 DEF IsCandidate
  <2> QED BY <2>1, <2>2
<1>6. DoneIsComplete(t)
    BY DEF Whole
<1> QED BY <1>3, <1>4, <1>5, <1>6 DEF Whole
-----------------------------------------------------------------------------
\* Types

LEMMA LettersGrow ==
    ASSUME NEW n \in Nat
    PROVE  Letters(n) \subseteq Letters(n + 1)
<1>1. ASSUME NEW m \in Letters(n) PROVE m \in Letters(n + 1)
  <2>1. /\ m \in [type : Kinds, ufrag : 0 .. n, sdp : Candidates \cup {EndOfCandidates}]
        /\ m.type \in Descriptions \cup {"candidate"} => m.ufrag # NoUfrag
    BY <1>1, Zenon DEF Letters
  <2>2. m \in [type : Kinds, ufrag : 0 .. n + 1, sdp : Candidates \cup {EndOfCandidates}]
    BY <2>1
  <2> QED BY <2>1, <2>2, Zenon DEF Letters
<1> QED BY <1>1

LEMMA SeqGrows ==
    ASSUME NEW L, NEW M, L \subseteq M, NEW S \in Seq(L)
    PROVE  S \in Seq(M)
OBVIOUS

LEMMA TransportFields ==
    ASSUME NEW n \in Nat, NEW t \in Transports(n)
    PROVE  /\ t.me \in 0 .. n /\ t.remote \in 0 .. n /\ t.pending \in Seq(Letters(n))
           /\ t.keys \subseteq Letters(n) /\ t.remote_done \in BOOLEAN /\ t.gathering \in BOOLEAN
           /\ t.seen \subseteq Candidates /\ t.local_done \in BOOLEAN
BY DEF Transports

LEMMA ConnectionFields ==
    ASSUME NEW n \in Nat, NEW k \in Connections(n)
    PROVE  k.exists \in BOOLEAN /\ k.pending \in Seq(Letters(n)) /\ k.t \in Transports(n)
BY DEF Connections

LEMMA ConnectionsGrow ==
    ASSUME NEW n \in Nat
    PROVE  Connections(n) \subseteq Connections(n + 1) /\ Transports(n) \subseteq Transports(n + 1)
<1>1. Letters(n) \subseteq Letters(n + 1) /\ 0 .. n \subseteq 0 .. n + 1
    BY LettersGrow
<1>2. Seq(Letters(n)) \subseteq Seq(Letters(n + 1))
    BY <1>1, SeqGrows
<1>3. ASSUME NEW t \in Transports(n) PROVE t \in Transports(n + 1)
    BY <1>1, <1>2, <1>3 DEF Transports
<1>4. ASSUME NEW k \in Connections(n) PROVE k \in Connections(n + 1)
    BY <1>2, <1>3, <1>4 DEF Connections
<1> QED BY <1>3, <1>4

LEMMA OrderedGrows ==
    ASSUME NEW n \in Nat, NEW S, NEW k, Ordered(n, S, k)
    PROVE  Ordered(n + 1, S, k)
<1>1. S \in Seq(Letters(n + 1))
    BY LettersGrow, SeqGrows DEF Ordered
<1> QED BY <1>1, ConnectionsGrow DEF Ordered

LEMMA HeldAre ==
    ASSUME NEW n \in Nat, NEW k \in Connections(n), NEW m \in Held(k)
    PROVE  m \in Letters(n)
<1>1. k.pending \in Seq(Letters(n)) /\ k.t.pending \in Seq(Letters(n)) /\ k.t.keys \subseteq Letters(n)
    BY ConnectionFields, TransportFields
<1> QED BY <1>1 DEF Held

LEMMA MessageIs ==
    ASSUME NEW n \in Nat, NEW type \in Kinds, NEW ufrag \in 0 .. n,
           NEW sdp \in Candidates \cup {EndOfCandidates},
           type \in Descriptions \cup {"candidate"} => ufrag # NoUfrag,
           NEW m, m = Message(type, ufrag, sdp)
    PROVE  m \in Letters(n) /\ m.type = type /\ m.ufrag = ufrag /\ m.sdp = sdp
<1>1. m.type = type /\ m.ufrag = ufrag /\ m.sdp = sdp
    BY DEF Message
<1>2. m \in [type : Kinds, ufrag : 0 .. n, sdp : Candidates \cup {EndOfCandidates}]
    BY DEF Message
<1> QED BY <1>1, <1>2, Zenon DEF Letters

LEMMA NoTransportIs ==
    ASSUME NEW n \in Nat
    PROVE  /\ NoTransport \in Transports(n) /\ NoTransport.me = NoUfrag
           /\ NoTransport.remote = NoUfrag /\ NoTransport.pending = <<>> /\ NoTransport.keys = {}
           /\ ~NoTransport.remote_done /\ ~NoTransport.gathering /\ NoTransport.seen = {}
           /\ ~NoTransport.local_done /\ TransportOK(NoTransport)
<1>1. NoTransport \in Transports(n)
    BY DEF NoTransport, Transports, NoUfrag
<1>2. /\ NoTransport.me = NoUfrag
      /\ NoTransport.remote = NoUfrag /\ NoTransport.pending = <<>> /\ NoTransport.keys = {}
      /\ ~NoTransport.remote_done /\ ~NoTransport.gathering /\ NoTransport.seen = {}
      /\ ~NoTransport.local_done
    BY DEF NoTransport
<1>3. Early(NoTransport.pending)
    BY <1>2, NegotiationAssumption DEF Early
<1> QED BY <1>1, <1>2, <1>3 DEF TransportOK

\* An empty connection, whether it is to be used or not.
IsEmpty(k) == k = NoConnection \/ k = NewConnection

LEMMA EmptyIs ==
    ASSUME NEW n \in Nat, NEW k, IsEmpty(k)
    PROVE  /\ k \in Connections(n) /\ k.t = NoTransport /\ k.pending = <<>> /\ Held(k) = {}
           /\ ConnectionOK(k) /\ k.exists = (k = NewConnection)
<1>1. /\ NoConnection \in Connections(n) /\ NoConnection.t = NoTransport /\ NoConnection.pending = <<>>
      /\ NoConnection.exists = FALSE
    BY NoTransportIs DEF NoConnection, Connections
<1>2. /\ NewConnection \in Connections(n) /\ NewConnection.t = NoTransport /\ NewConnection.pending = <<>>
      /\ NewConnection.exists = TRUE
    BY <1>1 DEF NewConnection, Connections
<1>3. /\ k \in Connections(n) /\ k.t = NoTransport /\ k.pending = <<>>
      /\ k.exists = (k = NewConnection) /\ (~k.exists => k = NoConnection)
    BY <1>1, <1>2 DEF IsEmpty
<1>4. Held(k) = {}
    BY <1>3, NoTransportIs DEF Held
<1>5. Early(k.pending)
    BY <1>3, NegotiationAssumption DEF Early
<1> QED BY <1>3, <1>4, <1>5, NoTransportIs DEF ConnectionOK
-----------------------------------------------------------------------------
\* One direction, step by step.

LEMMA OrderedAppends ==
    ASSUME NEW n \in Nat, NEW N \in {n, n + 1}, NEW S, NEW k, Ordered(n, S, k),
           NEW m \in Letters(N), m.type \in Descriptions => m.ufrag = n + 1
    PROVE  Ordered(N, Append(S, m), k)
<1>0. /\ S \in Seq(Letters(n)) /\ k \in Connections(n) /\ ConnectionOK(k) /\ Behind(S) /\ Passed(S, k)
    BY DEF Ordered
<1>1. S \in Seq(Letters(n + 1)) /\ m \in Letters(n + 1)
    BY <1>0, LettersGrow, SeqGrows
<1>2. S \in Seq(Letters(N)) /\ k \in Connections(N)
    BY <1>0, <1>1, ConnectionsGrow
<1>3. Append(S, m) \in Seq(Letters(N))
    BY <1>2
<1>4. Behind(Append(S, m))
    BY <1>0, <1>1, BehindAppend
<1>5. ASSUME NEW u \in 0 .. n, Coming(Append(S, m), u) PROVE Coming(S, u)
  <2>1. ~(m.type \in Descriptions /\ m.ufrag = u)
    BY <1>5
  <2> QED BY <1>1, <1>5, <2>1, ComingAppend
<1>6. ASSUME NEW x \in Held(k) PROVE ~Coming(Append(S, m), x.ufrag)
  <2>1. x \in Letters(n)
    BY <1>0, HeldAre
  <2>2. x.ufrag \in 0 .. n
    BY <2>1, LetterIs
  <2> QED BY <1>0, <1>5, <2>2 DEF Passed
<1>7. k.t.remote_done => ~Coming(Append(S, m), k.t.remote)
  <2>1. k.t.remote \in 0 .. n
    BY <1>0, ConnectionFields, TransportFields
  <2> QED BY <1>0, <1>5, <2>1 DEF Passed
<1>8. Passed(Append(S, m), k)
    BY <1>6, <1>7 DEF Passed
<1> QED BY <1>0, <1>2, <1>3, <1>4, <1>8 DEF Ordered

\* A connection takes the first message, or does not.
LEMMA OrderedPops ==
    ASSUME NEW n \in Nat, NEW S, NEW k, Ordered(n, S, k), S # <<>>,
           NEW e \in Connections(n), ConnectionOK(e),
           \A x \in Held(e) : x \in Held(k) \/ (x = S[1] /\ x.type = "candidate"),
           e.t.remote_done => \/ k.t.remote_done /\ e.t.remote = k.t.remote
                              \/ S[1].type = "candidate" /\ e.t.remote = S[1].ufrag
    PROVE  Ordered(n, Tail(S), e)
<1>0. S \in Seq(Letters(n)) /\ Behind(S) /\ Passed(S, k)
    BY DEF Ordered
<1>1. Tail(S) \in Seq(Letters(n)) /\ Behind(Tail(S))
    BY <1>0, BehindTail
<1>2. S[1].type = "candidate" => ~Coming(Tail(S), S[1].ufrag)
    BY <1>0, CandidateIsPast
<1>3. \A u : Coming(Tail(S), u) => Coming(S, u)
    BY <1>0, ComingTail
<1>4. ASSUME NEW x \in Held(e) PROVE ~Coming(Tail(S), x.ufrag)
    BY <1>0, <1>2, <1>3 DEF Passed
<1>5. e.t.remote_done => ~Coming(Tail(S), e.t.remote)
    BY <1>0, <1>2, <1>3 DEF Passed
<1>6. Passed(Tail(S), e)
    BY <1>4, <1>5 DEF Passed
<1> QED BY <1>1, <1>6 DEF Ordered

\* The connection is replaced while the way stays.
LEMMA SoundEmpties ==
    ASSUME NEW n \in Nat, NEW l, NEW S, NEW k, NEW q, Sound(n, l, S, k, q), NEW e, IsEmpty(e)
    PROVE  Sound(n, l, S, e, q)
<1>1. /\ e \in Connections(n) /\ e.t = NoTransport /\ Held(e) = {} /\ ConnectionOK(e)
    BY EmptyIs
<1>2. NoTransport.remote = NoUfrag /\ ~NoTransport.remote_done
    BY NoTransportIs
<1>3. Passed(S, e)
    BY <1>1, <1>2 DEF Passed
<1>4. Ordered(n, S, e)
    BY <1>1, <1>3 DEF Sound, Ordered
<1>5. l = 0 => Whole(S, e.t, q)
  <2> SUFFICES ASSUME l = 0 PROVE Whole(S, e.t, q)
    OBVIOUS
  <2>1. Ordered(n, S, k) /\ Whole(S, k.t, q)
    BY DEF Sound
  <2>2. e.t.remote = NoUfrag /\ ~e.t.remote_done
    BY <1>1, <1>2
  <2> QED BY <2>1, <2>2, AgentLost
<1> QED BY <1>4, <1>5 DEF Sound

\* The first message meets a connection without a description.
LEMMA SoundMisses ==
    ASSUME NEW n \in Nat, NEW l, NEW S, NEW k, NEW q, Sound(n, l, S, k, q), S # <<>>,
           q.seen \subseteq Candidates,
           NEW e \in Connections(n), ConnectionOK(e), e.t.remote = NoUfrag,
           \A x \in Held(e) : x \in Held(k) \/ (x = S[1] /\ x.type = "candidate")
    PROVE  Sound(n, l, Tail(S), e, q)
<1>0. S \in Seq(Letters(n)) /\ Behind(S) /\ Ordered(n, S, k)
    BY DEF Sound, Ordered
<1>1. ~e.t.remote_done /\ e.t.keys = {}
    BY DEF ConnectionOK, TransportOK
<1>2. Ordered(n, Tail(S), e)
    BY <1>0, <1>1, OrderedPops
<1>3. l = 0 => Whole(Tail(S), e.t, q)
  <2> SUFFICES ASSUME l = 0 PROVE Whole(Tail(S), e.t, q)
    OBVIOUS
  <2>1. Whole(S, k.t, q)
    BY DEF Sound
  <2>2. Whole(S, e.t, q)
    BY <1>0, <1>1, <2>1, AgentLost
  <2>3. Taken(Tail(S), e.t, S[1])
    <3>1. S[1] \in Letters(n)
      BY <1>0
    <3>2. S[1].type = "candidate" => S[1].ufrag # NoUfrag
      BY <3>1, LetterIs
    <3>3. S[1].type = "candidate" => ~Coming(Tail(S), S[1].ufrag)
      BY <1>0, CandidateIsPast
    <3> QED BY <3>2, <3>3 DEF Taken, Open
  <2>4. DoneIsComplete(e.t)
    BY <1>1 DEF DoneIsComplete
  <2> QED BY <1>0, <2>2, <2>3, <2>4, WholePops
<1> QED BY <1>2, <1>3 DEF Sound

\* The first message meets an agent, which takes it if it is its candidate.
LEMMA SoundTakes ==
    ASSUME NEW n \in Nat, NEW l, NEW S, NEW k, NEW q, Sound(n, l, S, k, q), S # <<>>,
           q.seen \subseteq Candidates,
           NEW e \in Connections(n), ConnectionOK(e), e.t.remote = k.t.remote,
           k.t.keys \subseteq e.t.keys, k.t.remote_done => e.t.remote_done,
           \A x \in Held(e) : x \in Held(k) \/ (x = S[1] /\ x.type = "candidate"),
           e.t.remote_done => k.t.remote_done \/ (S[1].type = "candidate" /\ e.t.remote = S[1].ufrag),
           l = 0 => Taken(Tail(S), e.t, S[1]) /\ DoneIsComplete(e.t)
    PROVE  Sound(n, l, Tail(S), e, q)
<1>0. S \in Seq(Letters(n)) /\ Ordered(n, S, k)
    BY DEF Sound, Ordered
<1>1. Ordered(n, Tail(S), e)
    BY <1>0, OrderedPops
<1>2. l = 0 => Whole(Tail(S), e.t, q)
  <2> SUFFICES ASSUME l = 0 PROVE Whole(Tail(S), e.t, q)
    OBVIOUS
  <2>1. Whole(S, k.t, q)
    BY DEF Sound
  <2> QED BY <1>0, <2>1, WholePops
<1> QED BY <1>1, <1>2 DEF Sound

\* The first message is a description, and is accepted.
LEMMA SoundOpens ==
    ASSUME NEW n \in Nat, NEW l, NEW S, NEW k, NEW q, Sound(n, l, S, k, q), S # <<>>,
           q.seen \subseteq Candidates, S[1].type \in Descriptions, k.t.remote = NoUfrag,
           NEW e \in Connections(n), ConnectionOK(e), e.t.remote = S[1].ufrag, ~e.t.remote_done,
           \A x \in Held(e) : x \in Held(k)
    PROVE  Sound(n, l, Tail(S), e, q)
<1>0. S \in Seq(Letters(n)) /\ Ordered(n, S, k) /\ ConnectionOK(k)
    BY DEF Sound, Ordered
<1>1. Ordered(n, Tail(S), e)
    BY <1>0, OrderedPops
<1>2. l = 0 => Whole(Tail(S), e.t, q)
  <2> SUFFICES ASSUME l = 0 PROVE Whole(Tail(S), e.t, q)
    OBVIOUS
  <2>1. Whole(S, k.t, q) /\ ~k.t.remote_done
    BY <1>0 DEF Sound, ConnectionOK, TransportOK
  <2> QED BY <1>0, <2>1, WholeOpens
<1> QED BY <1>1, <1>2 DEF Sound

LEMMA SoundGrows ==
    ASSUME NEW n \in Nat, NEW l, NEW S, NEW k, NEW q, Sound(n, l, S, k, q)
    PROVE  Sound(n + 1, l, S, k, q)
BY OrderedGrows DEF Sound

LEMMA SoundNewSender ==
    ASSUME NEW n, NEW l, NEW S, NEW k, NEW q, Sound(n, l, S, k, q), NEW r, r.seen = {}, ~r.local_done
    PROVE  Sound(n, l, S, k, r)
BY SenderNew DEF Sound

LEMMA SoundSameSender ==
    ASSUME NEW n, NEW l, NEW S, NEW k, NEW q, Sound(n, l, S, k, q), NEW r, SameSender(q, r)
    PROVE  Sound(n, l, S, k, r)
BY SenderSame DEF Sound

\* A message is lost.
LEMMA SoundLoses ==
    ASSUME NEW n, NEW l \in Nat, NEW S, NEW k, NEW q, Sound(n, l, S, k, q), NEW r
    PROVE  Sound(n, l + 1, S, k, r)
<1>1. l + 1 # 0
    OBVIOUS
<1> QED BY <1>1 DEF Sound

\* A transport that has just been made sends its description.
LEMMA SoundDescribes ==
    ASSUME NEW n \in Nat, NEW l, NEW S, NEW k, NEW q, Sound(n, l, S, k, q),
           NEW m \in Letters(n + 1), m.type \in Descriptions, m.ufrag = n + 1,
           NEW r, r.seen = {}, ~r.local_done
    PROVE  Sound(n + 1, l, Append(S, m), k, r)
<1>0. Ordered(n, S, k)
    BY DEF Sound
<1>1. Ordered(n + 1, Append(S, m), k)
    BY <1>0, OrderedAppends
<1>2. l = 0 => Whole(Append(S, m), k.t, r)
  <2> SUFFICES ASSUME l = 0 PROVE Whole(Append(S, m), k.t, r)
    OBVIOUS
  <2>1. Whole(S, k.t, r)
    BY SenderNew DEF Sound
  <2>2. S \in Seq(Letters(n)) /\ S \in Seq(Letters(n + 1)) /\ m.type # "candidate"
    BY <1>0, LettersGrow, SeqGrows DEF Ordered, Descriptions
  <2> QED BY <2>1, <2>2, WholeAppends
<1> QED BY <1>1, <1>2 DEF Sound

\* The server tells of a peer.
LEMMA SoundAnnounces ==
    ASSUME NEW n \in Nat, NEW l, NEW S, NEW k, NEW q, Sound(n, l, S, k, q), q.me \in 0 .. n,
           NEW m \in Letters(n), m.type \in {"join", "leave"}
    PROVE  Sound(n, l, Append(S, m), k, q)
<1>0. Ordered(n, S, k) /\ m.type \notin Descriptions /\ m.type # "candidate" /\ m \in Letters(n + 1)
    BY LettersGrow DEF Sound, Descriptions
<1>1. Ordered(n, Append(S, m), k)
    BY <1>0, OrderedAppends
<1>2. l = 0 => Whole(Append(S, m), k.t, q)
  <2> SUFFICES ASSUME l = 0 PROVE Whole(Append(S, m), k.t, q)
    OBVIOUS
  <2>1. Whole(S, k.t, q)
    BY DEF Sound
  <2>2. S \in Seq(Letters(n)) /\ S \in Seq(Letters(n + 1))
    BY <1>0, LettersGrow, SeqGrows DEF Ordered
  <2> QED BY <1>0, <2>1, <2>2, WholeAppends
<1> QED BY <1>1, <1>2 DEF Sound

\* A transport sends a candidate, or the marker after all of them.
LEMMA SoundSends ==
    ASSUME NEW n \in Nat, NEW l, NEW S, NEW k, NEW q, Sound(n, l, S, k, q), q.me # NoUfrag,
           NEW m \in Letters(n), m.type = "candidate", m.ufrag = q.me,
           NEW r, r.me = q.me,
           \A c \in r.seen : c \in q.seen \/ c = m.sdp,
           r.local_done => q.local_done \/ m.sdp = EndOfCandidates,
           m.sdp = EndOfCandidates => Candidates \subseteq q.seen
    PROVE  Sound(n, l, Append(S, m), k, r)
<1>0. Ordered(n, S, k) /\ S \in Seq(Letters(n)) /\ m.type \notin Descriptions
    BY DEF Sound, Ordered, Descriptions
<1>1. Ordered(n, Append(S, m), k)
    BY <1>0, OrderedAppends
<1>2. l = 0 => Whole(Append(S, m), k.t, r)
  <2> SUFFICES ASSUME l = 0 PROVE Whole(Append(S, m), k.t, r)
    OBVIOUS
  <2>1. Whole(S, k.t, q)
    BY DEF Sound
  <2> QED BY <1>0, <2>1, WholeSends
<1> QED BY <1>1, <1>2 DEF Sound
-----------------------------------------------------------------------------
\* What a transport makes of a candidate.

LEMMA QueuedIs ==
    ASSUME NEW n \in Nat, NEW s \in Seq(Letters(n)), Early(s), NEW m \in Letters(n),
           m.type = "candidate", NEW e, e = Queued(s, m)
    PROVE  /\ e \in Seq(Letters(n)) /\ Early(e)
           /\ \A i \in DOMAIN e : e[i] = m \/ \E j \in DOMAIN s : e[i] = s[j]
<1>1. CASE e = s
    BY <1>1
<1>2. CASE e = Append(s, m) /\ Len(s) < MaxPending
  <2>1. \A i \in DOMAIN e : (i \in DOMAIN s /\ e[i] = s[i]) \/ e[i] = m
    BY <1>2
  <2>2. Len(e) <= MaxPending /\ e \in Seq(Letters(n))
    BY <1>2, NegotiationAssumption
  <2> QED BY <2>1, <2>2 DEF Early
<1> QED BY <1>1, <1>2 DEF Queued

SameLife(t, e) ==
    /\ e.me = t.me /\ e.gathering = t.gathering /\ e.seen = t.seen /\ e.local_done = t.local_done

LEMMA AddedIs ==
    ASSUME NEW n \in Nat, NEW t \in Transports(n), TransportOK(t), t.me # NoUfrag,
           NEW m \in Letters(n), m.type = "candidate", NEW e, e = AddRemoteCandidate(t, m)
    PROVE  /\ e \in Transports(n) /\ TransportOK(e) /\ SameLife(t, e) /\ e.remote = t.remote
           /\ (t.remote # NoUfrag /\ m.ufrag # t.remote) => e = t
           /\ t.remote = NoUfrag =>
                \A i \in DOMAIN e.pending : e.pending[i] = m \/ \E j \in DOMAIN t.pending : e.pending[i] = t.pending[j]
           /\ (t.remote # NoUfrag /\ m.ufrag = t.remote /\ m.sdp = EndOfCandidates) =>
                e.keys = t.keys /\ e.remote_done
           /\ (t.remote # NoUfrag /\ m.ufrag = t.remote /\ m.sdp # EndOfCandidates) =>
                IF t.remote_done THEN e = t ELSE e.keys = t.keys \cup {m} /\ ~e.remote_done
<1>0. /\ t.remote \in 0 .. n /\ t.pending \in Seq(Letters(n)) /\ t.keys \subseteq Letters(n)
      /\ Early(t.pending)
    BY TransportFields DEF TransportOK
<1>1. CASE t.remote # NoUfrag /\ m.ufrag # t.remote
  <2>1. e = t
    BY <1>1 DEF AddRemoteCandidate, OtherGeneration
  <2> QED BY <1>1, <2>1 DEF SameLife
<1>2. CASE t.remote = NoUfrag
  <2>1. PICK s : s = Queued(t.pending, m)
    OBVIOUS
  <2>2. /\ s \in Seq(Letters(n)) /\ Early(s)
        /\ \A i \in DOMAIN s : s[i] = m \/ \E j \in DOMAIN t.pending : s[i] = t.pending[j]
    BY <1>0, <2>1, QueuedIs
  <2>3. e = [t EXCEPT !.pending = s]
    BY <1>2, <2>1 DEF AddRemoteCandidate, OtherGeneration
  <2>4. /\ e \in Transports(n) /\ e.me = t.me /\ e.remote = t.remote /\ e.keys = t.keys /\ e.pending = s
        /\ e.remote_done = t.remote_done /\ e.gathering = t.gathering /\ e.seen = t.seen
        /\ e.local_done = t.local_done
    BY <2>2, <2>3 DEF Transports
  <2>5. TransportOK(e)
    BY <1>2, <2>2, <2>4 DEF TransportOK
  <2> QED BY <1>2, <2>2, <2>4, <2>5 DEF SameLife
<1>3. CASE t.remote # NoUfrag /\ m.ufrag = t.remote /\ m.sdp = EndOfCandidates
  <2>1. e = [t EXCEPT !.remote_done = TRUE]
    BY <1>3 DEF AddRemoteCandidate, OtherGeneration
  <2>2. /\ e \in Transports(n) /\ e.me = t.me /\ e.remote = t.remote /\ e.keys = t.keys
        /\ e.pending = t.pending /\ e.remote_done = TRUE /\ e.gathering = t.gathering
        /\ e.seen = t.seen /\ e.local_done = t.local_done
    BY <2>1 DEF Transports
  <2>3. TransportOK(e)
    BY <1>3, <2>2 DEF TransportOK
  <2> QED BY <1>3, <2>2, <2>3 DEF SameLife
<1>4. CASE t.remote # NoUfrag /\ m.ufrag = t.remote /\ m.sdp # EndOfCandidates /\ t.remote_done
  <2>1. e = t
    BY <1>4 DEF AddRemoteCandidate, OtherGeneration
  <2> QED BY <1>4, <2>1 DEF SameLife
<1>5. CASE t.remote # NoUfrag /\ m.ufrag = t.remote /\ m.sdp # EndOfCandidates /\ ~t.remote_done
  <2>0. PICK K : K = t.keys \cup {m}
    OBVIOUS
  <2>1. e = [t EXCEPT !.keys = K]
    BY <1>5, <2>0 DEF AddRemoteCandidate, OtherGeneration
  <2>a. K \in SUBSET Letters(n)
    BY <1>0, <2>0
  <2>2. /\ e \in Transports(n) /\ e.me = t.me /\ e.remote = t.remote /\ e.keys = K
        /\ e.pending = t.pending /\ e.remote_done = t.remote_done /\ e.gathering = t.gathering
        /\ e.seen = t.seen /\ e.local_done = t.local_done
    BY <2>1, <2>a DEF Transports
  <2>3. TransportOK(e)
    BY <1>5, <2>0, <2>2 DEF TransportOK
  <2> QED BY <1>5, <2>0, <2>2, <2>3 DEF SameLife
<1> QED BY <1>1, <1>2, <1>3, <1>4, <1>5

With(k, t) == [k EXCEPT !.t = t]

Took(n, l, S, k, e, q) ==
    /\ Sound(n, l, Tail(S), e, q) /\ SameLife(k.t, e.t) /\ e.t.remote = k.t.remote
    /\ e.exists

\* The worker passes a candidate to the transport.
LEMMA CandidateApplied ==
    ASSUME NEW n \in Nat, NEW l, NEW S, NEW k, NEW q, Sound(n, l, S, k, q), S # <<>>,
           q.seen \subseteq Candidates, S[1].type = "candidate", k.exists, k.t.me # NoUfrag,
           NEW a, a = AddRemoteCandidate(k.t, S[1]), NEW e, e = With(k, a)
    PROVE  Took(n, l, S, k, e, q)
<1>0. /\ S \in Seq(Letters(n)) /\ k \in Connections(n) /\ ConnectionOK(k) /\ Ordered(n, S, k) /\ Behind(S)
    BY DEF Sound, Ordered
<1>1. PICK m : m = S[1]
    OBVIOUS
<1>2. PICK t : t = k.t
    OBVIOUS
<1>3. m \in Letters(n) /\ t \in Transports(n) /\ TransportOK(t) /\ Early(k.pending)
    BY <1>0, <1>1, <1>2, ConnectionFields DEF ConnectionOK
<1>4. /\ a \in Transports(n) /\ TransportOK(a) /\ SameLife(t, a) /\ a.remote = t.remote
      /\ (t.remote # NoUfrag /\ m.ufrag # t.remote) => a = t
      /\ t.remote = NoUfrag =>
           \A i \in DOMAIN a.pending : a.pending[i] = m \/ \E j \in DOMAIN t.pending : a.pending[i] = t.pending[j]
      /\ (t.remote # NoUfrag /\ m.ufrag = t.remote /\ m.sdp = EndOfCandidates) =>
           a.keys = t.keys /\ a.remote_done
      /\ (t.remote # NoUfrag /\ m.ufrag = t.remote /\ m.sdp # EndOfCandidates) =>
           IF t.remote_done THEN a = t ELSE a.keys = t.keys \cup {m} /\ ~a.remote_done
  <2>1. a = AddRemoteCandidate(t, m) /\ t.me # NoUfrag /\ m.type = "candidate"
    BY <1>1, <1>2
  <2> QED BY <1>3, <2>1, AddedIs
<1>5. e \in Connections(n) /\ e.exists = k.exists /\ e.pending = k.pending /\ e.t = a
  <2>1. k \in Connections(n) /\ a \in Transports(n)
    BY <1>0, <1>4
  <2> QED BY <2>1 DEF Connections, With
<1>6. ConnectionOK(e)
    BY <1>3, <1>4, <1>5 DEF ConnectionOK
<1>7. m.type = "candidate" /\ m.ufrag # NoUfrag /\ m.sdp \in Candidates \cup {EndOfCandidates}
    BY <1>1, <1>3, LetterIs
<1>8. ~Coming(Tail(S), m.ufrag)
    BY <1>0, <1>1, CandidateIsPast
<1>9. CASE t.remote = NoUfrag
  <2>1. a.keys = {}
    BY <1>4, <1>9 DEF TransportOK
  <2>2. ASSUME NEW x \in Held(e) PROVE x \in Held(k) \/ (x = S[1] /\ x.type = "candidate")
    <3>1. CASE x \in {k.pending[i] : i \in DOMAIN k.pending}
      BY <3>1 DEF Held
    <3>2. CASE x \in {a.pending[i] : i \in DOMAIN a.pending}
      <4>1. x = m \/ \E j \in DOMAIN t.pending : x = t.pending[j]
        BY <1>4, <1>9, <3>2
      <4> QED BY <1>1, <1>2, <1>7, <4>1 DEF Held
    <3> QED BY <1>5, <2>1, <2>2, <3>1, <3>2 DEF Held
  <2>3. Sound(n, l, Tail(S), e, q)
    <3>1. e.t.remote = NoUfrag
      BY <1>4, <1>5, <1>9
    <3> QED BY <1>5, <1>6, <2>2, <3>1, SoundMisses
  <2> QED BY <1>2, <1>4, <1>5, <2>3 DEF Took
<1>10. CASE t.remote # NoUfrag
  <2>0. t.pending = <<>> /\ a.pending = <<>>
    BY <1>3, <1>4, <1>10 DEF TransportOK
  <2>1. a.keys = t.keys \/ (a.keys = t.keys \cup {m})
    BY <1>4, <1>10
  <2>2. ASSUME NEW x \in Held(e) PROVE x \in Held(k) \/ (x = S[1] /\ x.type = "candidate")
    <3>1. CASE x \in {k.pending[i] : i \in DOMAIN k.pending}
      BY <3>1 DEF Held
    <3>2. CASE x \in a.keys
      BY <1>1, <1>2, <1>7, <2>1, <3>2 DEF Held
    <3> QED BY <1>5, <2>0, <2>2, <3>1, <3>2 DEF Held
  <2>3. k.t.keys \subseteq e.t.keys /\ e.t.remote = k.t.remote
    BY <1>2, <1>4, <1>5, <2>1
  <2>4. k.t.remote_done => e.t.remote_done
    BY <1>2, <1>4, <1>5, <1>10
  <2>5. e.t.remote_done => k.t.remote_done \/ (S[1].type = "candidate" /\ e.t.remote = S[1].ufrag)
    BY <1>1, <1>2, <1>4, <1>5, <1>7, <1>10
  <2>6. ASSUME l = 0 PROVE Taken(Tail(S), e.t, S[1]) /\ DoneIsComplete(e.t)
    <3>1. MarkersLast(S, t) /\ DoneIsComplete(t)
      BY <1>2, <2>6 DEF Sound, Whole
    <3>2. CASE m.ufrag # t.remote
      <4>1. a = t /\ ~Open(Tail(S), t, m.ufrag)
        BY <1>4, <1>8, <1>10, <3>2 DEF Open
      <4> QED BY <1>1, <1>5, <3>1, <4>1 DEF Taken
    <3>3. CASE m.ufrag = t.remote /\ m.sdp = EndOfCandidates
      <4>1. a.keys = t.keys /\ a.remote_done
        BY <1>4, <1>10, <3>3
      <4>2. 1 \in DOMAIN S
        BY <1>0
      <4>3. Open(S, t, S[1].ufrag)
        BY <1>1, <3>3 DEF Open
      <4>4. \A c \in Candidates : Has(S, t, S[1].ufrag, c, 1)
        BY <1>1, <1>7, <3>1, <3>3, <4>2, <4>3, Zenon DEF MarkersLast
      <4>5. \A j \in DOMAIN S : ~(j < 1)
        BY <1>0
      <4>6. \A c \in Candidates : \E x \in t.keys : x.sdp = c
        BY <4>4, <4>5, Zenon DEF Has
      <4> QED BY <1>1, <1>4, <1>5, <3>3, <4>1, <4>6 DEF Taken, DoneIsComplete
    <3>4. CASE m.ufrag = t.remote /\ m.sdp # EndOfCandidates /\ t.remote_done
      <4>1. a = t
        BY <1>4, <1>10, <3>4
      <4>2. \E x \in t.keys : x.sdp = m.sdp
        BY <1>7, <3>1, <3>4 DEF DoneIsComplete
      <4> QED BY <1>1, <1>5, <3>1, <3>4, <4>1, <4>2 DEF Taken
    <3>5. CASE m.ufrag = t.remote /\ m.sdp # EndOfCandidates /\ ~t.remote_done
      <4>1. a.keys = t.keys \cup {m} /\ ~a.remote_done
        BY <1>4, <1>10, <3>5
      <4> QED BY <1>1, <1>4, <1>5, <3>5, <4>1 DEF Taken, DoneIsComplete
    <3> QED BY <3>2, <3>3, <3>4, <3>5
  <2>7. Sound(n, l, Tail(S), e, q)
    BY <1>5, <1>6, <2>2, <2>3, <2>4, <2>5, <2>6, SoundTakes
  <2> QED BY <1>2, <1>4, <1>5, <2>7 DEF Took
<1> QED BY <1>9, <1>10 DEF Took

\* A candidate waits in the connection for a transport.
LEMMA CandidateWaits ==
    ASSUME NEW n \in Nat, NEW l, NEW S, NEW k, NEW q, Sound(n, l, S, k, q), S # <<>>,
           q.seen \subseteq Candidates, S[1].type = "candidate", k.exists, k.t.me = NoUfrag,
           NEW e, e = [k EXCEPT !.pending = Queued(@, S[1])]
    PROVE  Sound(n, l, Tail(S), e, q) /\ e.t = k.t /\ e.exists
<1>0. /\ S \in Seq(Letters(n)) /\ k \in Connections(n) /\ ConnectionOK(k)
    BY DEF Sound, Ordered
<1>1. PICK m \in Letters(n) : m = S[1]
    BY <1>0
<1>2. k.pending \in Seq(Letters(n)) /\ Early(k.pending) /\ TransportOK(k.t) /\ k.t = NoTransport
    BY <1>0, ConnectionFields DEF ConnectionOK, TransportOK
<1>3. PICK s : s = Queued(k.pending, m)
    OBVIOUS
<1>4. /\ s \in Seq(Letters(n)) /\ Early(s)
      /\ \A i \in DOMAIN s : s[i] = m \/ \E j \in DOMAIN k.pending : s[i] = k.pending[j]
    BY <1>1, <1>2, <1>3, QueuedIs
<1>5. e = [k EXCEPT !.pending = s]
    BY <1>0, <1>1, <1>3 DEF Connections
<1>6. e \in Connections(n) /\ e.exists = k.exists /\ e.pending = s /\ e.t = k.t
    BY <1>0, <1>4, <1>5 DEF Connections
<1>7. ConnectionOK(e)
    BY <1>2, <1>4, <1>6 DEF ConnectionOK
<1>8. ASSUME NEW x \in Held(e) PROVE x \in Held(k) \/ (x = S[1] /\ x.type = "candidate")
  <2>1. CASE x \in {s[i] : i \in DOMAIN s}
    <3>1. x = m \/ \E j \in DOMAIN k.pending : x = k.pending[j]
      BY <1>4, <2>1
    <3> QED BY <1>1, <3>1 DEF Held
  <2>2. CASE x \notin {s[i] : i \in DOMAIN s}
    BY <1>6, <1>8, <2>2 DEF Held
  <2> QED BY <2>1, <2>2
<1>9. e.t.remote = NoUfrag
    BY <1>2, <1>6, NoTransportIs
<1>10. Sound(n, l, Tail(S), e, q)
    BY <1>6, <1>7, <1>8, <1>9, SoundMisses
<1> QED BY <1>6, <1>10

\* The first message is dropped, or of no interest to the agent.
LEMMA Dropped ==
    ASSUME NEW n \in Nat, NEW l, NEW S, NEW k, NEW q, Sound(n, l, S, k, q), S # <<>>,
           q.seen \subseteq Candidates, S[1].type # "candidate" \/ ~k.exists
    PROVE  Sound(n, l, Tail(S), k, q)
<1>0. /\ S \in Seq(Letters(n)) /\ k \in Connections(n) /\ ConnectionOK(k)
    BY DEF Sound, Ordered
<1>1. CASE ~k.exists
  <2>1. k.t.remote = NoUfrag
    <3>1. k = NoConnection
      BY <1>0, <1>1 DEF ConnectionOK
    <3>2. k.t = NoTransport
      BY <3>1, EmptyIs DEF IsEmpty
    <3> QED BY <3>2, NoTransportIs
  <2> QED BY <1>0, <2>1, SoundMisses
<1>2. CASE S[1].type # "candidate"
  <2>1. l = 0 => Taken(Tail(S), k.t, S[1]) /\ DoneIsComplete(k.t)
    BY <1>2 DEF Taken, Sound, Whole
  <2> QED BY <1>0, <2>1, SoundTakes
<1> QED BY <1>1, <1>2

\* The connection goes with the message.
LEMMA Emptied ==
    ASSUME NEW n \in Nat, NEW l, NEW S, NEW k, NEW q, Sound(n, l, S, k, q), S # <<>>,
           q.seen \subseteq Candidates, NEW e, IsEmpty(e)
    PROVE  Sound(n, l, Tail(S), e, q)
<1>1. /\ e \in Connections(n) /\ e.t = NoTransport /\ Held(e) = {} /\ ConnectionOK(e)
    BY EmptyIs
<1>2. e.t.remote = NoUfrag
    BY <1>1, NoTransportIs
<1> QED BY <1>1, <1>2, SoundMisses

SameTransport(t, e) ==
    SameLife(t, e) /\ SameAgent(t, e) /\ e.pending = t.pending

\* Early candidates that are not of the description's generation change nothing.
LEMMA ReplayedNone ==
    ASSUME NEW n \in Nat, NEW t \in Transports(n), NEW s \in Seq(Letters(n)), t.remote # NoUfrag,
           \A i \in DOMAIN s : s[i].ufrag # t.remote, NEW e, e = Replayed(t, s)
    PROVE  e \in Transports(n) /\ SameTransport(t, e)
<1>0. t.keys \subseteq Letters(n) /\ t.remote_done \in BOOLEAN
    BY TransportFields
<1>1. {i \in DOMAIN s : s[i].ufrag = t.remote} = {}
    OBVIOUS
<1> DEFINE marks == {i \in {j \in DOMAIN s : s[j].ufrag = t.remote} : s[i].sdp = EndOfCandidates}
           given == {i \in {j \in DOMAIN s : s[j].ufrag = t.remote} :
                        ~t.remote_done /\ \A j \in marks : i < j}
<1>2. marks = {} /\ given = {}
    BY <1>1
<1>3. e = [t EXCEPT !.keys = @ \cup {s[i] : i \in given}, !.remote_done = @ \/ marks # {}]
    BY DEF Replayed
<1> HIDE DEF marks, given
<1>4. PICK K : K = t.keys \cup {s[i] : i \in given}
    OBVIOUS
<1>5. K = t.keys
    BY <1>2, <1>4
<1> DEFINE d == t.remote_done \/ marks # {}
<1>6. d \in BOOLEAN /\ d = t.remote_done
    BY <1>0, <1>2
<1>7. e = [t EXCEPT !.keys = K, !.remote_done = d]
    BY <1>3, <1>4 DEF Transports
<1> HIDE DEF d
<1>8. e = [t EXCEPT !.keys = t.keys, !.remote_done = t.remote_done]
    BY <1>5, <1>6, <1>7
<1>9. e \in Transports(n)
    BY <1>0, <1>8 DEF Transports
<1>10. /\ e.me = t.me /\ e.gathering = t.gathering /\ e.seen = t.seen /\ e.local_done = t.local_done
       /\ e.remote = t.remote /\ e.keys = t.keys /\ e.remote_done = t.remote_done /\ e.pending = t.pending
    BY <1>8 DEF Transports
<1> QED BY <1>9, <1>10 DEF SameTransport, SameLife, SameAgent

LEMMA RemoteSet ==
    ASSUME NEW n \in Nat, NEW t \in Transports(n), NEW u \in 0 .. n, u # NoUfrag,
           \A i \in DOMAIN t.pending : t.pending[i].ufrag # u, NEW e, e = SetRemoteSdp(t, u)
    PROVE  /\ e \in Transports(n) /\ SameLife(t, e) /\ e.remote = u /\ e.pending = <<>>
           /\ e.keys = t.keys /\ e.remote_done = t.remote_done
<1>0. t.pending \in Seq(Letters(n))
    BY TransportFields
<1>1. PICK r : r = [t EXCEPT !.remote = u, !.pending = <<>>]
    OBVIOUS
<1>2. r \in Transports(n)
  <2>0. <<>> \in Seq(Letters(n))
    OBVIOUS
  <2>1. PICK s \in Seq(Letters(n)) : s = <<>>
    BY <2>0, Zenon
  <2>2. r = [t EXCEPT !.remote = u, !.pending = s]
    BY <1>1, <2>1
  <2> QED BY <2>2 DEF Transports
<1>3. /\ r.me = t.me /\ r.gathering = t.gathering /\ r.seen = t.seen /\ r.local_done = t.local_done
      /\ r.remote = u /\ r.keys = t.keys /\ r.remote_done = t.remote_done /\ r.pending = <<>>
    BY <1>1 DEF Transports
<1>4. e = Replayed(r, t.pending)
    BY <1>1 DEF SetRemoteSdp
<1>5. e \in Transports(n) /\ SameTransport(r, e)
    BY <1>0, <1>2, <1>3, <1>4, ReplayedNone
<1> QED BY <1>3, <1>5 DEF SameTransport, SameLife, SameAgent

\* Nothing that is held is of a generation whose description is coming.
LEMMA HeldIsOther ==
    ASSUME NEW n \in Nat, NEW S, NEW k, Ordered(n, S, k), S # <<>>, S[1].type \in Descriptions
    PROVE  /\ \A i \in DOMAIN k.pending : k.pending[i].ufrag # S[1].ufrag
           /\ \A i \in DOMAIN k.t.pending : k.t.pending[i].ufrag # S[1].ufrag
           /\ S[1].ufrag \in 0 .. n /\ S[1].ufrag # NoUfrag /\ S[1].type # "candidate"
<1>1. S \in Seq(Letters(n)) /\ Passed(S, k)
    BY DEF Ordered
<1>2. 1 \in DOMAIN S /\ S[1] \in Letters(n)
    BY <1>1
<1>3. Coming(S, S[1].ufrag)
    BY <1>2 DEF Coming
<1>4. \A x \in Held(k) : x.ufrag # S[1].ufrag
    BY <1>1, <1>3 DEF Passed
<1>5. S[1].ufrag \in 0 .. n /\ S[1].ufrag # NoUfrag
    BY <1>2, LetterIs
<1>6. S[1].type # "candidate"
    BY DEF Descriptions
<1> QED BY <1>4, <1>5, <1>6 DEF Held

GotAnswer(n, l, S, k, e, q) ==
    /\ Sound(n, l, Tail(S), e, q) /\ e.exists /\ SameSender(k.t, e.t)
    /\ e.t.remote = S[1].ufrag /\ (~k.t.local_done => e.t.gathering)

LEMMA AnswerApplied ==
    ASSUME NEW n \in Nat, NEW l, NEW S, NEW k, NEW q, Sound(n, l, S, k, q), S # <<>>,
           q.seen \subseteq Candidates, S[1].type \in Descriptions, k.exists, k.t.me # NoUfrag,
           Acceptable(k.t, S[1].ufrag),
           NEW a, a = Answered(k.t, S[1].ufrag), NEW e, e = With(k, a)
    PROVE  GotAnswer(n, l, S, k, e, q)
<1>0. /\ S \in Seq(Letters(n)) /\ k \in Connections(n) /\ ConnectionOK(k) /\ Ordered(n, S, k)
    BY DEF Sound, Ordered
<1>1. PICK t \in Transports(n) : t = k.t
    BY <1>0, ConnectionFields
<1>2. PICK u : u = S[1].ufrag
    OBVIOUS
<1>3. /\ \A i \in DOMAIN t.pending : t.pending[i].ufrag # u
      /\ u \in 0 .. n /\ u # NoUfrag /\ S[1].type # "candidate"
    BY <1>0, <1>1, <1>2, HeldIsOther
<1>4. PICK r : r = SetRemoteSdp(t, u)
    OBVIOUS
<1>5. /\ r \in Transports(n) /\ SameLife(t, r) /\ r.remote = u /\ r.pending = <<>>
      /\ r.keys = t.keys /\ r.remote_done = t.remote_done
    BY <1>3, <1>4, RemoteSet
<1>6. a = [r EXCEPT !.gathering = ~t.local_done] /\ t.local_done \in BOOLEAN
    BY <1>1, <1>2, <1>4, TransportFields DEF Answered
<1>7. a \in Transports(n)
    BY <1>5, <1>6 DEF Transports
<1>8. /\ a.me = r.me /\ a.seen = r.seen /\ a.local_done = r.local_done /\ a.remote = r.remote
      /\ a.pending = r.pending /\ a.keys = r.keys /\ a.remote_done = r.remote_done
      /\ a.gathering = ~t.local_done
    BY <1>5, <1>6 DEF Transports
<1>9. e \in Connections(n) /\ e.exists = k.exists /\ e.pending = k.pending /\ e.t = a
    BY <1>0, <1>7 DEF Connections, With
<1>10. TransportOK(t) /\ t.me # NoUfrag /\ Early(k.pending) /\ t.remote \in {NoUfrag, u}
    BY <1>0, <1>1, <1>2 DEF ConnectionOK, Acceptable
<1>11. TransportOK(a)
  <2>1. Early(a.pending)
    BY <1>5, <1>8, NegotiationAssumption DEF Early
  <2>2. a.me # NoUfrag /\ a.remote = u /\ a.pending = <<>>
    BY <1>5, <1>8, <1>10 DEF SameLife
  <2>3. \A m \in a.keys : m.type = "candidate" /\ m.ufrag = a.remote /\ m.sdp # EndOfCandidates
    BY <1>5, <1>8, <1>10 DEF TransportOK
  <2> QED BY <1>3, <2>1, <2>2, <2>3 DEF TransportOK
<1>12. ConnectionOK(e)
    BY <1>9, <1>10, <1>11 DEF ConnectionOK
<1>13. \A x \in Held(e) : x \in Held(k)
  <2>1. e.t.keys = k.t.keys /\ e.pending = k.pending /\ e.t.pending = <<>>
    BY <1>1, <1>5, <1>8, <1>9
  <2> QED BY <2>1 DEF Held
<1>14. Sound(n, l, Tail(S), e, q)
  <2>1. CASE t.remote = NoUfrag
    <3>1. ~e.t.remote_done /\ e.t.remote = S[1].ufrag /\ k.t.remote = NoUfrag
      BY <1>1, <1>2, <1>5, <1>8, <1>9, <1>10, <2>1 DEF TransportOK
    <3> QED BY <1>9, <1>12, <1>13, <3>1, SoundOpens
  <2>2. CASE t.remote = u
    <3>1. e.t.remote = k.t.remote /\ k.t.keys = e.t.keys /\ e.t.remote_done = k.t.remote_done
      BY <1>1, <1>5, <1>8, <1>9, <2>2
    <3>2. l = 0 => Taken(Tail(S), e.t, S[1]) /\ DoneIsComplete(e.t)
      BY <1>3, <3>1 DEF Taken, Sound, Whole, DoneIsComplete
    <3> QED BY <1>9, <1>12, <1>13, <3>1, <3>2, SoundTakes
  <2> QED BY <1>10, <2>1, <2>2
<1>15. SameSender(k.t, e.t)
    BY <1>1, <1>5, <1>8, <1>9 DEF SameSender, SameLife
<1> QED BY <1>1, <1>2, <1>5, <1>8, <1>9, <1>14, <1>15 DEF GotAnswer

\* A transport that has just been made.
LEMMA NewTransportIs ==
    ASSUME NEW n \in Nat, n = ufrags
    PROVE  /\ NewTransport \in Transports(n + 1) /\ NewTransport.me = n + 1
           /\ NewTransport.remote = NoUfrag /\ NewTransport.pending = <<>> /\ NewTransport.keys = {}
           /\ ~NewTransport.remote_done /\ ~NewTransport.gathering /\ NewTransport.seen = {}
           /\ ~NewTransport.local_done
<1>1. PICK t : t = NoTransport
    OBVIOUS
<1>2. /\ t \in Transports(n + 1) /\ t.remote = NoUfrag /\ t.pending = <<>> /\ t.keys = {}
      /\ ~t.remote_done /\ ~t.gathering /\ t.seen = {} /\ ~t.local_done
  <2>1. n + 1 \in Nat
    OBVIOUS
  <2> QED BY <1>1, <2>1, NoTransportIs
<1>3. PICK e : e = [t EXCEPT !.me = n + 1]
    OBVIOUS
<1>4. e = NewTransport
    BY <1>1, <1>3 DEF NewTransport
<1>5. e \in Transports(n + 1)
    BY <1>2, <1>3 DEF Transports
<1>6. /\ e.me = n + 1 /\ e.remote = t.remote /\ e.pending = t.pending /\ e.keys = t.keys
      /\ e.remote_done = t.remote_done /\ e.gathering = t.gathering /\ e.seen = t.seen
      /\ e.local_done = t.local_done
    BY <1>2, <1>3 DEF Transports
<1> QED BY <1>2, <1>4, <1>5, <1>6

\* A connection is given its transport, with what waited for it.
Given(k, t) == Flushed([k EXCEPT !.t = t])
Offered(t, u) == [SetRemoteSdp(t, u) EXCEPT !.gathering = TRUE]

GivenIs(n, k, e, r) ==
    e \in Connections(n) /\ e.exists = k.exists /\ e.pending = <<>> /\ e.t = r

LEMMA FlushedIs ==
    ASSUME NEW n \in Nat, NEW k \in Connections(n), NEW t \in Transports(n),
           Replayed(t, k.pending) \in Transports(n)
    PROVE  GivenIs(n, k, Given(k, t), Replayed(t, k.pending))
<1>a. PICK e : e = Given(k, t)
    OBVIOUS
<1>b. PICK r \in Transports(n) : r = Replayed(t, k.pending)
    BY Zenon
<1>1. PICK j : j = [k EXCEPT !.t = t]
    OBVIOUS
<1>2. j \in Connections(n) /\ j.exists = k.exists /\ j.pending = k.pending /\ j.t = t
    BY <1>1 DEF Connections
<1>0. <<>> \in Seq(Letters(n))
    OBVIOUS
<1>3. PICK s \in Seq(Letters(n)) : s = <<>>
    BY <1>0, Zenon
<1>4. e = [j EXCEPT !.pending = s, !.t = r]
    BY <1>1, <1>2, <1>3, <1>a, <1>b DEF Flushed, Given
<1>5. e \in Connections(n) /\ e.exists = j.exists /\ e.pending = s /\ e.t = r
    BY <1>2, <1>4 DEF Connections
<1>6. GivenIs(n, k, e, r)
    BY <1>2, <1>3, <1>5 DEF GivenIs
<1> QED BY <1>6, <1>a, <1>b

MadeCall(n, l, S, e, q) ==
    /\ Sound(n + 1, l, Tail(S), e, q) /\ e.exists /\ e.t.me = n + 1
    /\ e.t.remote = NoUfrag /\ ~e.t.gathering /\ e.t.seen = {} /\ ~e.t.local_done

\* The user joins: a transport without a description.
LEMMA JoinApplied ==
    ASSUME NEW n \in Nat, n = ufrags, NEW l, NEW S, NEW k, NEW q, Sound(n, l, S, k, q), S # <<>>,
           q.seen \subseteq Candidates, k.exists, k.t.me = NoUfrag,
           NEW e, e = Given(k, NewTransport)
    PROVE  MadeCall(n, l, S, e, q)
<1>0. /\ n + 1 \in Nat /\ Sound(n + 1, l, S, k, q)
    BY SoundGrows
<1>1. k \in Connections(n + 1) /\ ConnectionOK(k)
    BY <1>0 DEF Sound, Ordered
<1>2. k.pending \in Seq(Letters(n + 1)) /\ Early(k.pending)
    BY <1>0, <1>1, ConnectionFields DEF ConnectionOK
<1>3. PICK t : t = NewTransport
    OBVIOUS
<1>4. /\ t \in Transports(n + 1) /\ t.me = n + 1
      /\ t.remote = NoUfrag /\ t.pending = <<>> /\ t.keys = {}
      /\ ~t.remote_done /\ ~t.gathering /\ t.seen = {} /\ ~t.local_done
    BY <1>3, NewTransportIs
<1>5. PICK r : r = Replayed(t, k.pending)
    OBVIOUS
<1>6. r = [t EXCEPT !.pending = k.pending]
    BY <1>4, <1>5 DEF Replayed
<1>7. r \in Transports(n + 1)
    BY <1>2, <1>4, <1>6 DEF Transports
<1>8. /\ r.me = t.me /\ r.remote = t.remote /\ r.pending = k.pending /\ r.keys = t.keys
      /\ r.remote_done = t.remote_done /\ r.gathering = t.gathering /\ r.seen = t.seen
      /\ r.local_done = t.local_done
    BY <1>4, <1>6 DEF Transports
<1>9. e \in Connections(n + 1) /\ e.exists = k.exists /\ e.pending = <<>> /\ e.t = r
  <2>1. e = Given(k, t)
    BY <1>3
  <2>2. n + 1 \in Nat /\ k \in Connections(n + 1) /\ t \in Transports(n + 1)
    BY <1>0, <1>1, <1>4
  <2>3. Replayed(t, k.pending) \in Transports(n + 1)
    BY <1>5, <1>7
  <2>4. GivenIs(n + 1, k, Given(k, t), Replayed(t, k.pending))
    BY <2>2, <2>3, FlushedIs, Zenon
  <2> QED BY <1>5, <2>1, <2>4 DEF GivenIs
<1>10. TransportOK(r)
  <2>1. r.me # NoUfrag
    BY <1>4, <1>8 DEF NoUfrag
  <2> QED BY <1>2, <1>4, <1>8, <2>1 DEF TransportOK
<1>11. ConnectionOK(e)
  <2>1. Early(e.pending)
    BY <1>9, NegotiationAssumption DEF Early
  <2> QED BY <1>9, <1>10, <2>1 DEF ConnectionOK
<1>12. \A x \in Held(e) : x \in Held(k)
  <2>1. e.t.keys = {} /\ e.pending = <<>> /\ e.t.pending = k.pending
    BY <1>4, <1>8, <1>9
  <2> QED BY <2>1 DEF Held
<1>13. e.t.remote = NoUfrag
    BY <1>4, <1>8, <1>9
<1>14. Sound(n + 1, l, Tail(S), e, q)
    BY <1>0, <1>9, <1>11, <1>12, <1>13, SoundMisses
<1> QED BY <1>4, <1>8, <1>9, <1>14 DEF MadeCall

MadeAnswer(n, l, S, e, q) ==
    /\ Sound(n + 1, l, Tail(S), e, q) /\ e.exists /\ e.t.me = n + 1
    /\ e.t.remote = S[1].ufrag /\ e.t.gathering /\ e.t.seen = {} /\ ~e.t.local_done

\* An offer: a transport with a description.
LEMMA OfferApplied ==
    ASSUME NEW n \in Nat, n = ufrags, NEW l, NEW S, NEW k, NEW q, Sound(n, l, S, k, q), S # <<>>,
           q.seen \subseteq Candidates, S[1].type \in Descriptions, k.exists, k.t.me = NoUfrag,
           NEW a, a = Offered(NewTransport, S[1].ufrag),
           NEW e, e = Given(k, a)
    PROVE  MadeAnswer(n, l, S, e, q)
<1>0. /\ n + 1 \in Nat /\ Sound(n + 1, l, S, k, q)
    BY SoundGrows
<1>1. k \in Connections(n + 1) /\ ConnectionOK(k) /\ Ordered(n + 1, S, k)
    BY <1>0 DEF Sound, Ordered
<1>2. k.pending \in Seq(Letters(n + 1)) /\ Early(k.pending) /\ k.t = NoTransport
    BY <1>0, <1>1, ConnectionFields DEF ConnectionOK, TransportOK
<1>3. PICK t : t = NewTransport
    OBVIOUS
<1>4. /\ t \in Transports(n + 1) /\ t.me = n + 1
      /\ t.remote = NoUfrag /\ t.pending = <<>> /\ t.keys = {}
      /\ ~t.remote_done /\ ~t.gathering /\ t.seen = {} /\ ~t.local_done
    BY <1>3, NewTransportIs
<1>5. PICK u : u = S[1].ufrag
    OBVIOUS
<1>6. /\ \A i \in DOMAIN k.pending : k.pending[i].ufrag # u
      /\ u \in 0 .. n + 1 /\ u # NoUfrag /\ S[1].type # "candidate"
    BY <1>0, <1>1, <1>5, HeldIsOther
<1>7. PICK b : b = SetRemoteSdp(t, u)
    OBVIOUS
<1>8. /\ b \in Transports(n + 1) /\ SameLife(t, b) /\ b.remote = u /\ b.pending = <<>>
      /\ b.keys = t.keys /\ b.remote_done = t.remote_done
  <2>1. \A i \in DOMAIN t.pending : t.pending[i].ufrag # u
    BY <1>4
  <2> QED BY <1>0, <1>4, <1>6, <1>7, <2>1, RemoteSet
<1>9. a = [b EXCEPT !.gathering = TRUE]
    BY <1>3, <1>5, <1>7 DEF Offered
<1>10. a \in Transports(n + 1)
    BY <1>8, <1>9 DEF Transports
<1>11. /\ a.me = b.me /\ a.seen = b.seen /\ a.local_done = b.local_done /\ a.remote = b.remote
       /\ a.pending = b.pending /\ a.keys = b.keys /\ a.remote_done = b.remote_done
       /\ a.gathering = TRUE
    BY <1>8, <1>9 DEF Transports
<1>12. PICK r : r = Replayed(a, k.pending)
    OBVIOUS
<1>13. r \in Transports(n + 1) /\ SameTransport(a, r)
  <2>1. a.remote = u
    BY <1>8, <1>11
  <2> QED BY <1>0, <1>2, <1>6, <1>10, <1>12, <2>1, ReplayedNone
<1>14. e \in Connections(n + 1) /\ e.exists = k.exists /\ e.pending = <<>> /\ e.t = r
  <2>1. n + 1 \in Nat /\ k \in Connections(n + 1)
    BY <1>0, <1>1
  <2>2. r \in Transports(n + 1)
    BY <1>13
  <2>3. Replayed(a, k.pending) \in Transports(n + 1)
    BY <1>12, <2>2
  <2>4. GivenIs(n + 1, k, Given(k, a), Replayed(a, k.pending))
    BY <1>10, <2>1, <2>3, FlushedIs, Zenon
  <2> QED BY <1>12, <2>4 DEF GivenIs
<1>15. /\ r.me = n + 1 /\ r.remote = u /\ r.pending = <<>> /\ r.keys = {} /\ ~r.remote_done
       /\ r.gathering /\ r.seen = {} /\ ~r.local_done
    BY <1>4, <1>8, <1>11, <1>13 DEF SameTransport, SameLife, SameAgent
<1>16. TransportOK(r)
  <2>1. r.me # NoUfrag
    BY <1>15 DEF NoUfrag
  <2>2. Early(r.pending)
    BY <1>15, NegotiationAssumption DEF Early
  <2> QED BY <1>6, <1>15, <2>1, <2>2 DEF TransportOK
<1>17. ConnectionOK(e)
  <2>0. e.pending = <<>>
    BY <1>14
  <2>1. Early(e.pending)
    BY <2>0, NegotiationAssumption DEF Early
  <2> QED BY <1>14, <1>16, <2>1 DEF ConnectionOK
<1>18. \A x \in Held(e) : x \in Held(k)
  <2>1. e.t.keys = {} /\ e.pending = <<>> /\ e.t.pending = <<>>
    BY <1>14, <1>15
  <2>2. Held(e) = {}
    BY <2>1 DEF Held
  <2> QED BY <2>2
<1>19. Sound(n + 1, l, Tail(S), e, q)
  <2>1. k.t.remote = NoUfrag
    BY <1>2, NoTransportIs
  <2>2. e.t.remote = S[1].ufrag /\ ~e.t.remote_done
    BY <1>5, <1>14, <1>15
  <2> QED BY <1>0, <1>14, <1>17, <1>18, <2>1, <2>2, SoundOpens
<1> QED BY <1>5, <1>14, <1>15, <1>19 DEF MadeAnswer

\* An offer that is refused leaves a transport without a description.
LEMMA RefusalApplied ==
    ASSUME NEW n \in Nat, n = ufrags, NEW l, NEW S, NEW k, NEW q, Sound(n, l, S, k, q), S # <<>>,
           q.seen \subseteq Candidates, k.exists, k.t.me = NoUfrag,
           NEW e, e = With(k, NewTransport)
    PROVE  Sound(n + 1, l, Tail(S), e, q) /\ e.t.seen = {} /\ ~e.t.local_done
<1>0. /\ n + 1 \in Nat /\ Sound(n + 1, l, S, k, q)
    BY SoundGrows
<1>1. k \in Connections(n + 1) /\ ConnectionOK(k)
    BY <1>0 DEF Sound, Ordered
<1>2. Early(k.pending)
    BY <1>1 DEF ConnectionOK
<1>3. PICK t : t = NewTransport
    OBVIOUS
<1>4. /\ t \in Transports(n + 1) /\ t.me = n + 1
      /\ t.remote = NoUfrag /\ t.pending = <<>> /\ t.keys = {}
      /\ ~t.remote_done /\ ~t.gathering /\ t.seen = {} /\ ~t.local_done
    BY <1>3, NewTransportIs
<1>5. e \in Connections(n + 1) /\ e.exists = k.exists /\ e.pending = k.pending /\ e.t = t
  <2>1. e = [k EXCEPT !.t = t]
    BY <1>3 DEF With
  <2> QED BY <1>1, <1>4, <2>1 DEF Connections
<1>6. TransportOK(t)
  <2>1. t.me # NoUfrag
    BY <1>4 DEF NoUfrag
  <2>2. Early(t.pending)
    BY <1>4, NegotiationAssumption DEF Early
  <2> QED BY <1>4, <2>1, <2>2 DEF TransportOK
<1>7. ConnectionOK(e)
    BY <1>2, <1>5, <1>6 DEF ConnectionOK
<1>8. \A x \in Held(e) : x \in Held(k)
  <2>1. e.t.keys = {} /\ e.pending = k.pending /\ e.t.pending = <<>>
    BY <1>4, <1>5
  <2> QED BY <2>1 DEF Held
<1>9. e.t.remote = NoUfrag
    BY <1>4, <1>5
<1>10. Sound(n + 1, l, Tail(S), e, q)
    BY <1>0, <1>5, <1>7, <1>8, <1>9, SoundMisses
<1> QED BY <1>4, <1>5, <1>10
-----------------------------------------------------------------------------
(* The way there                                                             *)

LEMMA ConcatTail ==
    ASSUME NEW L, NEW a \in Seq(L), NEW b \in Seq(L), a # <<>>
    PROVE  /\ Tail(a \o b) = Tail(a) \o b /\ (a \o b)[1] = Head(a) /\ a \o b # <<>>
           /\ Tail(a) \in Seq(L)
OBVIOUS

LEMMA ConcatAppend ==
    ASSUME NEW L, NEW a \in Seq(L), NEW b \in Seq(L), NEW m \in L
    PROVE  a \o Append(b, m) = Append(a \o b, m) /\ Append(b, m) \in Seq(L) /\ a \o b \in Seq(L)
OBVIOUS

LEMMA ConcatMoves ==
    ASSUME NEW L, NEW a \in Seq(L), NEW b \in Seq(L), b # <<>>
    PROVE  /\ Append(a, Head(b)) \o Tail(b) = a \o b
           /\ Append(a, Head(b)) \in Seq(L) /\ Tail(b) \in Seq(L) /\ Head(b) \in L
OBVIOUS

LEMMA TypesGrow ==
    ASSUME NEW n \in Nat, NEW N \in {n, n + 1}
    PROVE  /\ N \in Nat /\ Letters(n) \subseteq Letters(N) /\ Seq(Letters(n)) \subseteq Seq(Letters(N))
           /\ Connections(n) \subseteq Connections(N)
<1>1. N \in Nat /\ Letters(n) \subseteq Letters(N)
    BY LettersGrow
<1>2. Seq(Letters(n)) \subseteq Seq(Letters(N))
    BY <1>1, SeqGrows
<1>3. Connections(n) \subseteq Connections(N)
    BY ConnectionsGrow
<1> QED BY <1>1, <1>2, <1>3

LEMMA SoundEither ==
    ASSUME NEW n, NEW l \in Nat, NEW j \in {l, l + 1}, NEW S, NEW k, NEW q, Sound(n, l, S, k, q)
    PROVE  Sound(n, j, S, k, q)
BY SoundLoses

\* One peer's connection changes: what has to be shown.
LEMMA StepIsSound ==
    ASSUME IceInv, NEW p \in Peers, NEW e, conns' = [conns EXCEPT ![p] = e],
           ufrags' \in {ufrags, ufrags + 1},
           net' \in [Peers -> Seq(Letters(ufrags'))], work' \in [Peers -> Seq(Letters(ufrags'))],
           joins' \in 0 .. JoinLimit, lost' \in 0 .. MaxLost, failures' \in 0 .. MaxFailures,
           overlapped' \in BOOLEAN,
           Sound(ufrags', lost', Way(p)', e, conns[Other(p)].t),
           Sound(ufrags', lost', Way(Other(p))', conns[Other(p)], e.t)
    PROVE  IceInv'
<1>1. ufrags \in Nat /\ conns \in [Peers -> Connections(ufrags)]
    BY DEF IceInv, IceTypes
<1>2. ufrags' \in Nat /\ Connections(ufrags) \subseteq Connections(ufrags')
    BY <1>1, TypesGrow
<1>3. e \in Connections(ufrags')
    BY DEF Sound, Ordered
<1>4. conns' \in [Peers -> Connections(ufrags')] /\ conns'[p] = e /\ conns'[Other(p)] = conns[Other(p)]
  <2>1. conns \in [Peers -> Connections(ufrags')]
    BY <1>1, <1>2
  <2> QED BY <1>3, <2>1, PeersAre
<1>5. IceTypes'
    BY <1>2, <1>4 DEF IceTypes
<1>6. ASSUME NEW r \in Peers PROVE Sound(ufrags', lost', Way(r)', conns'[r], conns'[Other(r)].t)
  <2>1. Other(p) \in Peers /\ Other(Other(p)) = p /\ (r = p \/ r = Other(p))
    BY PeersAre
  <2>2. CASE r = p
    BY <1>4, <2>2
  <2>3. CASE r = Other(p)
    BY <1>4, <2>1, <2>3
  <2> QED BY <2>1, <2>2, <2>3
<1>7. \A r \in Peers : Sound(ufrags', lost', Way(r)', conns'[r], conns'[Other(r)].t)
    BY <1>6
<1>8. (\A r \in Peers : Sound(ufrags, lost, Way(r), conns[r], conns[Other(r)].t))'
    BY <1>7
<1> QED BY <1>5, <1>8 DEF IceInv

\* What IceInv says of one peer.
LEMMA PeerIs ==
    ASSUME IceInv, NEW p \in Peers
    PROVE  /\ ufrags \in Nat /\ lost \in Nat /\ conns[p] \in Connections(ufrags)
           /\ conns[p].t \in Transports(ufrags) /\ conns[p].t.seen \subseteq Candidates
           /\ conns[p].t.me \in 0 .. ufrags /\ ConnectionOK(conns[p])
           /\ net[p] \in Seq(Letters(ufrags)) /\ work[p] \in Seq(Letters(ufrags))
           /\ Sound(ufrags, lost, Way(p), conns[p], conns[Other(p)].t)
<1>1. /\ ufrags \in Nat /\ conns[p] \in Connections(ufrags)
      /\ net[p] \in Seq(Letters(ufrags)) /\ work[p] \in Seq(Letters(ufrags))
    BY DEF IceInv, IceTypes
<1>2. lost \in Nat
    BY NegotiationAssumption DEF IceInv, IceTypes
<1>3. conns[p].t \in Transports(ufrags)
    BY <1>1, ConnectionFields
<1>4. conns[p].t.seen \subseteq Candidates /\ conns[p].t.me \in 0 .. ufrags
    BY <1>1, <1>3, TransportFields
<1>5. Sound(ufrags, lost, Way(p), conns[p], conns[Other(p)].t)
    BY Zenon DEF IceInv
<1>6. ConnectionOK(conns[p])
    BY <1>5 DEF Sound, Ordered
<1> QED BY <1>1, <1>2, <1>3, <1>4, <1>5, <1>6

\* The worker takes a message.
LEMMA WorkIsTaken ==
    ASSUME IceInv, NEW p \in Peers, work[p] # <<>>, work' = [work EXCEPT ![p] = Tail(@)],
           net'[p] = net[p]
    PROVE  /\ Way(p) # <<>> /\ Way(p)[1] = Head(work[p]) /\ Way(p)' = Tail(Way(p))
           /\ work' \in [Peers -> Seq(Letters(ufrags))] /\ work'[Other(p)] = work[Other(p)]
           /\ Way(p)[1] \in Letters(ufrags)
<1>1. net[p] \in Seq(Letters(ufrags)) /\ work[p] \in Seq(Letters(ufrags))
    BY PeerIs
<1>2. /\ Tail(work[p] \o net[p]) = Tail(work[p]) \o net[p] /\ (work[p] \o net[p])[1] = Head(work[p])
      /\ work[p] \o net[p] # <<>> /\ Tail(work[p]) \in Seq(Letters(ufrags))
  <2>1. PICK a \in Seq(Letters(ufrags)) : a = work[p]
    BY <1>1, Zenon
  <2>2. PICK b \in Seq(Letters(ufrags)) : b = net[p]
    BY <1>1, Zenon
  <2>3. a # <<>>
    BY <2>1
  <2>4. /\ Tail(a \o b) = Tail(a) \o b /\ (a \o b)[1] = Head(a) /\ a \o b # <<>>
        /\ Tail(a) \in Seq(Letters(ufrags))
    BY <2>3, ConcatTail
  <2> QED BY <2>1, <2>2, <2>4
<1>3. work \in [Peers -> Seq(Letters(ufrags))]
    BY DEF IceInv, IceTypes
<1>4. /\ work' \in [Peers -> Seq(Letters(ufrags))] /\ work'[p] = Tail(work[p])
      /\ work'[Other(p)] = work[Other(p)]
    BY <1>2, <1>3, PeersAre
<1>5. Way(p)' = Tail(Way(p)) /\ Way(p) # <<>> /\ Way(p)[1] = Head(work[p])
    BY <1>2, <1>4 DEF Way
<1>6. Head(work[p]) \in Letters(ufrags)
    BY <1>1
<1> QED BY <1>4, <1>5, <1>6

\* A message is sent, or lost.
SentOrLost(q, m) ==
    \/ Way(q)' = Append(Way(q), m) /\ lost' = lost
    \/ Way(q)' = Way(q) /\ lost' = lost + 1

LEMMA SendIs ==
    ASSUME IceInv, NEW q \in Peers, NEW N \in {ufrags, ufrags + 1}, NEW m \in Letters(N),
           Send(q, m), work'[q] = work[q]
    PROVE  /\ net' \in [Peers -> Seq(Letters(N))] /\ net'[Other(q)] = net[Other(q)]
           /\ lost' \in 0 .. MaxLost /\ lost' \in {lost, lost + 1} /\ SentOrLost(q, m)
<1>0. ufrags \in Nat /\ lost \in 0 .. MaxLost /\ MaxLost \in Nat
    BY NegotiationAssumption DEF IceInv, IceTypes
<1>1. net[q] \in Seq(Letters(N)) /\ work[q] \in Seq(Letters(N))
  <2>1. net[q] \in Seq(Letters(ufrags)) /\ work[q] \in Seq(Letters(ufrags))
    BY PeerIs
  <2> QED BY <1>0, <2>1, TypesGrow
<1>2. net \in [Peers -> Seq(Letters(N))]
    BY <1>0, TypesGrow DEF IceInv, IceTypes
<1>3. /\ work[q] \o Append(net[q], m) = Append(work[q] \o net[q], m)
      /\ Append(net[q], m) \in Seq(Letters(N))
  <2>1. PICK a \in Seq(Letters(N)) : a = work[q]
    BY <1>1, Zenon
  <2>2. PICK b \in Seq(Letters(N)) : b = net[q]
    BY <1>1, Zenon
  <2>3. a \o Append(b, m) = Append(a \o b, m) /\ Append(b, m) \in Seq(Letters(N))
    BY ConcatAppend
  <2> QED BY <2>1, <2>2, <2>3
<1>4. CASE net' = [net EXCEPT ![q] = Append(@, m)] /\ UNCHANGED lost
  <2>1. /\ net' \in [Peers -> Seq(Letters(N))] /\ net'[q] = Append(net[q], m)
        /\ net'[Other(q)] = net[Other(q)]
    BY <1>2, <1>3, <1>4, PeersAre
  <2>2. Way(q)' = Append(Way(q), m)
    BY <1>3, <2>1 DEF Way
  <2> QED BY <1>0, <1>4, <2>1, <2>2 DEF SentOrLost
<1>5. CASE lost < MaxLost /\ lost' = lost + 1 /\ UNCHANGED net
  <2>1. Way(q)' = Way(q)
    BY <1>5 DEF Way
  <2> QED BY <1>0, <1>2, <1>5, <2>1 DEF SentOrLost
<1> QED BY <1>4, <1>5 DEF Send

\* The other direction, when a transport describes itself ...
LEMMA Describes ==
    ASSUME IceInv, NEW q \in Peers, NEW m \in Letters(ufrags + 1), m.type \in Descriptions,
           m.ufrag = ufrags + 1, SentOrLost(q, m), NEW r, r.seen = {}, ~r.local_done
    PROVE  Sound(ufrags + 1, lost', Way(q)', conns[q], r)
<1>1. ufrags \in Nat /\ lost \in Nat /\ Sound(ufrags, lost, Way(q), conns[q], conns[Other(q)].t)
    BY PeerIs
<1>2. CASE Way(q)' = Append(Way(q), m) /\ lost' = lost
  <2>1. Sound(ufrags + 1, lost, Append(Way(q), m), conns[q], r)
    BY <1>1, SoundDescribes
  <2> QED BY <1>2, <2>1
<1>3. CASE Way(q)' = Way(q) /\ lost' = lost + 1
  <2>1. Sound(ufrags + 1, lost, Way(q), conns[q], conns[Other(q)].t)
    BY <1>1, SoundGrows
  <2>2. Sound(ufrags + 1, lost + 1, Way(q), conns[q], r)
    BY <1>1, <2>1, SoundLoses
  <2> QED BY <1>3, <2>2
<1> QED BY <1>2, <1>3 DEF SentOrLost

\* ... or sends a candidate.
LEMMA Trickles ==
    ASSUME IceInv, NEW p \in Peers, NEW m \in Letters(ufrags), m.type = "candidate",
           conns[p].t.me # NoUfrag, m.ufrag = conns[p].t.me, SentOrLost(Other(p), m),
           NEW r, r.me = conns[p].t.me,
           \A c \in r.seen : c \in conns[p].t.seen \/ c = m.sdp,
           r.local_done => conns[p].t.local_done \/ m.sdp = EndOfCandidates,
           m.sdp = EndOfCandidates => Candidates \subseteq conns[p].t.seen
    PROVE  Sound(ufrags, lost', Way(Other(p))', conns[Other(p)], r)
<1>0. PICK q \in Peers : q = Other(p) /\ Other(q) = p
    BY PeersAre
<1>1. ufrags \in Nat /\ lost \in Nat /\ Sound(ufrags, lost, Way(q), conns[q], conns[p].t)
    BY <1>0, PeerIs
<1>2. CASE Way(q)' = Append(Way(q), m) /\ lost' = lost
  <2>1. Sound(ufrags, lost, Append(Way(q), m), conns[q], r)
    BY <1>1, SoundSends
  <2> QED BY <1>0, <1>2, <2>1
<1>3. CASE Way(q)' = Way(q) /\ lost' = lost + 1
  <2>2. Sound(ufrags, lost + 1, Way(q), conns[q], r)
    BY <1>1, SoundLoses
  <2> QED BY <1>0, <1>3, <2>2
<1> QED BY <1>0, <1>2, <1>3 DEF SentOrLost
-----------------------------------------------------------------------------
(* The steps                                                                 *)

\* The worker takes a message and sends none.
LEMMA WorkerIsQuiet ==
    ASSUME IceInv, NEW p \in Peers, work[p] # <<>>, work' = [work EXCEPT ![p] = Tail(@)],
           net' = net, lost' = lost, joins' = joins, overlapped' = overlapped,
           failures' \in 0 .. MaxFailures, ufrags' \in {ufrags, ufrags + 1},
           NEW e, conns' = [conns EXCEPT ![p] = e],
           Sound(ufrags', lost, Tail(Way(p)), e, conns[Other(p)].t),
           SameSender(conns[p].t, e.t) \/ (e.t.seen = {} /\ ~e.t.local_done)
    PROVE  IceInv'
<1>1. PICK q \in Peers : q = Other(p) /\ Other(q) = p
    BY PeersAre
<1>2. /\ Way(p)' = Tail(Way(p)) /\ work' \in [Peers -> Seq(Letters(ufrags))]
      /\ work'[q] = work[q]
  <2>1. net'[p] = net[p]
    OBVIOUS
  <2> QED BY <1>1, <2>1, WorkIsTaken
<1>3. Way(q)' = Way(q)
    BY <1>2 DEF Way
<1>4. ufrags \in Nat /\ lost \in Nat /\ Sound(ufrags, lost, Way(q), conns[q], conns[p].t)
    BY <1>1, PeerIs
<1>5. Sound(ufrags', lost, Way(q), conns[q], conns[p].t)
    BY <1>4, SoundGrows
<1>6. Sound(ufrags', lost, Way(q), conns[q], e.t)
    BY <1>5, SoundSameSender, SoundNewSender
<1>7. /\ net' \in [Peers -> Seq(Letters(ufrags'))] /\ work' \in [Peers -> Seq(Letters(ufrags'))]
  <2>1. net' \in [Peers -> Seq(Letters(ufrags))]
    BY DEF IceInv, IceTypes
  <2>2. Seq(Letters(ufrags)) \subseteq Seq(Letters(ufrags'))
    BY <1>4, TypesGrow
  <2> QED BY <1>2, <2>1, <2>2
<1>8. joins' \in 0 .. JoinLimit /\ lost' \in 0 .. MaxLost /\ overlapped' \in BOOLEAN
    BY DEF IceInv, IceTypes
<1>9. /\ Sound(ufrags', lost', Way(p)', e, conns[Other(p)].t)
      /\ Sound(ufrags', lost', Way(Other(p))', conns[Other(p)], e.t)
    BY <1>1, <1>2, <1>3, <1>6
<1> QED BY <1>7, <1>8, <1>9, StepIsSound

\* The worker makes a transport and sends its description.
LEMMA WorkerDescribes ==
    ASSUME IceInv, NEW p \in Peers, work[p] # <<>>, work' = [work EXCEPT ![p] = Tail(@)],
           NEW type \in Descriptions, Send(Other(p), Message(type, ufrags + 1, NoUfrag)),
           joins' = joins, overlapped' = overlapped, failures' = failures, ufrags' = ufrags + 1,
           NEW e, conns' = [conns EXCEPT ![p] = e],
           Sound(ufrags + 1, lost, Tail(Way(p)), e, conns[Other(p)].t),
           e.t.seen = {} /\ ~e.t.local_done
    PROVE  IceInv'
<1>1. PICK q \in Peers : q = Other(p) /\ Other(q) = p
    BY PeersAre
<1>2. ufrags \in Nat /\ lost \in Nat /\ ufrags + 1 \in Nat
    BY PeerIs
<1>3. PICK m : m = Message(type, ufrags + 1, NoUfrag)
    OBVIOUS
<1>4. m \in Letters(ufrags + 1) /\ m.type = type /\ m.ufrag = ufrags + 1
  <2>1. type \in Kinds
    BY DEF Kinds, Descriptions
  <2>2. ufrags + 1 \in 0 .. ufrags + 1 /\ ufrags + 1 # NoUfrag
    BY <1>2 DEF NoUfrag
  <2>3. NoUfrag \in Candidates \cup {EndOfCandidates}
    BY DEF NoUfrag, EndOfCandidates
  <2> QED BY <1>2, <1>3, <2>1, <2>2, <2>3, MessageIs
<1>5. work'[q] = work[q]
    BY <1>1, PeersAre DEF IceInv, IceTypes
<1>6. /\ net' \in [Peers -> Seq(Letters(ufrags + 1))] /\ net'[p] = net[p]
      /\ lost' \in 0 .. MaxLost /\ lost' \in {lost, lost + 1} /\ SentOrLost(q, m)
  <2>1. Send(q, m)
    BY <1>1, <1>3
  <2>2. /\ net' \in [Peers -> Seq(Letters(ufrags + 1))] /\ net'[Other(q)] = net[Other(q)]
        /\ lost' \in 0 .. MaxLost /\ lost' \in {lost, lost + 1} /\ SentOrLost(q, m)
    BY <1>4, <1>5, <2>1, SendIs
  <2> QED BY <1>1, <2>2
<1>7. Way(p)' = Tail(Way(p)) /\ work' \in [Peers -> Seq(Letters(ufrags))]
    BY <1>6, WorkIsTaken
<1>8. Sound(ufrags + 1, lost', Way(q)', conns[q], e.t)
    BY <1>4, <1>6, Describes
<1>9. Sound(ufrags + 1, lost', Tail(Way(p)), e, conns[Other(p)].t)
    BY <1>2, <1>6, SoundEither
<1>10. work' \in [Peers -> Seq(Letters(ufrags'))] /\ net' \in [Peers -> Seq(Letters(ufrags'))]
  <2>1. Seq(Letters(ufrags)) \subseteq Seq(Letters(ufrags + 1))
    BY <1>2, TypesGrow
  <2> QED BY <1>6, <1>7, <2>1
<1>11. joins' \in 0 .. JoinLimit /\ failures' \in 0 .. MaxFailures /\ overlapped' \in BOOLEAN
    BY DEF IceInv, IceTypes
<1>12. /\ Sound(ufrags', lost', Way(p)', e, conns[Other(p)].t)
       /\ Sound(ufrags', lost', Way(Other(p))', conns[Other(p)], e.t)
    BY <1>1, <1>7, <1>8, <1>9
<1>13. lost' \in 0 .. MaxLost /\ ufrags' \in {ufrags, ufrags + 1}
    BY <1>6
<1> QED BY <1>10, <1>11, <1>12, <1>13, StepIsSound

\* A connection replaced by an empty one.
LEMMA EmptySender ==
    ASSUME NEW e, IsEmpty(e)
    PROVE  e.t.seen = {} /\ ~e.t.local_done
<1>1. e.t = NoTransport
    BY EmptyIs
<1> QED BY <1>1, NoTransportIs

\* What the worker's step is, whatever the message.
Takes(p) == /\ work[p] # <<>> /\ work' = [work EXCEPT ![p] = Tail(@)]
            /\ joins' = joins /\ overlapped' = overlapped

\* The message and its way, before the step.
LEMMA TakesIs ==
    ASSUME IceInv, NEW p \in Peers, Takes(p)
    PROVE  /\ ufrags \in Nat /\ lost \in Nat /\ Way(p) # <<>> /\ Way(p)[1] = Head(work[p])
           /\ Sound(ufrags, lost, Way(p), conns[p], conns[Other(p)].t)
           /\ conns[Other(p)].t.seen \subseteq Candidates
           /\ conns[p] \in Connections(ufrags) /\ ConnectionOK(conns[p])
<1>1. work[p] \in Seq(Letters(ufrags)) /\ net[p] \in Seq(Letters(ufrags))
    BY PeerIs
<1>2. PICK a \in Seq(Letters(ufrags)) : a = work[p]
    BY <1>1, Zenon
<1>3. PICK b \in Seq(Letters(ufrags)) : b = net[p]
    BY <1>1, Zenon
<1>4. (a \o b)[1] = Head(a) /\ a \o b # <<>>
  <2>1. a # <<>>
    BY <1>2 DEF Takes
  <2> QED BY <2>1, ConcatTail
<1>5. Way(p) # <<>> /\ Way(p)[1] = Head(work[p])
    BY <1>2, <1>3, <1>4 DEF Way
<1>6. conns[Other(p)].t.seen \subseteq Candidates
    BY PeersAre, PeerIs
<1> QED BY <1>5, <1>6, PeerIs

\* A message that changes nothing.
LEMMA DropStep ==
    ASSUME IceInv, NEW p \in Peers, Takes(p),
           Head(work[p]).type # "candidate" \/ ~conns[p].exists,
           conns' = [conns EXCEPT ![p] = conns[p]], failures' \in 0 .. MaxFailures,
           UNCHANGED <<net, ufrags, lost>>
    PROVE  IceInv'
<1>1. Sound(ufrags, lost, Tail(Way(p)), conns[p], conns[Other(p)].t)
    BY TakesIs, Dropped
<1>2. SameSender(conns[p].t, conns[p].t)
    BY DEF SameSender
<1>3. Sound(ufrags', lost, Tail(Way(p)), conns[p], conns[Other(p)].t)
    BY <1>1
<1> QED BY <1>2, <1>3, WorkerIsQuiet DEF Takes

\* A candidate that the agent refuses is as good as lost.
LEMMA LossStep ==
    ASSUME IceInv, NEW p \in Peers, Takes(p), CandidateRefused(p, Head(work[p]))
    PROVE  IceInv'
<1>1. PICK q \in Peers : q = Other(p) /\ Other(q) = p
    BY PeersAre
<1>2. /\ net' = net /\ conns' = conns /\ ufrags' = ufrags /\ failures' = failures
      /\ lost' = lost + 1 /\ lost < MaxLost
    BY DEF CandidateRefused
<1>3. /\ Way(p)' = Tail(Way(p)) /\ work' \in [Peers -> Seq(Letters(ufrags))]
      /\ work'[q] = work[q]
  <2>1. net'[p] = net[p]
    BY <1>2
  <2> QED BY <1>1, <2>1, WorkIsTaken DEF Takes
<1>4. Way(q)' = Way(q)
    BY <1>2, <1>3 DEF Way
<1>5. /\ ufrags \in Nat /\ lost \in Nat /\ Way(p) # <<>> /\ conns[p] \in Connections(ufrags)
      /\ ConnectionOK(conns[p]) /\ Ordered(ufrags, Way(p), conns[p])
    BY TakesIs DEF Sound
<1>6. Sound(ufrags, lost + 1, Tail(Way(p)), conns[p], conns[q].t)
  <2>1. Ordered(ufrags, Tail(Way(p)), conns[p])
    BY <1>5, OrderedPops
  <2>2. lost + 1 # 0
    BY <1>5
  <2> QED BY <2>1, <2>2 DEF Sound
<1>7. Sound(ufrags, lost + 1, Way(q), conns[q], conns[p].t)
  <2>1. Sound(ufrags, lost, Way(q), conns[q], conns[p].t)
    BY <1>1, PeerIs
  <2> QED BY <1>5, <2>1, SoundLoses
<1>8. conns' = [conns EXCEPT ![p] = conns[p]]
  <2>1. conns \in [Peers -> Connections(ufrags)]
    BY DEF IceInv, IceTypes
  <2> QED BY <1>2, <2>1
<1>9. /\ net' \in [Peers -> Seq(Letters(ufrags'))] /\ work' \in [Peers -> Seq(Letters(ufrags'))]
      /\ joins' \in 0 .. JoinLimit /\ failures' \in 0 .. MaxFailures /\ overlapped' \in BOOLEAN
    BY <1>2, <1>3 DEF IceInv, IceTypes, Takes
<1>10. lost' \in 0 .. MaxLost
    BY <1>2, <1>5, NegotiationAssumption
<1>11. /\ Sound(ufrags', lost', Way(p)', conns[p], conns[Other(p)].t)
       /\ Sound(ufrags', lost', Way(Other(p))', conns[Other(p)], conns[p].t)
    BY <1>1, <1>2, <1>3, <1>4, <1>6, <1>7
<1> QED BY <1>2, <1>8, <1>9, <1>10, <1>11, StepIsSound

\* The connection goes: it could not be set up, was left or replaced.
LEMMA EmptyStep ==
    ASSUME IceInv, NEW p \in Peers, Takes(p), failures' \in 0 .. MaxFailures,
           NEW e, IsEmpty(e), conns' = [conns EXCEPT ![p] = e],
           ufrags' \in {ufrags, ufrags + 1}, UNCHANGED <<net, lost>>
    PROVE  IceInv'
<1>1. Sound(ufrags, lost, Tail(Way(p)), e, conns[Other(p)].t)
    BY TakesIs, Emptied
<1>2. Sound(ufrags', lost, Tail(Way(p)), e, conns[Other(p)].t)
    BY <1>1, TakesIs, SoundGrows
<1>3. e.t.seen = {} /\ ~e.t.local_done
    BY EmptySender
<1> QED BY <1>2, <1>3, WorkerIsQuiet DEF Takes

\* UserJoinTransmission.
LEMMA JoinStep ==
    ASSUME IceInv, NEW p \in Peers, Takes(p), conns[p].exists, OnJoin(p)
    PROVE  IceInv'
<1>0. /\ ufrags' = ufrags + 1 /\ failures' = failures
      /\ conns' = [conns EXCEPT ![p] = Replaced(conns[p], NewTransport)]
      /\ Send(Other(p), Message("offer", ufrags + 1, NoUfrag))
    BY DEF OnJoin
<1>1. PICK e : e = Replaced(conns[p], NewTransport)
    OBVIOUS
<1>2. Sound(ufrags + 1, lost, Tail(Way(p)), e, conns[Other(p)].t) /\ e.t.seen = {} /\ ~e.t.local_done
  <2>1. CASE HasTransport(conns[p])
    <3>1. IsEmpty(e)
      BY <1>1, <2>1 DEF Replaced, IsEmpty
    <3>2. Sound(ufrags, lost, Tail(Way(p)), e, conns[Other(p)].t)
      BY <3>1, TakesIs, Emptied
    <3>3. Sound(ufrags + 1, lost, Tail(Way(p)), e, conns[Other(p)].t)
      BY <3>2, TakesIs, SoundGrows
    <3> QED BY <3>1, <3>3, EmptySender
  <2>2. CASE ~HasTransport(conns[p])
    <3>1. e = Given(conns[p], NewTransport) /\ conns[p].t.me = NoUfrag
      BY <1>1, <2>2 DEF Replaced, Given, HasTransport
    <3>3. /\ ufrags \in Nat /\ Way(p) # <<>> /\ conns[Other(p)].t.seen \subseteq Candidates
          /\ Sound(ufrags, lost, Way(p), conns[p], conns[Other(p)].t)
      BY TakesIs
    <3>4. MadeCall(ufrags, lost, Way(p), e, conns[Other(p)].t)
      BY <3>1, <3>3, JoinApplied, Zenon
    <3> QED BY <3>4 DEF MadeCall
  <2> QED BY <2>1, <2>2
<1>3. "offer" \in Descriptions /\ conns' = [conns EXCEPT ![p] = e]
    BY <1>0, <1>1 DEF Descriptions
<1> QED BY <1>0, <1>2, <1>3, WorkerDescribes DEF Takes

\* An offer.
LEMMA OfferStep ==
    ASSUME IceInv, NEW p \in Peers, Takes(p), conns[p].exists,
           Head(work[p]).type = "offer", OnOffer(p, Head(work[p]))
    PROVE  IceInv'
<1>00. PICK m : m = Head(work[p])
    OBVIOUS
<1>01. PICK a : a = Offered(NewTransport, m.ufrag)
    OBVIOUS
<1>0. /\ ufrags' = ufrags + 1 /\ failures' = failures
      /\ conns' = [conns EXCEPT ![p] = Replaced(conns[p], a)]
      /\ Send(Other(p), Message("answer", ufrags + 1, NoUfrag))
    BY <1>00, <1>01 DEF OnOffer, Offered
<1>1. PICK e : e = Replaced(conns[p], a)
    OBVIOUS
<1>2. Sound(ufrags + 1, lost, Tail(Way(p)), e, conns[Other(p)].t) /\ e.t.seen = {} /\ ~e.t.local_done
  <2>1. CASE HasTransport(conns[p])
    <3>1. IsEmpty(e)
      BY <1>1, <2>1 DEF Replaced, IsEmpty
    <3>2. Sound(ufrags, lost, Tail(Way(p)), e, conns[Other(p)].t)
      BY <3>1, TakesIs, Emptied
    <3>3. Sound(ufrags + 1, lost, Tail(Way(p)), e, conns[Other(p)].t)
      BY <3>2, TakesIs, SoundGrows
    <3> QED BY <3>1, <3>3, EmptySender
  <2>2. CASE ~HasTransport(conns[p])
    <3>1. e = Given(conns[p], a) /\ conns[p].t.me = NoUfrag
      BY <1>1, <2>2 DEF Replaced, Given, HasTransport
    <3>2. Way(p)[1].type \in Descriptions /\ a = Offered(NewTransport, Way(p)[1].ufrag)
      BY <1>00, <1>01, TakesIs DEF Descriptions
    <3>3. /\ ufrags \in Nat /\ Way(p) # <<>> /\ conns[Other(p)].t.seen \subseteq Candidates
          /\ Sound(ufrags, lost, Way(p), conns[p], conns[Other(p)].t)
      BY TakesIs
    <3>4. MadeAnswer(ufrags, lost, Way(p), e, conns[Other(p)].t)
      BY <3>1, <3>2, <3>3, OfferApplied, Zenon
    <3> QED BY <3>4 DEF MadeAnswer
  <2> QED BY <2>1, <2>2
<1>3. "answer" \in Descriptions /\ conns' = [conns EXCEPT ![p] = e]
    BY <1>0, <1>1 DEF Descriptions
<1> QED BY <1>0, <1>2, <1>3, WorkerDescribes DEF Takes

\* An offer without a common payload type.
LEMMA RefusedStep ==
    ASSUME IceInv, NEW p \in Peers, Takes(p), conns[p].exists, OfferRefused(p)
    PROVE  IceInv'
<1>0. /\ ufrags' = ufrags + 1 /\ failures' \in 0 .. MaxFailures /\ net' = net /\ lost' = lost
  <2>1. failures \in 0 .. MaxFailures /\ MaxFailures \in Nat
    BY NegotiationAssumption DEF IceInv, IceTypes
  <2> QED BY <2>1 DEF OfferRefused
<1>1. PICK e : e = IF HasTransport(conns[p]) THEN NoConnection ELSE [conns[p] EXCEPT !.t = NewTransport]
    OBVIOUS
<1>2. conns' = [conns EXCEPT ![p] = e]
    BY <1>1 DEF OfferRefused
<1>3. CASE HasTransport(conns[p])
  <2>1. IsEmpty(e)
    BY <1>1, <1>3 DEF IsEmpty
  <2> QED BY <1>0, <1>2, <2>1, EmptyStep
<1>4. CASE ~HasTransport(conns[p])
  <2>1. e = With(conns[p], NewTransport) /\ conns[p].t.me = NoUfrag
    BY <1>1, <1>4 DEF HasTransport, With
  <2>2. Sound(ufrags + 1, lost, Tail(Way(p)), e, conns[Other(p)].t) /\ e.t.seen = {} /\ ~e.t.local_done
    BY <2>1, TakesIs, RefusalApplied
  <2>3. Sound(ufrags', lost, Tail(Way(p)), e, conns[Other(p)].t) /\ ufrags' \in {ufrags, ufrags + 1}
    BY <1>0, <2>2
  <2> QED BY <1>0, <1>2, <2>2, <2>3, WorkerIsQuiet DEF Takes
<1> QED BY <1>3, <1>4

\* An answer.
LEMMA AnswerStep ==
    ASSUME IceInv, NEW p \in Peers, Takes(p), conns[p].exists,
           Head(work[p]).type = "answer", OnAnswer(p, Head(work[p]))
    PROVE  IceInv'
<1>00. PICK m : m = Head(work[p])
    OBVIOUS
<1>0. UNCHANGED <<net, ufrags, lost, failures>>
    BY DEF OnAnswer
<1>1. conns[p] \in Connections(ufrags) /\ conns \in [Peers -> Connections(ufrags)]
    BY DEF IceInv, IceTypes
<1>2. CASE HasTransport(conns[p]) /\ Acceptable(conns[p].t, m.ufrag)
  <2>1. PICK a : a = Answered(conns[p].t, m.ufrag)
    OBVIOUS
  <2>2. PICK e : e = [conns[p] EXCEPT !.t = a]
    OBVIOUS
  <2>3. conns' = [conns EXCEPT ![p] = e]
    BY <1>00, <1>2, <2>1, <2>2 DEF OnAnswer
  <2>4. /\ Way(p)[1].type \in Descriptions /\ conns[p].t.me # NoUfrag
        /\ Acceptable(conns[p].t, Way(p)[1].ufrag) /\ a = Answered(conns[p].t, Way(p)[1].ufrag)
    BY <1>00, <1>2, <2>1, TakesIs DEF Descriptions, HasTransport
  <2>5. Sound(ufrags, lost, Tail(Way(p)), e, conns[Other(p)].t) /\ SameSender(conns[p].t, e.t)
    <3>1. e = With(conns[p], a)
      BY <2>2 DEF With
    <3>2. /\ ufrags \in Nat /\ Way(p) # <<>> /\ conns[Other(p)].t.seen \subseteq Candidates
          /\ Sound(ufrags, lost, Way(p), conns[p], conns[Other(p)].t)
      BY TakesIs
    <3>3. GotAnswer(ufrags, lost, Way(p), conns[p], e, conns[Other(p)].t)
      BY <2>4, <3>1, <3>2, AnswerApplied, Zenon
    <3> QED BY <3>3 DEF GotAnswer
  <2>6. Sound(ufrags', lost, Tail(Way(p)), e, conns[Other(p)].t) /\ failures' \in 0 .. MaxFailures
    BY <1>0, <2>5 DEF IceInv, IceTypes
  <2> QED BY <1>0, <2>3, <2>5, <2>6, WorkerIsQuiet DEF Takes
<1>3. CASE ~(HasTransport(conns[p]) /\ Acceptable(conns[p].t, m.ufrag))
  <2>1. conns' = [conns EXCEPT ![p] = [conns[p] EXCEPT !.t = conns[p].t]]
    BY <1>00, <1>3 DEF OnAnswer
  <2>2. [conns[p] EXCEPT !.t = conns[p].t] = conns[p]
    BY <1>1 DEF Connections
  <2>3. conns' = [conns EXCEPT ![p] = conns[p]]
    BY <2>1, <2>2
  <2>4. failures' \in 0 .. MaxFailures
    BY <1>0 DEF IceInv, IceTypes
  <2> QED BY <1>0, <2>3, <2>4, DropStep
<1> QED BY <1>2, <1>3

\* A candidate, before the transport or after.
LEMMA CandidateStep ==
    ASSUME IceInv, NEW p \in Peers, Takes(p), conns[p].exists,
           Head(work[p]).type = "candidate", ApplyRemoteIceCandidate(p, Head(work[p]))
    PROVE  IceInv'
<1>00. PICK m : m = Head(work[p])
    OBVIOUS
<1>0. UNCHANGED <<net, ufrags, lost, failures>> /\ failures \in 0 .. MaxFailures
    BY DEF ApplyRemoteIceCandidate, IceInv, IceTypes
<1>1. Way(p)[1].type = "candidate" /\ Way(p)[1] = m
    BY <1>00, TakesIs
<1>a. PICK k : k = conns[p]
    OBVIOUS
<1>b. PICK f : f = IF HasTransport(k) THEN [k EXCEPT !.t = AddRemoteCandidate(@, m)]
                   ELSE [k EXCEPT !.pending = Queued(@, m)]
    OBVIOUS
<1>c. conns' = [conns EXCEPT ![p] = f]
    BY <1>00, <1>a, <1>b DEF ApplyRemoteIceCandidate
<1>2. CASE HasTransport(conns[p])
  <2>1. PICK a : a = AddRemoteCandidate(conns[p].t, m)
    OBVIOUS
  <2>2. PICK e : e = [conns[p] EXCEPT !.t = a]
    OBVIOUS
  <2>3. conns' = [conns EXCEPT ![p] = e]
    BY <1>2, <1>a, <1>b, <1>c, <2>1, <2>2
  <2>4. conns[p].t.me # NoUfrag /\ a = AddRemoteCandidate(conns[p].t, Way(p)[1])
    BY <1>1, <1>2, <2>1 DEF HasTransport
  <2>5. Sound(ufrags, lost, Tail(Way(p)), e, conns[Other(p)].t) /\ SameLife(conns[p].t, e.t)
    <3>1. e = With(conns[p], a)
      BY <2>2 DEF With
    <3>2. /\ ufrags \in Nat /\ Way(p) # <<>> /\ conns[Other(p)].t.seen \subseteq Candidates
          /\ Sound(ufrags, lost, Way(p), conns[p], conns[Other(p)].t)
      BY TakesIs
    <3>3. Took(ufrags, lost, Way(p), conns[p], e, conns[Other(p)].t)
      BY <1>1, <2>4, <3>1, <3>2, CandidateApplied, Zenon
    <3> QED BY <3>3 DEF Took
  <2>6. Sound(ufrags', lost, Tail(Way(p)), e, conns[Other(p)].t) /\ SameSender(conns[p].t, e.t)
    BY <1>0, <2>5 DEF SameLife, SameSender
  <2> QED BY <1>0, <2>3, <2>6, WorkerIsQuiet DEF Takes
<1>3. CASE ~HasTransport(conns[p])
  <2>2. PICK e : e = [conns[p] EXCEPT !.pending = Queued(@, m)]
    OBVIOUS
  <2>3. conns' = [conns EXCEPT ![p] = e]
    BY <1>3, <1>a, <1>b, <1>c, <2>2
  <2>4. conns[p].t.me = NoUfrag /\ e = [conns[p] EXCEPT !.pending = Queued(@, Way(p)[1])]
    BY <1>1, <1>3, <2>2 DEF HasTransport
  <2>5. Sound(ufrags, lost, Tail(Way(p)), e, conns[Other(p)].t) /\ e.t = conns[p].t
    BY <1>1, <2>4, TakesIs, CandidateWaits
  <2>6. Sound(ufrags', lost, Tail(Way(p)), e, conns[Other(p)].t) /\ SameSender(conns[p].t, e.t)
    BY <1>0, <2>5 DEF SameSender
  <2> QED BY <1>0, <2>3, <2>6, WorkerIsQuiet DEF Takes
<1> QED BY <1>2, <1>3

\* The ICE worker.
LEMMA WorkStep ==
    ASSUME IceInv, NEW p \in Peers, ProcessIceWorkMsg(p)
    PROVE  IceInv'
<1>0. Takes(p)
    BY DEF ProcessIceWorkMsg, Takes
<1>1. CASE ~conns[p].exists
  <2>1. UNCHANGED <<net, conns, ufrags, lost, failures>>
    BY <1>1 DEF ProcessIceWorkMsg
  <2>2. conns \in [Peers -> Connections(ufrags)]
    BY DEF IceInv, IceTypes
  <2>3. conns' = [conns EXCEPT ![p] = conns[p]] /\ UNCHANGED <<net, ufrags, lost>>
    BY <2>1, <2>2
  <2>4. failures' \in 0 .. MaxFailures
    BY <2>1 DEF IceInv, IceTypes
  <2> QED BY <1>0, <1>1, <2>3, <2>4, DropStep
<1>2. CASE conns[p].exists
  <2>1. PICK m : m = Head(work[p])
    OBVIOUS
  <2>2. \/ m.type = "join" /\ (OnJoin(p) \/ InitFails(p))
        \/ m.type = "offer" /\ (OnOffer(p, m) \/ OfferRefused(p) \/ InitFails(p))
        \/ m.type = "answer" /\ (OnAnswer(p, m) \/ AnswerRefused(p))
        \/ m.type = "candidate" /\ (ApplyRemoteIceCandidate(p, m) \/ CandidateRefused(p, m))
        \/ m.type = "leave" /\ ReleaseAllIceTransmission(p)
    BY <1>2, <2>1 DEF ProcessIceWorkMsg
  <2>3. CASE OnJoin(p)
    BY <1>0, <1>2, <2>3, JoinStep
  <2>4. CASE InitFails(p)
    <3>1. failures \in 0 .. MaxFailures /\ MaxFailures \in Nat
      BY NegotiationAssumption DEF IceInv, IceTypes
    <3>2. failures' \in 0 .. MaxFailures
      BY <2>4, <3>1 DEF InitFails
    <3>3. IsEmpty(NoConnection)
      BY DEF IsEmpty
    <3>4. /\ conns' = [conns EXCEPT ![p] = NoConnection]
          /\ ufrags' \in {ufrags, ufrags + 1} /\ UNCHANGED <<net, lost>>
      BY <2>4 DEF InitFails
    <3> QED BY <1>0, <3>2, <3>3, <3>4, EmptyStep
  <2>5. CASE m.type = "offer" /\ OnOffer(p, m)
    BY <1>0, <1>2, <2>1, <2>5, OfferStep
  <2>6. CASE OfferRefused(p)
    BY <1>0, <1>2, <2>6, RefusedStep
  <2>7. CASE m.type = "answer" /\ OnAnswer(p, m)
    BY <1>0, <1>2, <2>1, <2>7, AnswerStep
  <2>8. CASE m.type = "candidate" /\ ApplyRemoteIceCandidate(p, m)
    BY <1>0, <1>2, <2>1, <2>8, CandidateStep
  <2>9. CASE ReleaseAllIceTransmission(p)
    <3>2. failures' \in 0 .. MaxFailures
      BY <2>9 DEF ReleaseAllIceTransmission, IceInv, IceTypes
    <3>3. IsEmpty(NoConnection)
      BY DEF IsEmpty
    <3>4. /\ conns' = [conns EXCEPT ![p] = NoConnection]
          /\ ufrags' \in {ufrags, ufrags + 1} /\ UNCHANGED <<net, lost>>
      BY <2>9 DEF ReleaseAllIceTransmission
    <3> QED BY <1>0, <3>2, <3>3, <3>4, EmptyStep
  <2>10. CASE m.type = "answer" /\ AnswerRefused(p)
    <3>1. failures \in 0 .. MaxFailures /\ MaxFailures \in Nat
      BY NegotiationAssumption DEF IceInv, IceTypes
    <3>2. failures' \in 0 .. MaxFailures /\ UNCHANGED <<net, ufrags, lost>> /\ conns' = conns
      BY <2>10, <3>1 DEF AnswerRefused
    <3>3. conns \in [Peers -> Connections(ufrags)]
      BY DEF IceInv, IceTypes
    <3>4. conns' = [conns EXCEPT ![p] = conns[p]]
      BY <3>2, <3>3
    <3>5. Head(work[p]).type # "candidate"
      BY <2>1, <2>10
    <3> QED BY <1>0, <3>2, <3>4, <3>5, DropStep
  <2>11. CASE CandidateRefused(p, m)
    BY <1>0, <2>1, <2>11, LossStep
  <2> QED BY <2>2, <2>3, <2>4, <2>5, <2>6, <2>7, <2>8, <2>9, <2>10, <2>11
<1> QED BY <1>1, <1>2

\* The signalling thread hands a message to the worker, and may replace the
\* connection.
LEMMA SignalStep ==
    ASSUME IceInv, NEW p \in Peers, ProcessSignal(p)
    PROVE  IceInv'
<1>1. PICK q \in Peers : q = Other(p) /\ Other(q) = p /\ q # p
    BY PeersAre
<1>2. /\ net[p] # <<>> /\ net' = [net EXCEPT ![p] = Tail(net[p])]
      /\ work' = [work EXCEPT ![p] = Append(work[p], Head(net[p]))]
      /\ UNCHANGED <<ufrags, joins, lost, failures>>
    BY DEF ProcessSignal
<1>3. /\ net \in [Peers -> Seq(Letters(ufrags))] /\ work \in [Peers -> Seq(Letters(ufrags))]
      /\ conns \in [Peers -> Connections(ufrags)]
    BY DEF IceInv, IceTypes
<1>4. /\ Append(work[p], Head(net[p])) \o Tail(net[p]) = work[p] \o net[p]
      /\ Append(work[p], Head(net[p])) \in Seq(Letters(ufrags)) /\ Tail(net[p]) \in Seq(Letters(ufrags))
  <2>1. PICK a \in Seq(Letters(ufrags)) : a = work[p]
    BY <1>3, Zenon
  <2>2. PICK b \in Seq(Letters(ufrags)) : b = net[p]
    BY <1>3, Zenon
  <2>3. b # <<>>
    BY <1>2, <2>2
  <2>4. /\ Append(a, Head(b)) \o Tail(b) = a \o b
        /\ Append(a, Head(b)) \in Seq(Letters(ufrags)) /\ Tail(b) \in Seq(Letters(ufrags))
    BY <2>3, ConcatMoves
  <2> QED BY <2>1, <2>2, <2>4
<1>5. /\ net' \in [Peers -> Seq(Letters(ufrags))] /\ net'[p] = Tail(net[p]) /\ net'[q] = net[q]
      /\ work' \in [Peers -> Seq(Letters(ufrags))] /\ work'[p] = Append(work[p], Head(net[p]))
      /\ work'[q] = work[q]
    BY <1>1, <1>2, <1>3, <1>4
<1>6. Way(p)' = Way(p) /\ Way(q)' = Way(q)
    BY <1>4, <1>5 DEF Way
<1>7. PICK e : e = IF Head(net[p]).type \in {"join", "offer"} THEN NewConnection ELSE conns[p]
    OBVIOUS
<1>8. conns' = [conns EXCEPT ![p] = e] /\ overlapped' \in BOOLEAN
  <2>1. overlapped \in BOOLEAN
    BY DEF IceInv, IceTypes
  <2> QED BY <1>7, <2>1 DEF ProcessSignal
<1>9. /\ ufrags \in Nat /\ Sound(ufrags, lost, Way(p), conns[p], conns[q].t)
      /\ Sound(ufrags, lost, Way(q), conns[q], conns[p].t)
    BY <1>1, PeerIs
<1>10. Sound(ufrags, lost, Way(p), e, conns[q].t) /\ Sound(ufrags, lost, Way(q), conns[q], e.t)
  <2>1. CASE e = conns[p]
    BY <1>9, <2>1
  <2>2. CASE e = NewConnection
    <3>1. IsEmpty(e)
      BY <2>2 DEF IsEmpty
    <3>2. Sound(ufrags, lost, Way(p), e, conns[q].t)
      BY <1>9, <3>1, SoundEmpties
    <3>3. e.t.seen = {} /\ ~e.t.local_done
      BY <3>1, EmptySender
    <3> QED BY <1>9, <3>2, <3>3, SoundNewSender
  <2> QED BY <1>7, <2>1, <2>2
<1>11. joins' \in 0 .. JoinLimit /\ lost' \in 0 .. MaxLost /\ failures' \in 0 .. MaxFailures
    BY <1>2 DEF IceInv, IceTypes
<1>12. /\ net' \in [Peers -> Seq(Letters(ufrags'))] /\ work' \in [Peers -> Seq(Letters(ufrags'))]
       /\ ufrags' \in {ufrags, ufrags + 1}
    BY <1>2, <1>5
<1>13. /\ Sound(ufrags', lost', Way(p)', e, conns[Other(p)].t)
       /\ Sound(ufrags', lost', Way(Other(p))', conns[Other(p)], e.t)
    BY <1>1, <1>2, <1>6, <1>10
<1> QED BY <1>8, <1>11, <1>12, <1>13, StepIsSound

\* A change that the agent's own candidates make, none to what it has got.
LEMMA SoundGathers ==
    ASSUME NEW n \in Nat, NEW l, NEW S, NEW k, NEW q, Sound(n, l, S, k, q),
           NEW t \in Transports(n), SameAgent(k.t, t), t.pending = k.t.pending,
           t.me # NoUfrag, k.exists, NEW e, e = With(k, t)
    PROVE  Sound(n, l, S, e, q) /\ e.t = t /\ e.exists
<1>0. /\ S \in Seq(Letters(n)) /\ k \in Connections(n) /\ ConnectionOK(k) /\ Behind(S) /\ Passed(S, k)
    BY DEF Sound, Ordered
<1>1. e \in Connections(n) /\ e.exists = k.exists /\ e.pending = k.pending /\ e.t = t
  <2>1. e = [k EXCEPT !.t = t]
    BY DEF With
  <2> QED BY <1>0, <2>1 DEF Connections
<1>2. TransportOK(t)
    BY <1>0 DEF ConnectionOK, TransportOK, SameAgent
<1>3. ConnectionOK(e)
    BY <1>0, <1>1, <1>2 DEF ConnectionOK
<1>4. Held(e) = Held(k)
    BY <1>1 DEF Held, SameAgent
<1>5. Passed(S, e)
    BY <1>0, <1>1, <1>4 DEF Passed, SameAgent
<1>6. Ordered(n, S, e)
    BY <1>0, <1>1, <1>3, <1>5 DEF Ordered
<1>7. l = 0 => Whole(S, e.t, q)
  <2>1. ASSUME l = 0 PROVE Whole(S, e.t, q)
    <3>1. Whole(S, k.t, q) /\ SameAgent(k.t, e.t)
      BY <1>1, <2>1 DEF Sound
    <3> QED BY <3>1, AgentSame
  <2> QED BY <2>1
<1> QED BY <1>1, <1>6, <1>7 DEF Sound

LEMMA GatherIsSound ==
    ASSUME IceInv, NEW p \in Peers, conns[p].t.me # NoUfrag, conns[p].exists,
           NEW t \in Transports(ufrags), SameAgent(conns[p].t, t), t.pending = conns[p].t.pending,
           t.me = conns[p].t.me, NEW c \in Candidates \cup {EndOfCandidates},
           \A x \in t.seen : x \in conns[p].t.seen \/ x = c,
           t.local_done => conns[p].t.local_done \/ c = EndOfCandidates,
           c = EndOfCandidates => Candidates \subseteq conns[p].t.seen,
           conns' = [conns EXCEPT ![p] = With(conns[p], t)],
           Send(Other(p), Message("candidate", conns[p].t.me, c)),
           UNCHANGED <<work, ufrags, joins, failures, overlapped>>
    PROVE  IceInv'
<1>1. PICK q \in Peers : q = Other(p) /\ Other(q) = p
    BY PeersAre
<1>2. /\ ufrags \in Nat /\ lost \in Nat /\ Sound(ufrags, lost, Way(p), conns[p], conns[q].t)
      /\ conns[p].t.me \in 0 .. ufrags
    BY <1>1, PeerIs
<1>3. PICK e : e = With(conns[p], t)
    OBVIOUS
<1>4. Sound(ufrags, lost, Way(p), e, conns[q].t) /\ e.t = t
    BY <1>2, <1>3, SoundGathers
<1>5. PICK m : m = Message("candidate", conns[p].t.me, c)
    OBVIOUS
<1>6. m \in Letters(ufrags) /\ m.type = "candidate" /\ m.ufrag = conns[p].t.me /\ m.sdp = c
  <2>1. "candidate" \in Kinds
    BY DEF Kinds
  <2> QED BY <1>2, <1>5, <2>1, MessageIs
<1>7. /\ net' \in [Peers -> Seq(Letters(ufrags))] /\ net'[p] = net[p]
      /\ lost' \in 0 .. MaxLost /\ lost' \in {lost, lost + 1} /\ SentOrLost(q, m)
  <2>1. Send(q, m) /\ work'[q] = work[q]
    BY <1>1, <1>5
  <2>2. /\ net' \in [Peers -> Seq(Letters(ufrags))] /\ net'[Other(q)] = net[Other(q)]
        /\ lost' \in 0 .. MaxLost /\ lost' \in {lost, lost + 1} /\ SentOrLost(q, m)
    BY <1>6, <2>1, SendIs
  <2> QED BY <1>1, <2>2
<1>8. Way(p)' = Way(p)
    BY <1>7 DEF Way
<1>9. Sound(ufrags, lost', Way(p), e, conns[q].t)
    BY <1>2, <1>4, <1>7, SoundEither
<1>10. Sound(ufrags, lost', Way(q)', conns[q], e.t)
  <2>1. SentOrLost(Other(p), m)
    BY <1>1, <1>7
  <2>2. /\ e.t.me = conns[p].t.me
        /\ \A x \in e.t.seen : x \in conns[p].t.seen \/ x = m.sdp
        /\ e.t.local_done => conns[p].t.local_done \/ m.sdp = EndOfCandidates
        /\ m.sdp = EndOfCandidates => Candidates \subseteq conns[p].t.seen
    BY <1>4, <1>6
  <2>3. Sound(ufrags, lost', Way(Other(p))', conns[Other(p)], e.t)
    BY <1>6, <2>1, <2>2, Trickles
  <2> QED BY <1>1, <2>3
<1>11. joins' \in 0 .. JoinLimit /\ failures' \in 0 .. MaxFailures /\ overlapped' \in BOOLEAN
    BY DEF IceInv, IceTypes
<1>12. /\ net' \in [Peers -> Seq(Letters(ufrags'))] /\ work' \in [Peers -> Seq(Letters(ufrags'))]
       /\ ufrags' \in {ufrags, ufrags + 1} /\ lost' \in 0 .. MaxLost
    BY <1>7 DEF IceInv, IceTypes
<1>13. /\ Sound(ufrags', lost', Way(p)', e, conns[Other(p)].t)
       /\ Sound(ufrags', lost', Way(Other(p))', conns[Other(p)], e.t)
       /\ conns' = [conns EXCEPT ![p] = e]
    BY <1>1, <1>3, <1>8, <1>9, <1>10
<1> QED BY <1>11, <1>12, <1>13, StepIsSound

\* Only a transport that is there gathers.
LEMMA GatheringIsThere ==
    ASSUME IceInv, NEW p \in Peers, conns[p].t.gathering
    PROVE  conns[p].t.me # NoUfrag /\ conns[p].exists
<1>1. ConnectionOK(conns[p])
    BY PeerIs
<1>2. conns[p].t # NoTransport
    BY NoTransportIs
<1>3. conns[p].t.me # NoUfrag
    BY <1>1, <1>2 DEF ConnectionOK, TransportOK
<1>4. conns[p].exists
  <2>1. ASSUME ~conns[p].exists PROVE FALSE
    <3>1. conns[p] = NoConnection
      BY <1>1, <2>1 DEF ConnectionOK
    <3>2. IsEmpty(conns[p])
      BY <3>1 DEF IsEmpty
    <3> QED BY <1>2, <3>2, EmptyIs
  <2> QED BY <2>1
<1> QED BY <1>3, <1>4

\* OnNewLocalCandidate.
LEMMA CandidateGathered ==
    ASSUME IceInv, NEW p \in Peers, OnNewLocalCandidate(p)
    PROVE  IceInv'
<1>1. conns[p].t.gathering /\ UNCHANGED <<work, ufrags, joins, failures, overlapped>>
    BY DEF OnNewLocalCandidate
<1>2. PICK c \in Candidates \ conns[p].t.seen :
         /\ conns' = [conns EXCEPT ![p].t.seen = @ \cup {c}]
         /\ Send(Other(p), Message("candidate", conns[p].t.me, c))
    BY DEF OnNewLocalCandidate
<1>3. conns[p].t.me # NoUfrag /\ conns[p].exists
    BY <1>1, GatheringIsThere
<1>4. conns[p] \in Connections(ufrags) /\ conns[p].t \in Transports(ufrags) /\ conns[p].t.seen \subseteq Candidates
    BY PeerIs
<1>5. PICK s : s = conns[p].t.seen \cup {c}
    OBVIOUS
<1>6. PICK k \in Transports(ufrags) : k = conns[p].t
    BY <1>4, Zenon
<1>7. PICK t : t = [k EXCEPT !.seen = s]
    OBVIOUS
<1>8. s \in SUBSET Candidates
    BY <1>4, <1>5
<1>9. /\ t \in Transports(ufrags) /\ t.me = k.me /\ t.remote = k.remote /\ t.pending = k.pending
      /\ t.keys = k.keys /\ t.remote_done = k.remote_done /\ t.local_done = k.local_done /\ t.seen = s
    BY <1>7, <1>8 DEF Transports
<1>10. conns' = [conns EXCEPT ![p] = With(conns[p], t)]
    BY <1>2, <1>5, <1>6, <1>7 DEF With
<1>11. /\ SameAgent(conns[p].t, t) /\ t.pending = conns[p].t.pending /\ t.me = conns[p].t.me
       /\ \A x \in t.seen : x \in conns[p].t.seen \/ x = c
       /\ t.local_done => conns[p].t.local_done \/ c = EndOfCandidates
    BY <1>5, <1>6, <1>9 DEF SameAgent
<1>12. c # EndOfCandidates /\ c \in Candidates \cup {EndOfCandidates}
    BY EndIsNone
<1> QED BY <1>1, <1>2, <1>3, <1>9, <1>10, <1>11, <1>12, GatherIsSound

\* OnGatheringDone.
LEMMA GatheringEnds ==
    ASSUME IceInv, NEW p \in Peers, OnGatheringDone(p)
    PROVE  IceInv'
<1>1. /\ conns[p].t.gathering /\ conns[p].t.seen = Candidates
      /\ conns' = [conns EXCEPT ![p].t = [@ EXCEPT !.gathering = FALSE, !.local_done = TRUE]]
      /\ Send(Other(p), Message("candidate", conns[p].t.me, EndOfCandidates))
      /\ UNCHANGED <<work, ufrags, joins, failures, overlapped>>
    BY DEF OnGatheringDone
<1>3. conns[p].t.me # NoUfrag /\ conns[p].exists
    BY <1>1, GatheringIsThere
<1>4. conns[p] \in Connections(ufrags) /\ conns[p].t \in Transports(ufrags)
    BY PeerIs
<1>6. PICK k \in Transports(ufrags) : k = conns[p].t
    BY <1>4, Zenon
<1>7. PICK t : t = [k EXCEPT !.gathering = FALSE, !.local_done = TRUE]
    OBVIOUS
<1>9. /\ t \in Transports(ufrags) /\ t.me = k.me /\ t.remote = k.remote /\ t.pending = k.pending
      /\ t.keys = k.keys /\ t.remote_done = k.remote_done /\ t.seen = k.seen
    BY <1>7 DEF Transports
<1>10. conns' = [conns EXCEPT ![p] = With(conns[p], t)]
    BY <1>1, <1>6, <1>7 DEF With
<1>8. PICK c \in Candidates \cup {EndOfCandidates} : c = EndOfCandidates
    OBVIOUS
<1>11. /\ SameAgent(conns[p].t, t) /\ t.pending = conns[p].t.pending /\ t.me = conns[p].t.me
       /\ \A x \in t.seen : x \in conns[p].t.seen \/ x = c
    BY <1>6, <1>9 DEF SameAgent
<1>12. /\ t \in Transports(ufrags)
       /\ t.local_done => conns[p].t.local_done \/ c = EndOfCandidates
       /\ c = EndOfCandidates => Candidates \subseteq conns[p].t.seen
       /\ Send(Other(p), Message("candidate", conns[p].t.me, c))
    BY <1>1, <1>8, <1>9
<1> QED BY <1>1, <1>3, <1>10, <1>11, <1>12, GatherIsSound

LEMMA ConcatOne ==
    ASSUME NEW L, NEW b \in Seq(L), NEW x \in L, NEW y \in L
    PROVE  /\ b \o <<x>> \o <<y>> = Append(Append(b, x), y) /\ b \o <<>> \o <<y>> = Append(b, y)
           /\ Append(b, x) \in Seq(L) /\ Append(b, y) \in Seq(L) /\ Append(Append(b, x), y) \in Seq(L)
OBVIOUS

\* The server announces a, which may have left before.
LEMMA JoinIsSound ==
    ASSUME IceInv, NEW leaving \in BOOLEAN, Join(leaving)
    PROVE  IceInv'
<1>1. "a" \in Peers /\ "o" \in Peers /\ Other("a") = "o" /\ Other("o") = "a" /\ "o" # "a"
    BY DEF Peers, Other
<1>2. PICK x : x = Message("leave", NoUfrag, NoUfrag)
    OBVIOUS
<1>3. PICK y : y = Message("join", NoUfrag, NoUfrag)
    OBVIOUS
<1>4. ufrags \in Nat /\ lost \in Nat
    BY <1>1, PeerIs
<1>5. x \in Letters(ufrags) /\ x.type \in {"join", "leave"} /\ y \in Letters(ufrags) /\ y.type \in {"join", "leave"}
  <2>1. "leave" \in Kinds /\ "join" \in Kinds
    BY DEF Kinds
  <2>2. NoUfrag \in 0 .. ufrags /\ NoUfrag \in Candidates \cup {EndOfCandidates}
    BY <1>4 DEF NoUfrag, EndOfCandidates
  <2>3. "leave" \notin Descriptions \cup {"candidate"} /\ "join" \notin Descriptions \cup {"candidate"}
    BY DEF Descriptions
  <2>4. x \in Letters(ufrags) /\ x.type = "leave"
    BY <1>2, <1>4, <2>1, <2>2, <2>3, MessageIs
  <2>5. y \in Letters(ufrags) /\ y.type = "join"
    BY <1>3, <1>4, <2>1, <2>2, <2>3, MessageIs
  <2> QED BY <2>4, <2>5
<1>6. PICK a \in Seq(Letters(ufrags)) : a = work["o"]
    BY <1>1, Zenon DEF IceInv, IceTypes
<1>7. PICK b \in Seq(Letters(ufrags)) : b = net["o"]
    BY <1>1, Zenon DEF IceInv, IceTypes
<1>8. PICK e : e = IF leaving THEN NoConnection ELSE conns["a"]
    OBVIOUS
<1>9. net \in [Peers -> Seq(Letters(ufrags))] /\ conns \in [Peers -> Connections(ufrags)]
    BY DEF IceInv, IceTypes
<1>10. conns' = [conns EXCEPT !["a"] = e]
    BY <1>8, <1>9 DEF Join
<1>11. PICK d : d = IF leaving THEN Append(Append(b, x), y) ELSE Append(b, y)
    OBVIOUS
<1>12. /\ b \o <<x>> \o <<y>> = Append(Append(b, x), y) /\ b \o <<>> \o <<y>> = Append(b, y)
       /\ Append(b, x) \in Seq(Letters(ufrags)) /\ Append(b, y) \in Seq(Letters(ufrags))
       /\ Append(Append(b, x), y) \in Seq(Letters(ufrags))
    BY <1>5, ConcatOne
<1>13. net' = [net EXCEPT !["o"] = d] /\ d \in Seq(Letters(ufrags))
  <2>1. net' = [net EXCEPT !["o"] = b \o (IF leaving THEN <<x>> ELSE <<>>) \o <<y>>]
    BY <1>2, <1>3, <1>7 DEF Join
  <2>2. CASE leaving
    BY <1>11, <1>12, <2>1, <2>2
  <2>3. CASE ~leaving
    BY <1>11, <1>12, <2>1, <2>3
  <2> QED BY <2>2, <2>3
<1>14. net' \in [Peers -> Seq(Letters(ufrags))] /\ net'["o"] = d /\ net'["a"] = net["a"]
    BY <1>1, <1>9, <1>13
<1>15. UNCHANGED <<work, ufrags, lost, failures>> /\ joins' \in 0 .. JoinLimit /\ overlapped' \in BOOLEAN
  <2>1. joins \in 0 .. JoinLimit /\ JoinLimit \in Nat /\ overlapped \in BOOLEAN
    BY NegotiationAssumption DEF IceInv, IceTypes
  <2> QED BY <2>1 DEF Join
<1>16. Way("a")' = Way("a") /\ Way("o") = a \o b /\ Way("o")' = a \o d
    BY <1>6, <1>7, <1>14, <1>15 DEF Way
<1>17. /\ Sound(ufrags, lost, Way("a"), conns["a"], conns["o"].t)
       /\ Sound(ufrags, lost, Way("o"), conns["o"], conns["a"].t) /\ conns["a"].t.me \in 0 .. ufrags
    BY <1>1, PeerIs
<1>18. /\ Sound(ufrags, lost, Way("a"), e, conns["o"].t)
       /\ Sound(ufrags, lost, Way("o"), conns["o"], e.t) /\ e.t.me \in 0 .. ufrags
  <2>1. CASE e = conns["a"]
    BY <1>17, <2>1
  <2>2. CASE e = NoConnection
    <3>1. IsEmpty(e)
      BY <2>2 DEF IsEmpty
    <3>2. Sound(ufrags, lost, Way("a"), e, conns["o"].t)
      BY <1>4, <1>17, <3>1, SoundEmpties
    <3>3. e.t.seen = {} /\ ~e.t.local_done
      BY <3>1, EmptySender
    <3>4. e.t = NoTransport
      BY <3>1, EmptyIs
    <3>5. e.t.me \in 0 .. ufrags
      BY <1>4, <3>4, NoTransportIs DEF NoUfrag
    <3> QED BY <1>17, <3>2, <3>3, <3>5, SoundNewSender
  <2> QED BY <1>8, <2>1, <2>2
<1>19. Sound(ufrags, lost, Way("o")', conns["o"], e.t)
  <2>1. CASE leaving
    <3>1. d = Append(Append(b, x), y)
      BY <1>11, <2>1
    <3>2. a \o Append(b, x) = Append(a \o b, x)
      BY <1>5, ConcatAppend
    <3>3. a \o Append(Append(b, x), y) = Append(a \o Append(b, x), y)
      BY <1>5, <1>12, ConcatAppend
    <3>4. Sound(ufrags, lost, Append(Way("o"), x), conns["o"], e.t)
      BY <1>4, <1>5, <1>18, SoundAnnounces
    <3>5. Sound(ufrags, lost, Append(Append(Way("o"), x), y), conns["o"], e.t)
      BY <1>4, <1>5, <1>18, <3>4, SoundAnnounces
    <3> QED BY <1>16, <3>1, <3>2, <3>3, <3>5
  <2>2. CASE ~leaving
    <3>1. d = Append(b, y)
      BY <1>11, <2>2
    <3>2. a \o Append(b, y) = Append(a \o b, y)
      BY <1>5, ConcatAppend
    <3>3. Sound(ufrags, lost, Append(Way("o"), y), conns["o"], e.t)
      BY <1>4, <1>5, <1>18, SoundAnnounces
    <3> QED BY <1>16, <3>1, <3>2, <3>3
  <2> QED BY <2>1, <2>2
<1>20. /\ net' \in [Peers -> Seq(Letters(ufrags'))] /\ work' \in [Peers -> Seq(Letters(ufrags'))]
       /\ ufrags' \in {ufrags, ufrags + 1} /\ lost' \in 0 .. MaxLost /\ failures' \in 0 .. MaxFailures
    BY <1>14, <1>15 DEF IceInv, IceTypes
<1>21. /\ Sound(ufrags', lost', Way("a")', e, conns[Other("a")].t)
       /\ Sound(ufrags', lost', Way(Other("a"))', conns[Other("a")], e.t)
    BY <1>1, <1>15, <1>16, <1>18, <1>19
<1> QED BY <1>1, <1>10, <1>15, <1>20, <1>21, StepIsSound

\* Nothing is on its way, and nobody has a connection.
LEMMA InitIsSound ==
    ASSUME IceInit
    PROVE  IceInv
<1>1. /\ ufrags = 0 /\ lost = 0 /\ net = [p \in Peers |-> <<>>] /\ work = [p \in Peers |-> <<>>]
      /\ conns = [p \in Peers |-> NoConnection]
    BY DEF IceInit
<1>2. IsEmpty(NoConnection)
    BY DEF IsEmpty
<1>3. NoConnection \in Connections(0) /\ ConnectionOK(NoConnection) /\ Held(NoConnection) = {} /\ NoConnection.t = NoTransport
    BY <1>2, EmptyIs
<1>4. /\ NoTransport.me = NoUfrag /\ NoTransport.remote = NoUfrag /\ NoTransport.keys = {}
      /\ ~NoTransport.remote_done /\ NoTransport.seen = {} /\ ~NoTransport.local_done
    BY NoTransportIs
<1>5. IceTypes
  <2>1. <<>> \in Seq(Letters(0))
    OBVIOUS
  <2>a. PICK s \in Seq(Letters(0)) : s = <<>>
    BY <2>1, Zenon
  <2>b. net = [p \in Peers |-> s] /\ work = [p \in Peers |-> s]
    BY <1>1, <2>a
  <2>2. net \in [Peers -> Seq(Letters(0))] /\ work \in [Peers -> Seq(Letters(0))]
    BY <2>b
  <2>3. conns \in [Peers -> Connections(0)]
    BY <1>1, <1>3
  <2>4. joins \in 0 .. JoinLimit /\ lost \in 0 .. MaxLost /\ failures \in 0 .. MaxFailures /\ overlapped \in BOOLEAN
    <3>1. JoinLimit \in Nat /\ MaxLost \in Nat /\ MaxFailures \in Nat
      BY NegotiationAssumption
    <3>2. joins = 0 /\ lost = 0 /\ failures = 0 /\ overlapped = FALSE
      BY DEF IceInit
    <3>3. joins \in 0 .. JoinLimit /\ lost \in 0 .. MaxLost /\ failures \in 0 .. MaxFailures
      BY <3>1, <3>2
    <3>4. overlapped \in BOOLEAN
      BY <3>2
    <3> QED BY <3>3, <3>4
  <2> QED BY <1>1, <2>2, <2>3, <2>4 DEF IceTypes
<1>6. ASSUME NEW p \in Peers PROVE Sound(ufrags, lost, Way(p), conns[p], conns[Other(p)].t)
  <2>1. Way(p) = <<>>
    BY <1>1 DEF Way
  <2>2. conns[p] = NoConnection /\ conns[Other(p)] = NoConnection
    BY <1>1, PeersAre
  <2>3. Behind(<<>>) /\ Passed(<<>>, NoConnection)
    BY <1>3 , <1>4 DEF Behind, Passed
  <2>4. Whole(<<>>, NoTransport, NoTransport)
    BY <1>4 DEF Whole, MarkersLast, SeenIsSent, DoneIsSent, DoneIsComplete
  <2>5. <<>> \in Seq(Letters(0))
    OBVIOUS
  <2>6. Ordered(0, <<>>, NoConnection)
    BY <1>3, <2>3, <2>5 DEF Ordered
  <2>7. Sound(0, 0, <<>>, NoConnection, NoConnection.t)
    BY <1>3, <2>4, <2>6 DEF Sound
  <2> QED BY <1>1, <2>1, <2>2, <2>7
<1> QED BY <1>5, <1>6 DEF IceInv

\* Every step keeps the invariant.
LEMMA IceInvStays ==
    ASSUME IceInv, [IceNext]_ice_vars
    PROVE  IceInv'
<1>1. CASE \E p \in Peers : Step(p)
  <2>1. PICK p \in Peers : Step(p)
    BY <1>1
  <2> QED BY <2>1, SignalStep, WorkStep, CandidateGathered, GatheringEnds DEF Step
<1>2. CASE \E leaving \in BOOLEAN : Join(leaving)
    BY <1>2, JoinIsSound
<1>3. CASE UNCHANGED ice_vars
    BY <1>3 DEF IceInv, IceTypes, Way, ice_vars
<1> QED BY <1>1, <1>2, <1>3 DEF IceNext

\* Whatever is on its way between the two peers, and whatever they have kept of
\* it, belongs together, in every reachable state.
THEOREM NegotiationInvariant == IceSpec => []IceInv
<1>1. IceInit => IceInv
    BY InitIsSound
<1>2. IceInv /\ [IceNext]_ice_vars => IceInv'
    BY IceInvStays
<1> QED BY <1>1, <1>2, PTL DEF IceSpec

\* What the invariant says of what an agent was given.
LEMMA InvIsSound ==
    ASSUME IceInv
    PROVE  CandidatesAreSound
<1>1. ufrags \in Nat /\ Letters(ufrags) \subseteq Messages
  <2>1. ufrags \in Nat
    BY DEF IceInv, IceTypes
  <2> QED BY <2>1, Zenon DEF Letters, Messages, Kinds, Ufrags
<1>2. Seq(Letters(ufrags)) \subseteq Seq(Messages)
    BY <1>1, SeqGrows
<1>3. ASSUME NEW p \in Peers
      PROVE  /\ conns[p].exists \in BOOLEAN
             /\ conns[p].pending \in Seq(Messages) /\ Len(conns[p].pending) <= MaxPending
             /\ conns[p].t.pending \in Seq(Messages) /\ Len(conns[p].t.pending) <= MaxPending
             /\ {conns[p].t.me, conns[p].t.remote} \subseteq Ufrags
             /\ conns[p].t.keys \subseteq Messages
             /\ \A m \in conns[p].t.keys : m.ufrag = conns[p].t.remote
  <2>1. /\ conns[p] \in Connections(ufrags) /\ conns[p].t \in Transports(ufrags)
        /\ ConnectionOK(conns[p])
    BY PeerIs
  <2>2. /\ conns[p].exists \in BOOLEAN /\ conns[p].pending \in Seq(Letters(ufrags))
    BY <1>1, <2>1, ConnectionFields
  <2>3. /\ conns[p].t.pending \in Seq(Letters(ufrags)) /\ conns[p].t.keys \subseteq Letters(ufrags)
        /\ conns[p].t.me \in 0 .. ufrags /\ conns[p].t.remote \in 0 .. ufrags
    BY <1>1, <2>1, TransportFields
  <2>4. /\ Len(conns[p].pending) <= MaxPending /\ Len(conns[p].t.pending) <= MaxPending
        /\ \A m \in conns[p].t.keys : m.ufrag = conns[p].t.remote
    BY <2>1 DEF ConnectionOK, TransportOK, Early
  <2> QED BY <1>1, <1>2, <2>2, <2>3, <2>4 DEF Ufrags
<1>4. IceTypeOK
  <2>1. net \in [Peers -> Seq(Messages)] /\ work \in [Peers -> Seq(Messages)]
    BY <1>2 DEF IceInv, IceTypes
  <2>2. joins \in 0 .. JoinLimit /\ lost \in 0 .. MaxLost /\ failures \in 0 .. MaxFailures
    BY DEF IceInv, IceTypes
  <2> QED BY <1>3, <2>1, <2>2 DEF IceTypeOK
<1>5. CandidatesAreCurrent
    BY <1>3 DEF CandidatesAreCurrent
<1>6. CompletionIsComplete
  <2> SUFFICES ASSUME NEW p \in Peers, conns[p].t.remote_done, lost = 0
               PROVE  {m.sdp : m \in conns[p].t.keys} = Candidates
    BY DEF CompletionIsComplete
  <2>1. /\ conns[p].t \in Transports(ufrags) /\ ConnectionOK(conns[p])
        /\ Sound(ufrags, lost, Way(p), conns[p], conns[Other(p)].t)
    BY PeerIs
  <2>2. \A c \in Candidates : \E m \in conns[p].t.keys : m.sdp = c
    BY <2>1 DEF Sound, Whole, DoneIsComplete
  <2>3. conns[p].t.keys \subseteq Letters(ufrags)
    BY <1>1, <2>1, TransportFields
  <2>4. \A m \in conns[p].t.keys : m.sdp \in Candidates
    <3>1. \A m \in conns[p].t.keys : m.sdp \in Candidates \cup {EndOfCandidates}
      BY <1>1, <2>3, LetterIs
    <3>2. \A m \in conns[p].t.keys : m.sdp # EndOfCandidates
      BY <2>1 DEF ConnectionOK, TransportOK
    <3> QED BY <3>1, <3>2
  <2> QED BY <2>2, <2>4
<1> QED BY <1>4, <1>5, <1>6 DEF CandidatesAreSound

\* An agent is given candidates of the exchange it is in only, and one that was
\* told that there are no more has them all, unless signalling lost one.
THEOREM CandidatesStaySound == IceSpec => []CandidatesAreSound
<1>1. IceInv => CandidatesAreSound
    BY InvIsSound
<1> QED BY <1>1, NegotiationInvariant, PTL
-----------------------------------------------------------------------------
(* The phases of an exchange                                                 *)

LEMMA OnlyTail ==
    ASSUME NEW L, NEW S \in Seq(L), S # <<>>, NEW K, Only(S, K)
    PROVE  Only(Tail(S), K) /\ S[1].type \in K
<1>1. PICK T : T = Tail(S)
    OBVIOUS
<1>2. 1 \in DOMAIN S /\ \A i \in DOMAIN T : i + 1 \in DOMAIN S /\ T[i] = S[i + 1]
    BY <1>1, TailIs
<1> QED BY <1>1, <1>2 DEF Only

LEMMA OnlyAppend ==
    ASSUME NEW L, NEW S \in Seq(L), NEW m \in L, NEW K, Only(S, K), m.type \in K
    PROVE  Only(Append(S, m), K)
<1>1. PICK T : T = Append(S, m)
    OBVIOUS
<1>2. /\ T[Len(T)] = m /\ \A i \in DOMAIN S : T[i] = S[i]
      /\ \A i \in DOMAIN T : i = Len(T) \/ (i \in DOMAIN S)
    BY <1>1, AppendIs
<1> QED BY <1>1, <1>2 DEF Only

LEMMA OnlyMarks ==
    ASSUME NEW L, NEW S \in Seq(L), NEW m \in L, NEW K, Only(S, K),
           NEW T, T = Append(S, m)
    PROVE  /\ Marked(T, Len(T), m.type, K) /\ T[Len(T)] = m /\ Len(T) = Len(S) + 1
           /\ Len(T) \in DOMAIN T
<1>2. /\ T[Len(T)] = m /\ (\A i \in DOMAIN S : T[i] = S[i]) /\ Len(T) \in DOMAIN T
      /\ \A i \in DOMAIN T : i \in Nat /\ i <= Len(T) /\ (i = Len(T) \/ (i \in DOMAIN S))
      /\ Len(T) = Len(S) + 1 /\ Len(S) \in Nat
    BY AppendIs
<1>3. ASSUME NEW i \in DOMAIN T PROVE (i < Len(T) => T[i].type \in K) /\ ~(i > Len(T))
  <2>1. i \in Nat /\ i <= Len(T) /\ (i = Len(T) \/ (i \in DOMAIN S))
    BY <1>2
  <2>2. ~(i > Len(T)) /\ (i < Len(T) => i \in DOMAIN S)
    BY <1>2, <2>1
  <2> QED BY <1>2, <2>2 DEF Only
<1> QED BY <1>2, <1>3 DEF Marked

LEMMA MarkedTail ==
    ASSUME NEW L, NEW S \in Seq(L), S # <<>>, NEW j, NEW kind, NEW K, Marked(S, j, kind, K),
           j # 1
    PROVE  /\ Marked(Tail(S), j - 1, kind, K) /\ Tail(S)[j - 1] = S[j] /\ S[1].type \in K
           /\ j \in Nat /\ j - 1 \in DOMAIN Tail(S)
<1>1. PICK T : T = Tail(S)
    OBVIOUS
<1>2. /\ 1 \in DOMAIN S
      /\ \A i \in DOMAIN T : i + 1 \in DOMAIN S /\ T[i] = S[i + 1] /\ i \in Nat
      /\ \A i \in DOMAIN S : i \in Nat /\ (i = 1 \/ (i - 1 \in DOMAIN T /\ T[i - 1] = S[i]))
    BY <1>1, TailIs
<1>3. j \in DOMAIN S /\ S[j].type = kind
    BY DEF Marked
<1>4. j \in Nat /\ j - 1 \in DOMAIN T /\ T[j - 1] = S[j] /\ 1 < j
  <2>1. j \in 1 .. Len(S)
    BY <1>3
  <2> QED BY <1>2, <1>3, <2>1
<1>5. ASSUME NEW i \in DOMAIN T
      PROVE  (i < j - 1 => T[i].type \in K) /\ (i > j - 1 => T[i].type = "candidate")
  <2>1. i + 1 \in DOMAIN S /\ T[i] = S[i + 1] /\ i \in Nat
    BY <1>2
  <2>2. (i + 1 < j => S[i + 1].type \in K) /\ (i + 1 > j => S[i + 1].type = "candidate")
    BY <2>1 DEF Marked
  <2> QED BY <1>4, <2>1, <2>2
<1>6. Marked(T, j - 1, kind, K)
    BY <1>3, <1>4, <1>5 DEF Marked
<1>7. S[1].type \in K
    BY <1>2, <1>4 DEF Marked
<1> QED BY <1>1, <1>4, <1>6, <1>7

LEMMA MarkedFirst ==
    ASSUME NEW L, NEW S \in Seq(L), S # <<>>, NEW kind, NEW K, Marked(S, 1, kind, K)
    PROVE  Only(Tail(S), {"candidate"}) /\ S[1].type = kind
<1>1. PICK T : T = Tail(S)
    OBVIOUS
<1>2. \A i \in DOMAIN T : i + 1 \in DOMAIN S /\ T[i] = S[i + 1] /\ i \in Nat
    BY <1>1, TailIs
<1>3. ASSUME NEW i \in DOMAIN T PROVE T[i].type = "candidate"
  <2>1. i + 1 \in DOMAIN S /\ T[i] = S[i + 1]
    BY <1>2
  <2>2. i + 1 > 1
    BY <1>1, TailIs
  <2> QED BY <2>1, <2>2 DEF Marked
<1> QED BY <1>1, <1>3 DEF Marked, Only

LEMMA MarkedAppend ==
    ASSUME NEW L, NEW S \in Seq(L), NEW m \in L, NEW j, NEW kind, NEW K, Marked(S, j, kind, K),
           m.type = "candidate"
    PROVE  /\ Marked(Append(S, m), j, kind, K) /\ Append(S, m)[j] = S[j]
           /\ j \in DOMAIN Append(S, m)
<1>1. PICK T : T = Append(S, m)
    OBVIOUS
<1>2. /\ T[Len(T)] = m /\ \A i \in DOMAIN S : i \in DOMAIN T /\ T[i] = S[i] /\ i \in Nat /\ i <= Len(S)
      /\ \A i \in DOMAIN T : i = Len(T) \/ (i \in DOMAIN S)
      /\ Len(T) = Len(S) + 1 /\ Len(S) \in Nat
    BY <1>1, AppendIs
<1>3. j \in DOMAIN T /\ T[j] = S[j] /\ S[j].type = kind /\ j \in Nat /\ j <= Len(S)
    BY <1>2 DEF Marked
<1>4. ASSUME NEW i \in DOMAIN T
      PROVE  (i < j => T[i].type \in K) /\ (i > j => T[i].type = "candidate")
  <2>1. CASE i = Len(T)
    BY <1>2, <1>3, <2>1
  <2>2. CASE i \in DOMAIN S
    BY <1>2, <2>2 DEF Marked
  <2> QED BY <1>2, <2>1, <2>2
<1>5. Marked(T, j, kind, K)
    BY <1>3, <1>4 DEF Marked
<1> QED BY <1>1, <1>3, <1>5

LEMMA ConcatAt ==
    ASSUME NEW L, NEW a \in Seq(L), NEW b \in Seq(L), b # <<>>
    PROVE  /\ (a \o b)[Len(a) + 1] = Head(b) /\ Len(a) + 1 \in DOMAIN (a \o b) /\ Len(a) \in Nat
           /\ \A i \in 1 .. Len(a) : (a \o b)[i] = a[i]
           /\ Len(Append(a, Head(b))) = Len(a) + 1
OBVIOUS

\* What ProcessSignal does, seen from the way: the message m at its place w + 1
\* is the worker's now.
Handed(p, w, m) ==
    /\ w = Len(work[p]) /\ w \in Nat /\ w + 1 \in DOMAIN Way(p) /\ m = Way(p)[w + 1]
    /\ Way(p)' = Way(p) /\ Way(Other(p))' = Way(Other(p)) /\ joins' = joins
    /\ Len(work[p])' = w + 1 /\ work'[Other(p)] = work[Other(p)]
    /\ conns'[Other(p)] = conns[Other(p)]
    /\ m.type \notin {"join", "offer"} => conns'[p] = conns[p]
    /\ m.type \in {"join", "offer"} => conns'[p] = NewConnection
    /\ (m.type \in {"join", "offer"} /\ ~overlapped') =>
         \A i \in 1 .. w : Way(p)[i].type \notin {"join", "leave", "offer"}
    /\ Clean' => Clean

LEMMA SignalEffect ==
    ASSUME IceInv, NEW p \in Peers, ProcessSignal(p)
    PROVE  Handed(p, Len(work[p]), Way(p)[Len(work[p]) + 1])
<1>1. PICK q \in Peers : q = Other(p) /\ Other(q) = p /\ q # p
    BY PeersAre
<1>2. /\ net[p] # <<>> /\ net' = [net EXCEPT ![p] = Tail(net[p])]
      /\ work' = [work EXCEPT ![p] = Append(work[p], Head(net[p]))]
      /\ UNCHANGED <<ufrags, joins, lost, failures>>
    BY DEF ProcessSignal
<1>3. /\ net \in [Peers -> Seq(Letters(ufrags))] /\ work \in [Peers -> Seq(Letters(ufrags))]
      /\ conns \in [Peers -> Connections(ufrags)] /\ overlapped \in BOOLEAN
    BY DEF IceInv, IceTypes
<1>4. PICK a \in Seq(Letters(ufrags)) : a = work[p]
    BY <1>3, Zenon
<1>5. PICK b \in Seq(Letters(ufrags)) : b = net[p]
    BY <1>3, Zenon
<1>6. b # <<>>
    BY <1>2, <1>5
<1>7. Append(a, Head(b)) \o Tail(b) = a \o b
    BY <1>6, ConcatMoves
<1>8. /\ (a \o b)[Len(a) + 1] = Head(b) /\ Len(a) + 1 \in DOMAIN (a \o b) /\ Len(a) \in Nat
      /\ \A i \in 1 .. Len(a) : (a \o b)[i] = a[i]
      /\ Len(Append(a, Head(b))) = Len(a) + 1
    BY <1>6, ConcatAt
<1>9. /\ net'[p] = Tail(b) /\ net'[q] = net[q] /\ work'[p] = Append(a, Head(b)) /\ work'[q] = work[q]
    BY <1>1, <1>2, <1>3, <1>4, <1>5
<1>10. Way(p) = a \o b /\ Way(p)' = Way(p) /\ Way(q)' = Way(q)
    BY <1>4, <1>5, <1>7, <1>9 DEF Way
<1>11. PICK m : m = Head(b)
    OBVIOUS
<1>12. PICK e : e = IF m.type \in {"join", "offer"} THEN NewConnection ELSE conns[p]
    OBVIOUS
<1>13. conns' = [conns EXCEPT ![p] = e]
    BY <1>5, <1>11, <1>12 DEF ProcessSignal
<1>14. conns'[p] = e /\ conns'[q] = conns[q]
    BY <1>1, <1>3, <1>13
<1>15. overlapped' = (overlapped \/ (m.type \in {"join", "offer"} /\ InFlight(a, {"join", "leave", "offer"})))
    BY <1>4, <1>5, <1>11 DEF ProcessSignal
<1>16. ASSUME m.type \in {"join", "offer"}, ~overlapped', NEW i \in 1 .. Len(a)
       PROVE  Way(p)[i].type \notin {"join", "leave", "offer"}
  <2>0. i \in DOMAIN a
    BY <1>16
  <2>1. ~InFlight(a, {"join", "leave", "offer"})
    BY <1>15, <1>16, Zenon
  <2>2. a[i].type \notin {"join", "leave", "offer"}
    BY <2>0, <2>1, Zenon DEF InFlight
  <2> QED BY <1>8, <1>10, <2>2
<1>17. Clean' => Clean
    BY <1>2, <1>15 DEF Clean
<1>18. Len(work[p])' = Len(a) + 1
    BY <1>8, <1>9
<1> QED BY <1>1, <1>2, <1>4, <1>8, <1>9, <1>10, <1>11, <1>12, <1>14, <1>16, <1>17, <1>18, SMT DEF Handed

LEMMA NewIsWaiting ==
    IsWaiting(NewConnection)
<1>1. IsEmpty(NewConnection) /\ 0 \in Nat
    BY DEF IsEmpty
<1>2. NewConnection.t = NoTransport /\ NewConnection.exists = (NewConnection = NewConnection)
    BY <1>1, EmptyIs
<1> QED BY <1>2 DEF IsWaiting

\* Handing on keeps the join phase, as no leave is before the join by then.
LEMMA JoinHanded ==
    ASSUME NEW L, NEW S \in Seq(L), NEW w \in Nat, NEW k, NEW T, JoinPhase(w, S, k, T),
           w + 1 \in DOMAIN S, NEW e,
           S[w + 1].type \notin {"join", "offer"} => e = k,
           S[w + 1].type \in {"join", "offer"} =>
             e = NewConnection /\ \A i \in 1 .. w : S[i].type \notin {"join", "leave", "offer"}
    PROVE  JoinPhase(w + 1, S, e, T)
<1>1. PICK j \in DOMAIN S :
         /\ Marked(S, j, "join", {"leave", "answer", "candidate"})
         /\ j <= w => IsWaiting(k) /\ Marked(S, j, "join", {"answer", "candidate"})
    BY DEF JoinPhase
<1>2. j \in Nat /\ j >= 1
  <2>1. j \in 1 .. Len(S)
    OBVIOUS
  <2> QED BY <2>1
<1>3. CASE j <= w
  <2>1. S[w + 1].type = "candidate"
    BY <1>1, <1>2, <1>3 DEF Marked
  <2>2. IsWaiting(e) /\ Marked(S, j, "join", {"answer", "candidate"})
    BY <1>1, <1>3, <2>1
  <2> QED BY <1>1, <2>2 DEF JoinPhase
<1>4. CASE j = w + 1
  <2>1. S[w + 1].type = "join"
    BY <1>1, <1>4 DEF Marked
  <2>2. IsWaiting(e) /\ \A i \in 1 .. w : S[i].type # "leave"
    BY <2>1, NewIsWaiting
  <2>3. Marked(S, j, "join", {"answer", "candidate"})
    <3>1. ASSUME NEW i \in DOMAIN S, i < j PROVE S[i].type \in {"answer", "candidate"}
      <4>1. i \in 1 .. w
        BY <1>4, <3>1
      <4>2. S[i].type # "leave" /\ S[i].type \in {"leave", "answer", "candidate"}
        BY <1>1, <2>2, <3>1, <4>1 DEF Marked
      <4> QED BY <4>2
    <3> QED BY <1>1, <3>1 DEF Marked
  <2> QED BY <1>1, <2>2, <2>3 DEF JoinPhase
<1>5. CASE j > w + 1
    BY <1>1, <1>2, <1>5 DEF JoinPhase
<1> QED BY <1>2, <1>3, <1>4, <1>5

LEMMA OfferHanded ==
    ASSUME NEW L, NEW T \in Seq(L), NEW w \in Nat, NEW S, NEW k, NEW e, OfferPhase(w, S, k, T, e),
           w + 1 \in DOMAIN T, NEW f,
           T[w + 1].type \notin {"join", "offer"} => f = e,
           T[w + 1].type \in {"join", "offer"} => f = NewConnection
    PROVE  OfferPhase(w + 1, S, k, T, f)
<1>1. PICK j \in DOMAIN T :
         /\ Marked(T, j, "offer", {"candidate"}) /\ T[j].ufrag = k.t.me
         /\ j <= w => IsWaiting(e)
    BY DEF OfferPhase
<1>2. j \in Nat
  <2>1. j \in 1 .. Len(T)
    OBVIOUS
  <2> QED BY <2>1
<1>3. j <= w + 1 => IsWaiting(f)
  <2>1. CASE j <= w
    <3>1. T[w + 1].type = "candidate"
      BY <1>1, <1>2, <2>1 DEF Marked
    <3> QED BY <1>1, <2>1, <3>1
  <2>2. CASE j = w + 1
    <3>1. T[w + 1].type = "offer"
      BY <1>1, <2>2 DEF Marked
    <3> QED BY <3>1, NewIsWaiting
  <2> QED BY <1>2, <2>1, <2>2
<1> QED BY <1>1, <1>3 DEF OfferPhase

\* Every kind that a phase allows but the join's and the offer's own.
LEMMA AnswerKinds ==
    ASSUME NEW S, NEW k, NEW T, NEW e, AnswerPhase(S, k, T, e) \/ GatherPhase(S, k, T, e), NEW L, S \in Seq(L)
    PROVE  /\ \A i \in DOMAIN S : S[i].type \notin {"join", "offer", "leave"}
           /\ \A i \in DOMAIN T : T[i].type \notin {"join", "offer", "leave"}
<1>1. \A i \in DOMAIN T : T[i].type \notin {"join", "offer", "leave"}
    BY DEF AnswerPhase, GatherPhase, Only
<1>2. CASE GatherPhase(S, k, T, e)
    BY <1>1, <1>2 DEF GatherPhase, Only
<1>3. CASE AnswerPhase(S, k, T, e)
  <2>1. PICK j \in DOMAIN S : Marked(S, j, "answer", {"candidate"})
    BY <1>3 DEF AnswerPhase
  <2>2. ASSUME NEW i \in DOMAIN S PROVE S[i].type \notin {"join", "offer", "leave"}
    <3>1. i \in Nat /\ j \in Nat
      OBVIOUS
    <3>2. i < j \/ i = j \/ i > j
      BY <3>1
    <3> QED BY <2>1, <3>2 DEF Marked
  <2> QED BY <1>1, <2>2
<1> QED BY <1>2, <1>3

\* The names of the two peers.
LEMMA Names ==
    /\ "o" \in Peers /\ "a" \in Peers /\ Other("o") = "a" /\ Other("a") = "o" /\ "o" # "a"
    /\ \A p \in Peers : p = "o" \/ p = "a"
BY DEF Peers, Other

\* The signalling thread hands a message to the worker.
LEMMA PhaseSignal ==
    ASSUME IceInv, NEW p \in Peers, ProcessSignal(p), Phases
    PROVE  Phases'
<1>0. PICK w : w = Len(work[p])
    OBVIOUS
<1>1. PICK m : m = Way(p)[w + 1]
    OBVIOUS
<1>2. Handed(p, w, m)
    BY <1>0, <1>1, SignalEffect
<1>3. PICK S \in Seq(Letters(ufrags)) : S = Way("o")
    BY Names, PeerIs, Zenon DEF Sound, Ordered
<1>4. PICK T \in Seq(Letters(ufrags)) : T = Way("a")
    BY Names, PeerIs, Zenon DEF Sound, Ordered
<1> SUFFICES ASSUME Clean' PROVE Phase'
    BY DEF Phases
<1>5. Phase /\ ~overlapped'
    BY <1>2 DEF Handed, Phases, Clean
<1>6. CASE p = "o"
  <2>1. /\ w = Len(work["o"]) /\ w \in Nat /\ w + 1 \in DOMAIN S /\ m = S[w + 1]
        /\ Way("o")' = S /\ Way("a")' = T
        /\ Len(work["o"])' = w + 1 /\ Len(work["a"])' = Len(work["a"]) /\ conns'["a"] = conns["a"]
        /\ S[w + 1].type \notin {"join", "offer"} => conns'["o"] = conns["o"]
        /\ S[w + 1].type \in {"join", "offer"} =>
             conns'["o"] = NewConnection /\ \A i \in 1 .. w : S[i].type \notin {"join", "leave", "offer"}
    BY <1>2, <1>3, <1>4, <1>5, <1>6, Names DEF Handed
  <2>2. CASE Idle
    BY <1>3, <2>1, <2>2, Names DEF Idle
  <2>3. CASE JoinPhase(Len(work["o"]), Way("o"), conns["o"], Way("a"))
    <3>1. JoinPhase(w + 1, S, conns'["o"], T)
      BY <1>3, <1>4, <2>1, <2>3, JoinHanded
    <3> QED BY <2>1, <3>1 DEF Phase
  <2>4. CASE OfferPhase(Len(work["a"]), Way("o"), conns["o"], Way("a"), conns["a"])
    <3>1. conns'["o"] = conns["o"]
      BY <1>3, <2>1, <2>4 DEF OfferPhase, Only
    <3> QED BY <1>3, <1>4, <2>1, <2>4, <3>1 DEF Phase
  <2>5. CASE AnswerPhase(Way("o"), conns["o"], Way("a"), conns["a"])
    <3>1. conns'["o"] = conns["o"]
      BY <1>3, <1>4, <2>1, <2>5, AnswerKinds
    <3> QED BY <1>3, <1>4, <2>1, <2>5, <3>1 DEF Phase
  <2>6. CASE GatherPhase(Way("o"), conns["o"], Way("a"), conns["a"])
    <3>1. conns'["o"] = conns["o"]
      BY <1>3, <1>4, <2>1, <2>6, AnswerKinds
    <3> QED BY <1>3, <1>4, <2>1, <2>6, <3>1 DEF Phase
  <2> QED BY <1>5, <2>2, <2>3, <2>4, <2>5, <2>6 DEF Phase
<1>7. CASE p = "a"
  <2>1. /\ w = Len(work["a"]) /\ w \in Nat /\ w + 1 \in DOMAIN T /\ m = T[w + 1]
        /\ Way("o")' = S /\ Way("a")' = T
        /\ Len(work["a"])' = w + 1 /\ Len(work["o"])' = Len(work["o"]) /\ conns'["o"] = conns["o"]
        /\ T[w + 1].type \notin {"join", "offer"} => conns'["a"] = conns["a"]
        /\ T[w + 1].type \in {"join", "offer"} => conns'["a"] = NewConnection
    BY <1>2, <1>3, <1>4, <1>5, <1>7, Names DEF Handed
  <2>2. CASE Idle
    BY <1>4, <2>1, <2>2, Names DEF Idle
  <2>3. CASE JoinPhase(Len(work["o"]), Way("o"), conns["o"], Way("a"))
    BY <1>3, <1>4, <2>1, <2>3 DEF Phase
  <2>4. CASE OfferPhase(Len(work["a"]), Way("o"), conns["o"], Way("a"), conns["a"])
    <3>1. OfferPhase(w + 1, S, conns["o"], T, conns'["a"])
      BY <1>3, <1>4, <2>1, <2>4, OfferHanded
    <3> QED BY <2>1, <3>1 DEF Phase
  <2>5. CASE AnswerPhase(Way("o"), conns["o"], Way("a"), conns["a"])
    <3>1. conns'["a"] = conns["a"]
      BY <1>3, <1>4, <2>1, <2>5, AnswerKinds
    <3> QED BY <1>3, <1>4, <2>1, <2>5, <3>1 DEF Phase
  <2>6. CASE GatherPhase(Way("o"), conns["o"], Way("a"), conns["a"])
    <3>1. conns'["a"] = conns["a"]
      BY <1>3, <1>4, <2>1, <2>6, AnswerKinds
    <3> QED BY <1>3, <1>4, <2>1, <2>6, <3>1 DEF Phase
  <2> QED BY <1>5, <2>2, <2>3, <2>4, <2>5, <2>6 DEF Phase
<1> QED BY <1>6, <1>7, Names

\* What ProcessIceWorkMsg does, seen from the way.
Worked(p) ==
    /\ Way(p) # <<>> /\ Way(p)' = Tail(Way(p)) /\ Way(p)[1] = Head(work[p])
    /\ Len(work[p]) \in Nat /\ Len(work[p]) >= 1 /\ Len(work[p])' = Len(work[p]) - 1
    /\ work'[Other(p)] = work[Other(p)] /\ conns'[Other(p)] = conns[Other(p)] /\ joins' = joins
    /\ Way(p)[1].type \notin {"join", "offer"} => Way(Other(p))' = Way(Other(p))
    /\ Clean' => Clean

LEMMA SendQuiet ==
    ASSUME IceInv, NEW p \in Peers, NEW m, Send(Other(p), m)
    PROVE  net'[p] = net[p] /\ lost' \in {lost, lost + 1}
<1>1. net \in [Peers -> Seq(Letters(ufrags))] /\ Other(p) # p
    BY PeersAre DEF IceInv, IceTypes
<1> QED BY <1>1 DEF Send

LEMMA WorkEffect ==
    ASSUME IceInv, NEW p \in Peers, ProcessIceWorkMsg(p)
    PROVE  Worked(p)
<1>1. PICK q \in Peers : q = Other(p) /\ Other(q) = p /\ q # p
    BY PeersAre
<1>2. Takes(p)
    BY DEF ProcessIceWorkMsg, Takes
<1>3. lost \in Nat /\ failures \in Nat /\ conns \in [Peers -> Connections(ufrags)]
    BY NegotiationAssumption DEF IceInv, IceTypes
<1>4. PICK m : m = Head(work[p])
    OBVIOUS
<1>5. /\ net'[p] = net[p] /\ conns'[q] = conns[q] /\ lost' \in {lost, lost + 1}
      /\ failures' \in {failures, failures + 1}
      /\ m.type \notin {"join", "offer"} => net' = net
  <2>1. CASE ~conns[p].exists
    <3>1. UNCHANGED <<net, conns, ufrags, lost, failures>>
      BY <2>1 DEF ProcessIceWorkMsg
    <3> QED BY <3>1
  <2>2. CASE conns[p].exists
    <3>2. \/ m.type = "join" /\ (OnJoin(p) \/ InitFails(p))
          \/ m.type = "offer" /\ (OnOffer(p, m) \/ OfferRefused(p) \/ InitFails(p))
          \/ m.type = "answer" /\ (OnAnswer(p, m) \/ AnswerRefused(p))
          \/ m.type = "candidate" /\ (ApplyRemoteIceCandidate(p, m) \/ CandidateRefused(p, m))
          \/ m.type = "leave" /\ ReleaseAllIceTransmission(p)
      BY <1>4, <2>2 DEF ProcessIceWorkMsg
    <3>3. CASE m.type = "join" /\ OnJoin(p)
      <4>1. PICK d : Send(Other(p), d)
        BY <3>3 DEF OnJoin
      <4>2. net'[p] = net[p] /\ lost' \in {lost, lost + 1}
        BY <4>1, SendQuiet
      <4> QED BY <1>1, <1>3, <3>3, <4>2 DEF OnJoin
    <3>4. CASE m.type \in {"join", "offer"} /\ InitFails(p)
      BY <1>1, <1>3, <3>4 DEF InitFails
    <3>5. CASE m.type = "offer" /\ OnOffer(p, m)
      <4>1. PICK d : Send(Other(p), d)
        BY <3>5 DEF OnOffer
      <4>2. net'[p] = net[p] /\ lost' \in {lost, lost + 1}
        BY <4>1, SendQuiet
      <4>3. PICK f : conns' = [conns EXCEPT ![p] = f]
        BY <3>5 DEF OnOffer
      <4>4. conns'[q] = conns[q] /\ failures' = failures
        BY <1>1, <1>3, <3>5, <4>3 DEF OnOffer
      <4> QED BY <3>5, <4>2, <4>4
    <3>6. CASE m.type = "offer" /\ OfferRefused(p)
      BY <1>1, <1>3, <3>6 DEF OfferRefused
    <3>7. CASE OnAnswer(p, m)
      BY <1>1, <1>3, <3>7 DEF OnAnswer
    <3>8. CASE ApplyRemoteIceCandidate(p, m)
      BY <1>1, <1>3, <3>8 DEF ApplyRemoteIceCandidate
    <3>9. CASE ReleaseAllIceTransmission(p)
      BY <1>1, <1>3, <3>9 DEF ReleaseAllIceTransmission
    <3>10. CASE AnswerRefused(p)
      BY <1>1, <1>3, <3>10 DEF AnswerRefused
    <3>11. CASE CandidateRefused(p, m)
      BY <1>1, <1>3, <3>11 DEF CandidateRefused
    <3> QED BY <3>2, <3>3, <3>4, <3>5, <3>6, <3>7, <3>8, <3>9, <3>10, <3>11
  <2> QED BY <2>1, <2>2
<1>6. /\ Way(p) # <<>> /\ Way(p)[1] = Head(work[p]) /\ Way(p)' = Tail(Way(p))
      /\ work'[q] = work[q]
    BY <1>1, <1>2, <1>5, WorkIsTaken DEF Takes
<1>7. m.type \notin {"join", "offer"} => Way(q)' = Way(q)
    BY <1>5, <1>6 DEF Way
<1>8. Len(work[p]) \in Nat /\ Len(work[p]) >= 1 /\ Len(work[p])' = Len(work[p]) - 1
  <2>1. work \in [Peers -> Seq(Letters(ufrags))]
    BY DEF IceInv, IceTypes
  <2>2. PICK a \in Seq(Letters(ufrags)) : a = work[p]
    BY <2>1, Zenon
  <2>3. a # <<>> /\ work'[p] = Tail(a)
    BY <1>2, <2>1, <2>2 DEF Takes
  <2>4. Len(a) \in Nat /\ Len(a) >= 1 /\ Len(Tail(a)) = Len(a) - 1
    BY <2>3
  <2> QED BY <2>2, <2>3, <2>4
<1>9. Clean' => Clean
  <2>1. lost' = 0 => lost = 0
    BY <1>3, <1>5
  <2>2. failures' = 0 => failures = 0
    BY <1>3, <1>5
  <2> QED BY <1>2, <2>1, <2>2 DEF Clean, Takes
<1> QED BY <1>1, <1>2, <1>4, <1>5, <1>6, <1>7, <1>8, <1>9 DEF Worked, Takes

SameCourse(k, e) == e.exists /\ SameLife(k.t, e.t) /\ e.t.remote = k.t.remote

\* A candidate changes neither the transport nor its description.
LEMMA CandidateEffect ==
    ASSUME IceInv, NEW p \in Peers, ProcessIceWorkMsg(p), Way(p)[1].type = "candidate"
    PROVE  /\ IsWaiting(conns[p]) => IsWaiting(conns'[p])
           /\ (conns[p].exists /\ conns[p].t.me # NoUfrag) => SameCourse(conns[p], conns'[p])
<1>0. Takes(p) /\ conns \in [Peers -> Connections(ufrags)]
    BY DEF ProcessIceWorkMsg, Takes, IceInv, IceTypes
<1>1. PICK m : m = Way(p)[1]
    OBVIOUS
<1> SUFFICES ASSUME conns[p].exists
             PROVE  /\ IsWaiting(conns[p]) => IsWaiting(conns'[p])
                    /\ conns[p].t.me # NoUfrag => SameCourse(conns[p], conns'[p])
    BY DEF IsWaiting
<1>2. m = Head(work[p]) /\ (ApplyRemoteIceCandidate(p, m) \/ CandidateRefused(p, m))
  <2>1. m = Head(work[p])
    BY <1>0, <1>1, TakesIs
  <2> QED BY <1>1, <2>1 DEF ProcessIceWorkMsg
<1>5. CASE CandidateRefused(p, m)
  <2>1. conns'[p] = conns[p]
    BY <1>5 DEF CandidateRefused
  <2> QED BY <2>1 DEF SameCourse, SameLife
<1> SUFFICES ASSUME ApplyRemoteIceCandidate(p, m)
             PROVE  /\ IsWaiting(conns[p]) => IsWaiting(conns'[p])
                    /\ conns[p].t.me # NoUfrag => SameCourse(conns[p], conns'[p])
    BY <1>2, <1>5
<1>a. PICK k : k = conns[p]
    OBVIOUS
<1>b. PICK f : f = IF HasTransport(k) THEN [k EXCEPT !.t = AddRemoteCandidate(@, m)]
                   ELSE [k EXCEPT !.pending = Queued(@, m)]
    OBVIOUS
<1>c. conns' = [conns EXCEPT ![p] = f]
    BY <1>a, <1>b DEF ApplyRemoteIceCandidate
<1>d. conns'[p] = f
    BY <1>0, <1>c
<1>3. CASE HasTransport(k)
  <2>1. PICK a : a = AddRemoteCandidate(k.t, m)
    OBVIOUS
  <2>2. f = [k EXCEPT !.t = a]
    BY <1>3, <1>b, <2>1
  <2>3. k.t.me # NoUfrag
    BY <1>3 DEF HasTransport
  <2>4. SameLife(k.t, f.t) /\ f.t.remote = k.t.remote /\ f.exists
    <3>1. /\ Sound(ufrags, lost, Way(p), k, conns[Other(p)].t) /\ Way(p) # <<>> /\ ufrags \in Nat
          /\ conns[Other(p)].t.seen \subseteq Candidates
      BY <1>0, <1>a, TakesIs
    <3>2. Way(p)[1].type = "candidate" /\ a = AddRemoteCandidate(k.t, Way(p)[1]) /\ k.exists
      BY <1>1, <1>a, <2>1
    <3>3. f = With(k, a)
      BY <2>2 DEF With
    <3>4. Took(ufrags, lost, Way(p), k, f, conns[Other(p)].t)
      BY <2>3, <3>1, <3>2, <3>3, CandidateApplied, Zenon
    <3> QED BY <3>4 DEF Took
  <2>5. k.t # NoTransport
    BY <2>3, NoTransportIs
  <2> QED BY <1>a, <1>d, <2>4, <2>5 DEF SameCourse, IsWaiting
<1>4. CASE ~HasTransport(k)
  <2>1. k.t.me = NoUfrag /\ f = [k EXCEPT !.pending = Queued(@, m)]
    BY <1>4, <1>b DEF HasTransport
  <2>2. f.t = k.t /\ f.exists = k.exists
    <3>1. k \in Connections(ufrags)
      BY <1>0, <1>a
    <3> QED BY <2>1, <3>1 DEF Connections
  <2> QED BY <1>a, <1>d, <2>1, <2>2 DEF IsWaiting
<1> QED BY <1>3, <1>4

\* An answer completes a call, and a connection without a transport ignores it.
LEMMA AnswerEffect ==
    ASSUME IceInv, NEW p \in Peers, ProcessIceWorkMsg(p), Way(p)[1].type = "answer", Clean'
    PROVE  /\ IsWaiting(conns[p]) => IsWaiting(conns'[p])
           /\ IsCalling(conns[p]) =>
                /\ conns'[p].exists /\ conns'[p].t.me = conns[p].t.me
                /\ conns'[p].t.remote = Way(p)[1].ufrag /\ conns'[p].t.gathering
<1>0. Takes(p) /\ conns \in [Peers -> Connections(ufrags)]
    BY DEF ProcessIceWorkMsg, Takes, IceInv, IceTypes
<1>1. PICK m : m = Way(p)[1]
    OBVIOUS
<1>2. PICK k \in Connections(ufrags) : k = conns[p]
    BY <1>0, Zenon
<1> SUFFICES ASSUME k.exists
             PROVE  /\ IsWaiting(k) => IsWaiting(conns'[p])
                    /\ IsCalling(k) =>
                         /\ conns'[p].exists /\ conns'[p].t.me = k.t.me
                         /\ conns'[p].t.remote = m.ufrag /\ conns'[p].t.gathering
    BY <1>1, <1>2 DEF IsWaiting, IsCalling
<1>3. m = Head(work[p]) /\ OnAnswer(p, m)
  <2>1. m = Head(work[p])
    BY <1>0, <1>1, TakesIs
  <2>2. ~AnswerRefused(p)
    <3>1. failures \in Nat /\ failures' = 0
      BY NegotiationAssumption DEF Clean, IceInv, IceTypes
    <3> QED BY <3>1 DEF AnswerRefused
  <2> QED BY <1>1, <1>2, <2>1, <2>2 DEF ProcessIceWorkMsg
<1>4. ASSUME IsWaiting(k) PROVE IsWaiting(conns'[p])
  <2>1. ~HasTransport(k)
    BY <1>4, NoTransportIs DEF IsWaiting, HasTransport
  <2>2. conns' = [conns EXCEPT ![p] = [conns[p] EXCEPT !.t = conns[p].t]]
    BY <1>2, <1>3, <2>1 DEF OnAnswer
  <2>3. [k EXCEPT !.t = k.t] = k
    BY DEF Connections
  <2>4. conns'[p] = k
    BY <1>0, <1>2, <2>2, <2>3
  <2> QED BY <1>4, <2>4
<1>5. ASSUME IsCalling(k)
      PROVE  /\ conns'[p].exists /\ conns'[p].t.me = k.t.me
             /\ conns'[p].t.remote = m.ufrag /\ conns'[p].t.gathering
  <2>1. HasTransport(k) /\ Acceptable(k.t, m.ufrag) /\ k.t.me # NoUfrag /\ ~k.t.local_done
    BY <1>5 DEF IsCalling, HasTransport, Acceptable
  <2>2. PICK a : a = Answered(k.t, m.ufrag)
    OBVIOUS
  <2>3. PICK e : e = [k EXCEPT !.t = a]
    OBVIOUS
  <2>4. conns' = [conns EXCEPT ![p] = e]
    BY <1>2, <1>3, <2>1, <2>2, <2>3 DEF OnAnswer
  <2>5. conns'[p] = e
    BY <1>0, <2>4
  <2>6. /\ Sound(ufrags, lost, Way(p), k, conns[Other(p)].t) /\ Way(p) # <<>> /\ ufrags \in Nat
        /\ conns[Other(p)].t.seen \subseteq Candidates
    BY <1>0, <1>2, TakesIs
  <2>7. Way(p)[1].type \in Descriptions /\ Acceptable(k.t, Way(p)[1].ufrag) /\ a = Answered(k.t, Way(p)[1].ufrag)
    BY <1>1, <2>1, <2>2 DEF Descriptions
  <2>8. /\ e.exists /\ SameSender(k.t, e.t) /\ e.t.remote = Way(p)[1].ufrag
        /\ ~k.t.local_done => e.t.gathering
    <3>1. e = With(k, a)
      BY <2>3 DEF With
    <3>2. GotAnswer(ufrags, lost, Way(p), k, e, conns[Other(p)].t)
      BY <2>1, <2>6, <2>7, <3>1, AnswerApplied, Zenon
    <3> QED BY <3>2 DEF GotAnswer
  <2> QED BY <1>1, <2>1, <2>5, <2>8 DEF SameSender
<1> QED BY <1>4, <1>5

\* A description is sent and not lost.
LEMMA DescriptionSent ==
    ASSUME IceInv, NEW p \in Peers, Takes(p), NEW type \in Descriptions,
           Send(Other(p), Message(type, ufrags + 1, NoUfrag)), Clean'
    PROVE  \E d \in Letters(ufrags + 1) :
             Way(Other(p))' = Append(Way(Other(p)), d) /\ d.type = type /\ d.ufrag = ufrags + 1
<1>1. PICK q \in Peers : q = Other(p) /\ Other(q) = p
    BY PeersAre
<1>2. ufrags \in Nat /\ lost \in Nat /\ ufrags + 1 \in Nat
    BY PeerIs
<1>3. PICK m : m = Message(type, ufrags + 1, NoUfrag)
    OBVIOUS
<1>4. m \in Letters(ufrags + 1) /\ m.type = type /\ m.ufrag = ufrags + 1
  <2>1. type \in Kinds
    BY DEF Kinds, Descriptions
  <2>2. ufrags + 1 \in 0 .. ufrags + 1 /\ ufrags + 1 # NoUfrag
    BY <1>2 DEF NoUfrag
  <2>3. NoUfrag \in Candidates \cup {EndOfCandidates}
    BY DEF NoUfrag, EndOfCandidates
  <2> QED BY <1>2, <1>3, <2>1, <2>2, <2>3, MessageIs
<1>5. work'[q] = work[q]
    BY <1>1, PeersAre DEF IceInv, IceTypes, Takes
<1>6. SentOrLost(q, m)
  <2>1. Send(q, m)
    BY <1>1, <1>3
  <2> QED BY <1>4, <1>5, <2>1, SendIs
<1>7. Way(q)' = Append(Way(q), m)
    BY <1>2, <1>6 DEF SentOrLost, Clean
<1> QED BY <1>1, <1>4, <1>7

\* The worker meets the join: a new transport and an offer.
LEMMA JoinEffect ==
    ASSUME IceInv, NEW p \in Peers, ProcessIceWorkMsg(p), Way(p)[1].type = "join",
           IsWaiting(conns[p]), Clean'
    PROVE  /\ IsCalling(conns'[p])
           /\ \E d \in Letters(ufrags + 1) : /\ Way(Other(p))' = Append(Way(Other(p)), d)
                                             /\ d.type = "offer" /\ d.ufrag = conns'[p].t.me
<1>0. Takes(p) /\ conns \in [Peers -> Connections(ufrags)] /\ failures \in Nat
    BY NegotiationAssumption DEF ProcessIceWorkMsg, Takes, IceInv, IceTypes
<1>1. Way(p)[1] = Head(work[p])
    BY <1>0, TakesIs
<1>2. OnJoin(p) \/ InitFails(p)
    BY <1>1 DEF ProcessIceWorkMsg, IsWaiting
<1>3. OnJoin(p)
    BY <1>0, <1>2 DEF InitFails, Clean
<1>4. PICK k : k = conns[p]
    OBVIOUS
<1>5. PICK e : e = Replaced(k, NewTransport)
    OBVIOUS
<1>6. conns' = [conns EXCEPT ![p] = e] /\ Send(Other(p), Message("offer", ufrags + 1, NoUfrag))
    BY <1>3, <1>4, <1>5 DEF OnJoin
<1>7. conns'[p] = e
    BY <1>0, <1>6
<1>8. k.t.me = NoUfrag /\ e = Given(k, NewTransport)
  <2>1. k.t.me = NoUfrag
    BY <1>4, NoTransportIs DEF IsWaiting
  <2> QED BY <1>5, <2>1 DEF Replaced, Given, HasTransport
<1>9. /\ e.exists /\ e.t.me = ufrags + 1 /\ e.t.remote = NoUfrag
      /\ ~e.t.gathering /\ ~e.t.local_done
  <2>1. /\ Sound(ufrags, lost, Way(p), k, conns[Other(p)].t) /\ Way(p) # <<>> /\ ufrags \in Nat
        /\ conns[Other(p)].t.seen \subseteq Candidates /\ k.exists
    BY <1>0, <1>4, TakesIs DEF IsWaiting
  <2>2. MadeCall(ufrags, lost, Way(p), e, conns[Other(p)].t)
    BY <1>8, <2>1, JoinApplied, Zenon
  <2> QED BY <2>2 DEF MadeCall
<1>10. "offer" \in Descriptions /\ ufrags \in Nat
    BY <1>0, TakesIs DEF Descriptions
<1>11. \E d \in Letters(ufrags + 1) :
         Way(Other(p))' = Append(Way(Other(p)), d) /\ d.type = "offer" /\ d.ufrag = ufrags + 1
    BY <1>0, <1>6, <1>10, DescriptionSent
<1>12. IsCalling(e)
    BY <1>4, <1>9, <1>10 DEF IsCalling, IsWaiting, NoUfrag
<1> QED BY <1>7, <1>9, <1>11, <1>12

\* The worker meets the offer: a new transport that gathers, and an answer.
LEMMA OfferEffect ==
    ASSUME IceInv, NEW p \in Peers, ProcessIceWorkMsg(p), Way(p)[1].type = "offer",
           IsWaiting(conns[p]), Clean'
    PROVE  /\ conns'[p].exists /\ conns'[p].t.me # NoUfrag /\ conns'[p].t.gathering
           /\ conns'[p].t.remote = Way(p)[1].ufrag
           /\ \E d \in Letters(ufrags + 1) : /\ Way(Other(p))' = Append(Way(Other(p)), d)
                                             /\ d.type = "answer" /\ d.ufrag = conns'[p].t.me
<1>0. Takes(p) /\ conns \in [Peers -> Connections(ufrags)] /\ failures \in Nat
    BY NegotiationAssumption DEF ProcessIceWorkMsg, Takes, IceInv, IceTypes
<1>1. PICK m : m = Way(p)[1]
    OBVIOUS
<1>a. m = Head(work[p])
    BY <1>0, <1>1, TakesIs
<1>2. OnOffer(p, m) \/ OfferRefused(p) \/ InitFails(p)
    BY <1>1, <1>a DEF ProcessIceWorkMsg, IsWaiting
<1>3. OnOffer(p, m)
    BY <1>0, <1>2 DEF InitFails, OfferRefused, Clean
<1>4. PICK k : k = conns[p]
    OBVIOUS
<1>b. PICK a : a = Offered(NewTransport, m.ufrag)
    OBVIOUS
<1>5. PICK e : e = Replaced(k, a)
    OBVIOUS
<1>6. conns' = [conns EXCEPT ![p] = e] /\ Send(Other(p), Message("answer", ufrags + 1, NoUfrag))
    BY <1>3, <1>4, <1>5, <1>b DEF OnOffer, Offered
<1>7. conns'[p] = e
    BY <1>0, <1>6
<1>8. k.t.me = NoUfrag /\ e = Given(k, a)
  <2>1. k.t.me = NoUfrag
    BY <1>4, NoTransportIs DEF IsWaiting
  <2> QED BY <1>5, <2>1 DEF Replaced, Given, HasTransport
<1>9. /\ e.exists /\ e.t.me = ufrags + 1 /\ e.t.remote = Way(p)[1].ufrag
      /\ e.t.gathering
  <2>1. /\ Sound(ufrags, lost, Way(p), k, conns[Other(p)].t) /\ Way(p) # <<>> /\ ufrags \in Nat
        /\ conns[Other(p)].t.seen \subseteq Candidates /\ k.exists
    BY <1>0, <1>4, TakesIs DEF IsWaiting
  <2>2. Way(p)[1].type \in Descriptions /\ a = Offered(NewTransport, Way(p)[1].ufrag)
    BY <1>1, <1>b DEF Descriptions
  <2>3. MadeAnswer(ufrags, lost, Way(p), e, conns[Other(p)].t)
    BY <1>8, <2>1, <2>2, OfferApplied, Zenon
  <2> QED BY <2>3 DEF MadeAnswer
<1>10. "answer" \in Descriptions /\ ufrags \in Nat
    BY <1>0, TakesIs DEF Descriptions
<1>11. \E d \in Letters(ufrags + 1) :
         Way(Other(p))' = Append(Way(Other(p)), d) /\ d.type = "answer" /\ d.ufrag = ufrags + 1
    BY <1>0, <1>6, <1>10, DescriptionSent
<1>12. e.exists /\ e.t.me # NoUfrag
    BY <1>4, <1>9, <1>10 DEF IsWaiting, NoUfrag
<1> QED BY <1>7, <1>9, <1>11, <1>12

LEMMA CourseCalls ==
    ASSUME NEW k, NEW e, SameCourse(k, e)
    PROVE  /\ IsCalling(k) => IsCalling(e) /\ e.t.me = k.t.me
           /\ \A f : Linked(k, f) => Linked(e, f)
           /\ \A f : Linked(f, k) => Linked(f, e)
BY DEF SameCourse, SameLife, IsCalling, Linked

\* What precedes the join leaves the way.
LEMMA JoinWorked ==
    ASSUME NEW L, NEW S \in Seq(L), S # <<>>, NEW w \in Nat, w >= 1, NEW k, NEW T,
           JoinPhase(w, S, k, T), S[1].type # "join", NEW e,
           S[1].type \in {"answer", "candidate"} /\ IsWaiting(k) => IsWaiting(e)
    PROVE  JoinPhase(w - 1, Tail(S), e, T) /\ S[1].type \notin {"join", "offer"}
<1>1. PICK j \in DOMAIN S :
         /\ Marked(S, j, "join", {"leave", "answer", "candidate"})
         /\ j <= w => IsWaiting(k) /\ Marked(S, j, "join", {"answer", "candidate"})
    BY DEF JoinPhase
<1>2. j # 1
    BY <1>1 DEF Marked
<1>3. /\ Marked(Tail(S), j - 1, "join", {"leave", "answer", "candidate"}) /\ j \in Nat
      /\ S[1].type \in {"leave", "answer", "candidate"} /\ j - 1 \in DOMAIN Tail(S)
    BY <1>1, <1>2, MarkedTail
<1>4. ASSUME j - 1 <= w - 1
      PROVE  IsWaiting(e) /\ Marked(Tail(S), j - 1, "join", {"answer", "candidate"})
  <2>1. IsWaiting(k) /\ Marked(S, j, "join", {"answer", "candidate"})
    BY <1>1, <1>3, <1>4
  <2>2. /\ Marked(Tail(S), j - 1, "join", {"answer", "candidate"})
        /\ S[1].type \in {"answer", "candidate"}
    BY <1>2, <2>1, MarkedTail
  <2> QED BY <2>1, <2>2
<1>5. JoinPhase(w - 1, Tail(S), e, T)
    BY <1>3, <1>4 DEF JoinPhase
<1> QED BY <1>3, <1>5

\* The join is met by a connection that has no transport.
LEMMA JoinIsMet ==
    ASSUME NEW L, NEW S \in Seq(L), S # <<>>, NEW w \in Nat, w >= 1, NEW k, NEW T,
           JoinPhase(w, S, k, T), S[1].type = "join"
    PROVE  IsWaiting(k) /\ Only(Tail(S), {"candidate"}) /\ Only(T, {"candidate"})
<1>1. PICK j \in DOMAIN S :
         /\ Marked(S, j, "join", {"leave", "answer", "candidate"})
         /\ j <= w => IsWaiting(k)
    BY DEF JoinPhase
<1>2. j = 1
  <2>1. ASSUME j # 1 PROVE FALSE
    <3>1. S[1].type \in {"leave", "answer", "candidate"}
      BY <1>1, <2>1, MarkedTail
    <3> QED BY <3>1
  <2> QED BY <2>1
<1>3. Only(Tail(S), {"candidate"})
    BY <1>1, <1>2, MarkedFirst
<1> QED BY <1>1, <1>2, <1>3 DEF JoinPhase

\* The offer phase: the first message is the offer, or one before it.
LEMMA OfferWorked ==
    ASSUME NEW L, NEW T \in Seq(L), T # <<>>, NEW w \in Nat, w >= 1, NEW S, NEW k, NEW e,
           OfferPhase(w, S, k, T, e)
    PROVE  \/ /\ T[1].type = "offer" /\ T[1].ufrag = k.t.me /\ IsWaiting(e)
              /\ Only(Tail(T), {"candidate"})
           \/ /\ T[1].type = "candidate"
              /\ \A f : (IsWaiting(e) => IsWaiting(f)) => OfferPhase(w - 1, S, k, Tail(T), f)
<1>1. PICK j \in DOMAIN T :
         /\ Marked(T, j, "offer", {"candidate"}) /\ T[j].ufrag = k.t.me
         /\ j <= w => IsWaiting(e)
    BY DEF OfferPhase
<1>2. CASE j = 1
  <2>1. Only(Tail(T), {"candidate"}) /\ T[1].type = "offer"
    BY <1>1, <1>2, MarkedFirst
  <2> QED BY <1>1, <1>2, <2>1
<1>3. CASE j # 1
  <2>1. /\ Marked(Tail(T), j - 1, "offer", {"candidate"}) /\ Tail(T)[j - 1] = T[j] /\ j \in Nat
        /\ T[1].type \in {"candidate"} /\ j - 1 \in DOMAIN Tail(T)
    BY <1>1, <1>3, MarkedTail
  <2>2. ASSUME NEW f, IsWaiting(e) => IsWaiting(f) PROVE OfferPhase(w - 1, S, k, Tail(T), f)
    <3>1. j - 1 <= w - 1 => IsWaiting(f)
      BY <1>1, <2>1, <2>2
    <3>2. Tail(T)[j - 1].ufrag = k.t.me
      BY <1>1, <2>1
    <3> QED BY <2>1, <3>1, <3>2 DEF OfferPhase
  <2> QED BY <2>1, <2>2
<1> QED BY <1>2, <1>3

\* The answer phase: the first message is the answer, or one before it.
LEMMA AnswerWorked ==
    ASSUME NEW L, NEW S \in Seq(L), S # <<>>, NEW T, NEW k, NEW e, AnswerPhase(S, k, T, e)
    PROVE  \/ /\ S[1].type = "answer" /\ S[1].ufrag = e.t.me /\ Only(Tail(S), {"candidate"})
           \/ /\ S[1].type = "candidate"
              /\ \A f : SameCourse(k, f) => AnswerPhase(Tail(S), f, T, e)
<1>1. PICK j \in DOMAIN S : Marked(S, j, "answer", {"candidate"}) /\ S[j].ufrag = e.t.me
    BY DEF AnswerPhase
<1>2. CASE j = 1
  <2>1. Only(Tail(S), {"candidate"}) /\ S[1].type = "answer"
    BY <1>1, <1>2, MarkedFirst
  <2> QED BY <1>1, <1>2, <2>1
<1>3. CASE j # 1
  <2>1. /\ Marked(Tail(S), j - 1, "answer", {"candidate"}) /\ Tail(S)[j - 1] = S[j] /\ j \in Nat
        /\ S[1].type \in {"candidate"} /\ j - 1 \in DOMAIN Tail(S)
    BY <1>1, <1>3, MarkedTail
  <2>2. ASSUME NEW f, SameCourse(k, f) PROVE AnswerPhase(Tail(S), f, T, e)
    <3>1. IsCalling(f) /\ Linked(e, f)
      BY <2>2, CourseCalls DEF AnswerPhase
    <3>2. Tail(S)[j - 1].ufrag = e.t.me
      BY <1>1, <2>1
    <3> QED BY <2>1, <3>1, <3>2 DEF AnswerPhase
  <2> QED BY <2>1, <2>2
<1> QED BY <1>2, <1>3

\* The two ways, and how much of them is the workers'.
LEMMA WaysAre ==
    ASSUME IceInv, NEW p \in Peers
    PROVE  /\ Way(p) \in Seq(Letters(ufrags)) /\ Way(p) \in Seq(Letters(ufrags + 1))
           /\ ufrags \in Nat /\ Len(work[p]) \in Nat /\ Len(work[p]) <= Len(Way(p))
<1>1. ufrags \in Nat /\ net[p] \in Seq(Letters(ufrags)) /\ work[p] \in Seq(Letters(ufrags))
    BY PeerIs
<1>2. Way(p) \in Seq(Letters(ufrags))
    BY PeerIs DEF Sound, Ordered
<1>3. Way(p) \in Seq(Letters(ufrags + 1))
    BY <1>1, <1>2, TypesGrow
<1>4. PICK a \in Seq(Letters(ufrags)) : a = work[p]
    BY <1>1, Zenon
<1>5. PICK b \in Seq(Letters(ufrags)) : b = net[p]
    BY <1>1, Zenon
<1>6. Len(a) \in Nat /\ Len(a) <= Len(a \o b)
    OBVIOUS
<1> QED BY <1>1, <1>2, <1>3, <1>4, <1>5, <1>6 DEF Way

\* The worker of the offerer.
LEMMA PhaseWorkOfferer ==
    ASSUME IceInv, ProcessIceWorkMsg("o"), Phase, Clean'
    PROVE  Phase'
<1>0. Worked("o")
    BY Names, WorkEffect
<1>1. PICK S \in Seq(Letters(ufrags)) : S = Way("o")
    BY Names, WaysAre, Zenon
<1>2. PICK T \in Seq(Letters(ufrags + 1)) : T = Way("a")
    BY Names, WaysAre, Zenon
<1>3. PICK w \in Nat : w = Len(work["o"])
    BY Names, WaysAre, Zenon
<1>4. PICK v \in Nat : v = Len(work["a"])
    BY Names, WaysAre, Zenon
<1>5. /\ S # <<>> /\ Way("o")' = Tail(S) /\ w >= 1 /\ Len(work["o"])' = w - 1
      /\ Len(work["a"])' = v /\ conns'["a"] = conns["a"]
      /\ S[1].type \notin {"join", "offer"} => Way("a")' = T
    BY <1>0, <1>1, <1>2, <1>3, <1>4, Names DEF Worked
<1>6. CASE Idle
    BY <1>1, <1>5, <1>6, Names DEF Idle
<1>7. CASE JoinPhase(w, S, conns["o"], T)
  <2>1. CASE S[1].type = "join"
    <3>1. IsWaiting(conns["o"]) /\ Only(Tail(S), {"candidate"}) /\ Only(T, {"candidate"})
      BY <1>5, <1>7, <2>1, JoinIsMet
    <3>a. "o" \in Peers /\ Way("o")[1].type = "join"
      BY <1>1, <2>1, Names
    <3>b. /\ IsCalling(conns'["o"])
          /\ \E d \in Letters(ufrags + 1) : /\ Way(Other("o"))' = Append(Way(Other("o")), d)
                                            /\ d.type = "offer" /\ d.ufrag = conns'["o"].t.me
      BY <3>1, <3>a, JoinEffect, Zenon
    <3>2. /\ IsCalling(conns'["o"])
          /\ \E d \in Letters(ufrags + 1) : /\ Way("a")' = Append(T, d)
                                            /\ d.type = "offer" /\ d.ufrag = conns'["o"].t.me
      BY <1>2, <3>b, Names
    <3>3. PICK d \in Letters(ufrags + 1) : /\ Way("a")' = Append(T, d)
                                           /\ d.type = "offer" /\ d.ufrag = conns'["o"].t.me
      BY <3>2
    <3>4. PICK U : U = Append(T, d)
      OBVIOUS
    <3>5. /\ Marked(U, Len(U), "offer", {"candidate"}) /\ U[Len(U)] = d /\ Len(U) = Len(T) + 1
          /\ Len(U) \in DOMAIN U
      <4>1. /\ Marked(U, Len(U), d.type, {"candidate"}) /\ U[Len(U)] = d /\ Len(U) = Len(T) + 1
            /\ Len(U) \in DOMAIN U
        BY <3>1, <3>4, OnlyMarks, Zenon
      <4> QED BY <3>3, <4>1
    <3>6. v <= Len(T) /\ Len(T) \in Nat
      BY <1>2, <1>4, Names, WaysAre
    <3>7. ~(Len(U) <= v)
      BY <3>5, <3>6
    <3>8. OfferPhase(v, Tail(S), conns'["o"], U, conns'["a"])
      BY <3>1, <3>2, <3>3, <3>5, <3>7 DEF OfferPhase
    <3> QED BY <1>5, <3>3, <3>4, <3>8 DEF Phase
  <2>2. CASE S[1].type # "join"
    <3>1. S[1].type \in {"answer", "candidate"} /\ IsWaiting(conns["o"]) => IsWaiting(conns'["o"])
      BY <1>1, Names, AnswerEffect, CandidateEffect
    <3>2. JoinPhase(w - 1, Tail(S), conns'["o"], T) /\ S[1].type \notin {"join", "offer"}
      BY <1>5, <1>7, <2>2, <3>1, JoinWorked
    <3> QED BY <1>5, <3>2 DEF Phase
  <2> QED BY <2>1, <2>2
<1>8. CASE OfferPhase(v, S, conns["o"], T, conns["a"])
  <2>1. Only(S, {"candidate"}) /\ IsCalling(conns["o"])
    BY <1>8 DEF OfferPhase
  <2>2. Only(Tail(S), {"candidate"}) /\ S[1].type = "candidate"
    BY <1>5, <2>1, OnlyTail
  <2>3. SameCourse(conns["o"], conns'["o"])
    BY <1>1, <2>1, <2>2, Names, CandidateEffect DEF IsCalling
  <2>4. IsCalling(conns'["o"]) /\ conns'["o"].t.me = conns["o"].t.me
    BY <2>1, <2>3, CourseCalls
  <2>5. OfferPhase(v, Tail(S), conns'["o"], T, conns'["a"])
    BY <1>5, <1>8, <2>2, <2>4 DEF OfferPhase
  <2> QED BY <1>5, <2>2, <2>5 DEF Phase
<1>9. CASE AnswerPhase(S, conns["o"], T, conns["a"])
  <2>0. Only(T, {"candidate"}) /\ IsCalling(conns["o"]) /\ Linked(conns["a"], conns["o"])
    BY <1>9 DEF AnswerPhase
  <2>1. CASE S[1].type = "answer" /\ S[1].ufrag = conns["a"].t.me /\ Only(Tail(S), {"candidate"})
    <3>1. /\ conns'["o"].exists /\ conns'["o"].t.me = conns["o"].t.me
          /\ conns'["o"].t.remote = S[1].ufrag /\ conns'["o"].t.gathering
      BY <1>1, <2>0, <2>1, Names, AnswerEffect
    <3>2. Linked(conns'["o"], conns["a"]) /\ Linked(conns["a"], conns'["o"])
      BY <2>0, <2>1, <3>1 DEF Linked, IsCalling
    <3>3. GatherPhase(Tail(S), conns'["o"], T, conns'["a"])
      BY <1>5, <2>0, <2>1, <3>2 DEF GatherPhase
    <3> QED BY <1>5, <2>1, <3>3 DEF Phase
  <2>2. CASE /\ S[1].type = "candidate"
             /\ \A f : SameCourse(conns["o"], f) => AnswerPhase(Tail(S), f, T, conns["a"])
    <3>1. SameCourse(conns["o"], conns'["o"])
      BY <1>1, <2>0, <2>2, Names, CandidateEffect DEF IsCalling
    <3>2. AnswerPhase(Tail(S), conns'["o"], T, conns'["a"])
      BY <1>5, <2>2, <3>1
    <3> QED BY <1>5, <2>2, <3>2 DEF Phase
  <2> QED BY <1>5, <1>9, <2>1, <2>2, AnswerWorked
<1>10. CASE GatherPhase(S, conns["o"], T, conns["a"])
  <2>1. Only(Tail(S), {"candidate"}) /\ S[1].type = "candidate"
    <3>1. Only(S, {"candidate"})
      BY <1>10 DEF GatherPhase
    <3> QED BY <1>5, <3>1, OnlyTail
  <2>2. SameCourse(conns["o"], conns'["o"])
    BY <1>1, <1>10, <2>1, Names, CandidateEffect DEF GatherPhase, Linked
  <2>3. GatherPhase(Tail(S), conns'["o"], T, conns'["a"])
    BY <1>5, <1>10, <2>1, <2>2, CourseCalls DEF GatherPhase
  <2> QED BY <1>5, <2>1, <2>3 DEF Phase
<1> QED BY <1>1, <1>2, <1>3, <1>4, <1>6, <1>7, <1>8, <1>9, <1>10 DEF Phase

\* The worker of the answerer.
LEMMA PhaseWorkAnswerer ==
    ASSUME IceInv, ProcessIceWorkMsg("a"), Phase, Clean'
    PROVE  Phase'
<1>0. Worked("a")
    BY Names, WorkEffect
<1>1. PICK T \in Seq(Letters(ufrags)) : T = Way("a")
    BY Names, WaysAre, Zenon
<1>2. PICK S \in Seq(Letters(ufrags + 1)) : S = Way("o")
    BY Names, WaysAre, Zenon
<1>3. PICK w \in Nat : w = Len(work["a"])
    BY Names, WaysAre, Zenon
<1>4. PICK v \in Nat : v = Len(work["o"])
    BY Names, WaysAre, Zenon
<1>5. /\ T # <<>> /\ Way("a")' = Tail(T) /\ w >= 1 /\ Len(work["a"])' = w - 1
      /\ Len(work["o"])' = v /\ conns'["o"] = conns["o"]
      /\ T[1].type \notin {"join", "offer"} => Way("o")' = S
    BY <1>0, <1>1, <1>2, <1>3, <1>4, Names DEF Worked
<1>6. CASE Idle
    BY <1>1, <1>5, <1>6, Names DEF Idle
<1>7. CASE JoinPhase(v, S, conns["o"], T)
  <2>1. Only(Tail(T), {"candidate"}) /\ T[1].type = "candidate"
    <3>1. Only(T, {"candidate"})
      BY <1>7 DEF JoinPhase
    <3> QED BY <1>5, <3>1, OnlyTail
  <2>2. JoinPhase(v, S, conns'["o"], Tail(T))
    BY <1>5, <1>7, <2>1 DEF JoinPhase
  <2> QED BY <1>5, <2>1, <2>2 DEF Phase
<1>8. CASE OfferPhase(w, S, conns["o"], T, conns["a"])
  <2>0. Only(S, {"candidate"}) /\ IsCalling(conns["o"])
    BY <1>8 DEF OfferPhase
  <2>1. CASE /\ T[1].type = "offer" /\ T[1].ufrag = conns["o"].t.me /\ IsWaiting(conns["a"])
             /\ Only(Tail(T), {"candidate"})
    <3>1. "a" \in Peers /\ Way("a")[1].type = "offer"
      BY <1>1, <2>1, Names
    <3>2. /\ conns'["a"].exists /\ conns'["a"].t.me # NoUfrag /\ conns'["a"].t.gathering
          /\ conns'["a"].t.remote = Way("a")[1].ufrag
          /\ \E d \in Letters(ufrags + 1) : /\ Way(Other("a"))' = Append(Way(Other("a")), d)
                                            /\ d.type = "answer" /\ d.ufrag = conns'["a"].t.me
      BY <2>1, <3>1, OfferEffect, Zenon
    <3>3. PICK d \in Letters(ufrags + 1) : /\ Way("o")' = Append(S, d)
                                           /\ d.type = "answer" /\ d.ufrag = conns'["a"].t.me
      BY <1>2, <3>2, Names
    <3>4. PICK U : U = Append(S, d)
      OBVIOUS
    <3>5. /\ Marked(U, Len(U), d.type, {"candidate"}) /\ U[Len(U)] = d /\ Len(U) = Len(S) + 1
          /\ Len(U) \in DOMAIN U
      BY <2>0, <3>4, OnlyMarks, Zenon
    <3>6. Linked(conns'["a"], conns["o"])
      BY <1>1, <2>1, <3>2 DEF Linked
    <3>7. AnswerPhase(U, conns["o"], Tail(T), conns'["a"])
      BY <2>0, <2>1, <3>3, <3>5, <3>6 DEF AnswerPhase
    <3> QED BY <1>5, <3>3, <3>4, <3>7 DEF Phase
  <2>2. CASE /\ T[1].type = "candidate"
             /\ \A f : (IsWaiting(conns["a"]) => IsWaiting(f)) => OfferPhase(w - 1, S, conns["o"], Tail(T), f)
    <3>1. IsWaiting(conns["a"]) => IsWaiting(conns'["a"])
      BY <1>1, <2>2, Names, CandidateEffect
    <3>2. OfferPhase(w - 1, S, conns["o"], Tail(T), conns'["a"])
      BY <2>2, <3>1
    <3> QED BY <1>5, <2>2, <3>2 DEF Phase
  <2> QED BY <1>5, <1>8, <2>1, <2>2, OfferWorked
<1>9. CASE AnswerPhase(S, conns["o"], T, conns["a"])
  <2>1. Only(T, {"candidate"}) /\ Linked(conns["a"], conns["o"])
    BY <1>9 DEF AnswerPhase
  <2>2. Only(Tail(T), {"candidate"}) /\ T[1].type = "candidate"
    BY <1>5, <2>1, OnlyTail
  <2>3. SameCourse(conns["a"], conns'["a"])
    BY <1>1, <2>1, <2>2, Names, CandidateEffect DEF Linked
  <2>4. Linked(conns'["a"], conns["o"]) /\ conns'["a"].t.me = conns["a"].t.me
    BY <2>1, <2>3, CourseCalls DEF SameCourse, SameLife
  <2>5. AnswerPhase(S, conns["o"], Tail(T), conns'["a"])
    BY <1>9, <2>2, <2>4 DEF AnswerPhase
  <2> QED BY <1>5, <2>2, <2>5 DEF Phase
<1>10. CASE GatherPhase(S, conns["o"], T, conns["a"])
  <2>1. Only(Tail(T), {"candidate"}) /\ T[1].type = "candidate"
    <3>1. Only(T, {"candidate"})
      BY <1>10 DEF GatherPhase
    <3> QED BY <1>5, <3>1, OnlyTail
  <2>2. SameCourse(conns["a"], conns'["a"])
    BY <1>1, <1>10, <2>1, Names, CandidateEffect DEF GatherPhase, Linked
  <2>3. GatherPhase(S, conns'["o"], Tail(T), conns'["a"])
    BY <1>5, <1>10, <2>1, <2>2, CourseCalls DEF GatherPhase
  <2> QED BY <1>5, <2>1, <2>3 DEF Phase
<1> QED BY <1>1, <1>2, <1>3, <1>4, <1>6, <1>7, <1>8, <1>9, <1>10 DEF Phase

\* What the agent's callbacks do, seen from the two ways.
StillLinked(k, e) ==
    /\ k.t.gathering /\ e.exists /\ e.t.me = k.t.me /\ e.t.remote = k.t.remote
    /\ e.t.gathering \/ e.t.local_done

Gathered(p) ==
    /\ StillLinked(conns[p], conns'[p]) /\ Way(p)' = Way(p) /\ work' = work
    /\ conns'[Other(p)] = conns[Other(p)] /\ Clean
    /\ \E d \in Letters(ufrags) : Way(Other(p))' = Append(Way(Other(p)), d) /\ d.type = "candidate"

LEMMA GatherEffect ==
    ASSUME IceInv, NEW p \in Peers, conns[p].t.gathering,
           NEW t, t.me = conns[p].t.me, t.remote = conns[p].t.remote, t.gathering \/ t.local_done,
           conns' = [conns EXCEPT ![p] = With(conns[p], t)],
           NEW c \in Candidates \cup {EndOfCandidates},
           Send(Other(p), Message("candidate", conns[p].t.me, c)),
           UNCHANGED <<work, ufrags, joins, failures, overlapped>>, Clean'
    PROVE  Gathered(p)
<1>1. PICK q \in Peers : q = Other(p) /\ Other(q) = p /\ q # p
    BY PeersAre
<1>2. /\ ufrags \in Nat /\ lost \in Nat /\ conns[p].t.me \in 0 .. ufrags
    BY PeerIs
<1>3. conns[p].t.me # NoUfrag /\ conns[p].exists
    BY GatheringIsThere
<1>4. PICK m : m = Message("candidate", conns[p].t.me, c)
    OBVIOUS
<1>5. m \in Letters(ufrags) /\ m.type = "candidate"
  <2>1. "candidate" \in Kinds
    BY DEF Kinds
  <2> QED BY <1>2, <1>3, <1>4, <2>1, MessageIs
<1>6. /\ net'[p] = net[p] /\ lost' \in {lost, lost + 1} /\ SentOrLost(q, m)
  <2>1. Send(q, m) /\ work'[q] = work[q]
    BY <1>1, <1>4
  <2>2. net'[Other(q)] = net[Other(q)] /\ lost' \in {lost, lost + 1} /\ SentOrLost(q, m)
    BY <1>5, <2>1, SendIs
  <2> QED BY <1>1, <2>2
<1>7. Way(p)' = Way(p)
    BY <1>6 DEF Way
<1>8. lost' = 0 /\ lost = 0
    BY <1>2, <1>6 DEF Clean
<1>9. Way(q)' = Append(Way(q), m)
    BY <1>8, <1>6 DEF SentOrLost
<1>10. PICK k \in Connections(ufrags) : k = conns[p]
    BY Zenon DEF IceInv, IceTypes
<1>11. PICK e : e = [k EXCEPT !.t = t]
    OBVIOUS
<1>12. e.t = t /\ e.exists = k.exists
    BY <1>11 DEF Connections
<1>13. conns'[p] = e /\ conns'[q] = conns[q]
  <2>1. conns \in [Peers -> Connections(ufrags)] /\ conns' = [conns EXCEPT ![p] = e]
    BY <1>10, <1>11 DEF IceInv, IceTypes, With
  <2> QED BY <1>1, <2>1
<1>14. StillLinked(conns[p], conns'[p])
    BY <1>3, <1>10, <1>12, <1>13 DEF StillLinked
<1>15. Clean
    BY <1>8 DEF Clean
<1> QED BY <1>1, <1>5, <1>7, <1>9, <1>13, <1>14, <1>15 DEF Gathered

LEMMA CallbackEffect ==
    ASSUME IceInv, NEW p \in Peers, OnNewLocalCandidate(p) \/ OnGatheringDone(p), Clean'
    PROVE  Gathered(p)
<1>1. PICK k \in Transports(ufrags) : k = conns[p].t
    BY PeerIs, Zenon
<1>2. CASE OnNewLocalCandidate(p)
  <2>1. k.gathering /\ UNCHANGED <<work, ufrags, joins, failures, overlapped>>
    BY <1>1, <1>2 DEF OnNewLocalCandidate
  <2>2. PICK c \in Candidates \ conns[p].t.seen :
         /\ conns' = [conns EXCEPT ![p].t.seen = @ \cup {c}]
         /\ Send(Other(p), Message("candidate", conns[p].t.me, c))
    BY <1>2 DEF OnNewLocalCandidate
  <2>3. PICK t : t = [k EXCEPT !.seen = k.seen \cup {c}]
    OBVIOUS
  <2>4. t.me = k.me /\ t.remote = k.remote /\ t.gathering = k.gathering
    BY <2>3 DEF Transports
  <2>5. conns' = [conns EXCEPT ![p] = With(conns[p], t)]
    BY <1>1, <2>2, <2>3 DEF With
  <2>6. /\ conns[p].t.gathering /\ t.me = conns[p].t.me /\ t.remote = conns[p].t.remote
        /\ t.gathering \/ t.local_done
        /\ c \in Candidates \cup {EndOfCandidates}
    BY <1>1, <2>1, <2>4
  <2> QED BY <2>1, <2>2, <2>5, <2>6, GatherEffect
<1>3. CASE OnGatheringDone(p)
  <2>1. /\ conns[p].t.gathering
        /\ conns' = [conns EXCEPT ![p].t = [@ EXCEPT !.gathering = FALSE, !.local_done = TRUE]]
        /\ Send(Other(p), Message("candidate", conns[p].t.me, EndOfCandidates))
        /\ UNCHANGED <<work, ufrags, joins, failures, overlapped>>
    BY <1>3 DEF OnGatheringDone
  <2>2. PICK t : t = [k EXCEPT !.gathering = FALSE, !.local_done = TRUE]
    OBVIOUS
  <2>3. t.me = k.me /\ t.remote = k.remote /\ t.local_done
    BY <2>2 DEF Transports
  <2>4. conns' = [conns EXCEPT ![p] = With(conns[p], t)]
    BY <1>1, <2>1, <2>2 DEF With
  <2>5. /\ t.me = conns[p].t.me /\ t.remote = conns[p].t.remote
        /\ t.gathering \/ t.local_done
        /\ EndOfCandidates \in Candidates \cup {EndOfCandidates}
    BY <1>1, <2>3
  <2> QED BY <2>1, <2>4, <2>5, GatherEffect
<1> QED BY <1>2, <1>3

\* A connection without a transport, or before its answer, does not gather.
LEMMA QuietConnections ==
    ASSUME NEW k, IsWaiting(k) \/ IsCalling(k) \/ k = NoConnection
    PROVE  ~k.t.gathering
<1>1. ~NoTransport.gathering /\ NoConnection.t = NoTransport
    BY NoTransportIs DEF NoConnection
<1> QED BY <1>1 DEF IsWaiting, IsCalling

LEMMA StillIs ==
    ASSUME NEW k, NEW e, StillLinked(k, e)
    PROVE  /\ e.t.me = k.t.me
           /\ \A f : Linked(k, f) => Linked(e, f)
           /\ \A f : Linked(f, k) => Linked(f, e)
BY DEF StillLinked, Linked

\* The agent of the offerer.
LEMMA PhaseGatherOfferer ==
    ASSUME IceInv, Gathered("o"), Phase
    PROVE  Phase'
<1>1. PICK S : S = Way("o")
    OBVIOUS
<1>2. PICK T \in Seq(Letters(ufrags)) : T = Way("a")
    BY Names, WaysAre, Zenon
<1>3. PICK d \in Letters(ufrags) : Way("a")' = Append(T, d) /\ d.type = "candidate"
    BY <1>2, Names DEF Gathered
<1>4. /\ Way("o")' = S /\ work' = work /\ conns'["a"] = conns["a"]
      /\ StillLinked(conns["o"], conns'["o"]) /\ conns["o"].t.gathering
    BY <1>1, Names DEF Gathered, StillLinked
<1>5. ~IsWaiting(conns["o"]) /\ ~IsCalling(conns["o"]) /\ conns["o"] # NoConnection
    BY <1>4, QuietConnections
<1>6. Only(T, {"candidate"}) => Only(Append(T, d), {"candidate"})
    BY <1>3, OnlyAppend
<1>7. CASE JoinPhase(Len(work["o"]), S, conns["o"], T)
  <2>1. JoinPhase(Len(work["o"]), S, conns'["o"], Append(T, d))
    BY <1>5, <1>6, <1>7 DEF JoinPhase
  <2> QED BY <1>3, <1>4, <2>1 DEF Phase
<1>8. CASE GatherPhase(S, conns["o"], T, conns["a"])
  <2>1. GatherPhase(S, conns'["o"], Append(T, d), conns["a"])
    BY <1>4, <1>6, <1>8, StillIs DEF GatherPhase
  <2> QED BY <1>3, <1>4, <2>1 DEF Phase
<1>9. ~Idle
    BY <1>5, Names DEF Idle
<1> QED BY <1>1, <1>2, <1>5, <1>7, <1>8, <1>9 DEF Phase, OfferPhase, AnswerPhase

\* The agent of the answerer.
LEMMA PhaseGatherAnswerer ==
    ASSUME IceInv, Gathered("a"), Phase
    PROVE  Phase'
<1>1. PICK T : T = Way("a")
    OBVIOUS
<1>2. PICK S \in Seq(Letters(ufrags)) : S = Way("o")
    BY Names, WaysAre, Zenon
<1>3. PICK d \in Letters(ufrags) : Way("o")' = Append(S, d) /\ d.type = "candidate"
    BY <1>2, Names DEF Gathered
<1>4. /\ Way("a")' = T /\ work' = work /\ conns'["o"] = conns["o"]
      /\ StillLinked(conns["a"], conns'["a"]) /\ conns["a"].t.gathering
    BY <1>1, Names DEF Gathered, StillLinked
<1>5. ~IsWaiting(conns["a"]) /\ conns["a"] # NoConnection
    BY <1>4, QuietConnections
<1>6. Only(S, {"candidate"}) => Only(Append(S, d), {"candidate"})
    BY <1>3, OnlyAppend
<1>7. CASE JoinPhase(Len(work["o"]), S, conns["o"], T)
  <2>1. PICK j \in DOMAIN S :
          /\ Marked(S, j, "join", {"leave", "answer", "candidate"})
          /\ j <= Len(work["o"]) => IsWaiting(conns["o"]) /\ Marked(S, j, "join", {"answer", "candidate"})
    BY <1>7 DEF JoinPhase
  <2>2. Marked(Append(S, d), j, "join", {"leave", "answer", "candidate"}) /\ j \in DOMAIN Append(S, d)
    BY <1>3, <2>1, MarkedAppend
  <2>3. j <= Len(work["o"]) => IsWaiting(conns["o"]) /\ Marked(Append(S, d), j, "join", {"answer", "candidate"})
    BY <1>3, <2>1, MarkedAppend
  <2>4. JoinPhase(Len(work["o"]), Append(S, d), conns["o"], T)
    BY <1>7, <2>2, <2>3 DEF JoinPhase
  <2> QED BY <1>3, <1>4, <2>4 DEF Phase
<1>8. CASE OfferPhase(Len(work["a"]), S, conns["o"], T, conns["a"])
  <2>1. OfferPhase(Len(work["a"]), Append(S, d), conns["o"], T, conns'["a"])
    BY <1>5, <1>6, <1>8 DEF OfferPhase
  <2> QED BY <1>3, <1>4, <2>1 DEF Phase
<1>9. CASE AnswerPhase(S, conns["o"], T, conns["a"])
  <2>1. PICK j \in DOMAIN S : Marked(S, j, "answer", {"candidate"}) /\ S[j].ufrag = conns["a"].t.me
    BY <1>9 DEF AnswerPhase
  <2>2. /\ Marked(Append(S, d), j, "answer", {"candidate"}) /\ Append(S, d)[j] = S[j]
        /\ j \in DOMAIN Append(S, d)
    BY <1>3, <2>1, MarkedAppend
  <2>3. /\ Only(T, {"candidate"}) /\ IsCalling(conns["o"]) /\ Linked(conns'["a"], conns["o"])
        /\ conns'["a"].t.me = conns["a"].t.me
    BY <1>4, <1>9, StillIs DEF AnswerPhase
  <2>4. AnswerPhase(Append(S, d), conns["o"], T, conns'["a"])
    BY <2>1, <2>2, <2>3 DEF AnswerPhase
  <2> QED BY <1>3, <1>4, <2>4 DEF Phase
<1>10. CASE GatherPhase(S, conns["o"], T, conns["a"])
  <2>1. GatherPhase(Append(S, d), conns["o"], T, conns'["a"])
    BY <1>4, <1>6, <1>10, StillIs DEF GatherPhase
  <2> QED BY <1>3, <1>4, <2>1 DEF Phase
<1>11. ~Idle
    BY <1>5, Names DEF Idle
<1> QED BY <1>1, <1>2, <1>7, <1>8, <1>9, <1>10, <1>11 DEF Phase

LEMMA NoneInFlight ==
    ASSUME NEW L, NEW a \in Seq(L), NEW b \in Seq(L), NEW K, ~InFlight(b \o a, K)
    PROVE  \A i \in DOMAIN (a \o b) : (a \o b)[i].type \notin K
<1> SUFFICES ASSUME NEW i \in DOMAIN (a \o b) PROVE (a \o b)[i].type \notin K
    OBVIOUS
<1>1. \E j \in DOMAIN (b \o a) : (a \o b)[i] = (b \o a)[j]
  <2>1. CASE i <= Len(a)
    <3>1. i + Len(b) \in DOMAIN (b \o a) /\ (a \o b)[i] = (b \o a)[i + Len(b)]
      BY <2>1
    <3> QED BY <3>1
  <2>2. CASE ~(i <= Len(a))
    <3>1. i - Len(a) \in DOMAIN (b \o a) /\ (a \o b)[i] = (b \o a)[i - Len(a)]
      BY <2>2
    <3> QED BY <3>1
  <2> QED BY <2>1, <2>2
<1> QED BY <1>1 DEF InFlight

\* Without an overlap, an exchange is over when a joins again.
LEMMA RestBeforeJoin ==
    ASSUME IceInv, Phase,
           \A i \in DOMAIN Way("o") : Way("o")[i].type # "join",
           \A i \in DOMAIN Way("a") : Way("a")[i].type # "offer"
    PROVE  Only(Way("o"), {"answer", "candidate"}) /\ Only(Way("a"), {"candidate"})
<1>1. CASE Idle
  <2>1. Way("o") = <<>> /\ Way("a") = <<>>
    BY <1>1, Names DEF Idle
  <2> QED BY <2>1 DEF Only
<1>2. ~JoinPhase(Len(work["o"]), Way("o"), conns["o"], Way("a"))
    BY DEF JoinPhase, Marked
<1>3. ~OfferPhase(Len(work["a"]), Way("o"), conns["o"], Way("a"), conns["a"])
    BY DEF OfferPhase, Marked
<1>4. CASE AnswerPhase(Way("o"), conns["o"], Way("a"), conns["a"])
  <2>1. PICK S \in Seq(Letters(ufrags)) : S = Way("o")
    BY Names, WaysAre, Zenon
  <2>2. PICK j \in DOMAIN S : Marked(S, j, "answer", {"candidate"})
    BY <1>4, <2>1 DEF AnswerPhase
  <2>3. ASSUME NEW i \in DOMAIN S PROVE S[i].type \in {"answer", "candidate"}
    <3>1. i \in Nat /\ j \in Nat
      OBVIOUS
    <3>2. i < j \/ i = j \/ i > j
      BY <3>1
    <3> QED BY <2>2, <3>2 DEF Marked
  <2>4. Only(S, {"answer", "candidate"})
    BY <2>3 DEF Only
  <2> QED BY <1>4, <2>1, <2>4 DEF AnswerPhase
<1>5. CASE GatherPhase(Way("o"), conns["o"], Way("a"), conns["a"])
    BY <1>5 DEF GatherPhase, Only
<1> QED BY <1>1, <1>2, <1>3, <1>4, <1>5 DEF Phase

\* a joins.
LEMMA PhaseJoin ==
    ASSUME IceInv, NEW leaving \in BOOLEAN, Join(leaving), Phase, Clean'
    PROVE  Phase'
<1>1. PICK L : L = Letters(ufrags)
    OBVIOUS
<1>2. PICK a \in Seq(L) : a = work["o"]
    BY <1>1, Names, Zenon DEF IceInv, IceTypes
<1>3. PICK b \in Seq(L) : b = net["o"]
    BY <1>1, Names, Zenon DEF IceInv, IceTypes
<1>4. PICK f \in Seq(L) : f = work["a"]
    BY <1>1, Names, Zenon DEF IceInv, IceTypes
<1>5. PICK g \in Seq(L) : g = net["a"]
    BY <1>1, Names, Zenon DEF IceInv, IceTypes
<1>6. Way("o") = a \o b /\ Way("a") = f \o g /\ ufrags \in Nat
    BY <1>2, <1>3, <1>4, <1>5 DEF Way, IceInv, IceTypes
<1>7. ~InFlight(b \o a, {"join"}) /\ ~InFlight(g \o f, {"offer"})
    BY <1>2, <1>3, <1>4, <1>5 DEF Join, Clean
<1>8. \A i \in DOMAIN Way("o") : Way("o")[i].type # "join"
  <2>1. \A i \in DOMAIN (a \o b) : (a \o b)[i].type \notin {"join"}
    BY <1>7, NoneInFlight
  <2> QED BY <1>6, <2>1
<1>9. \A i \in DOMAIN Way("a") : Way("a")[i].type # "offer"
  <2>1. \A i \in DOMAIN (f \o g) : (f \o g)[i].type \notin {"offer"}
    BY <1>7, NoneInFlight
  <2> QED BY <1>6, <2>1
<1>10. Only(a \o b, {"answer", "candidate"}) /\ Only(Way("a"), {"candidate"})
    BY <1>6, <1>8, <1>9, RestBeforeJoin
<1>11. PICK x : x = Message("leave", NoUfrag, NoUfrag)
    OBVIOUS
<1>12. PICK y : y = Message("join", NoUfrag, NoUfrag)
    OBVIOUS
<1>13. x \in L /\ x.type = "leave" /\ y \in L /\ y.type = "join"
  <2>1. "leave" \in Kinds /\ "join" \in Kinds
    BY DEF Kinds
  <2>2. NoUfrag \in 0 .. ufrags /\ NoUfrag \in Candidates \cup {EndOfCandidates}
    BY <1>6 DEF NoUfrag, EndOfCandidates
  <2>3. "leave" \notin Descriptions \cup {"candidate"} /\ "join" \notin Descriptions \cup {"candidate"}
    BY DEF Descriptions
  <2>4. x \in Letters(ufrags) /\ x.type = "leave"
    BY <1>6, <1>11, <2>1, <2>2, <2>3, MessageIs
  <2>5. y \in Letters(ufrags) /\ y.type = "join"
    BY <1>6, <1>12, <2>1, <2>2, <2>3, MessageIs
  <2> QED BY <1>1, <2>4, <2>5
<1>14. PICK c \in Seq(L) : c = IF leaving THEN Append(b, x) ELSE b
  <2>1. Append(b, x) \in Seq(L)
    BY <1>13
  <2>2. (IF leaving THEN Append(b, x) ELSE b) \in Seq(L)
    BY <2>1
  <2> QED BY <2>2, Zenon
<1>15. net' = [net EXCEPT !["o"] = Append(c, y)]
  <2>1. net' = [net EXCEPT !["o"] = b \o (IF leaving THEN <<x>> ELSE <<>>) \o <<y>>]
    BY <1>3, <1>11, <1>12 DEF Join
  <2>2. b \o <<x>> \o <<y>> = Append(Append(b, x), y) /\ b \o <<>> \o <<y>> = Append(b, y)
    BY <1>13, ConcatOne
  <2>3. CASE leaving
    BY <1>14, <2>1, <2>2, <2>3
  <2>4. CASE ~leaving
    BY <1>14, <2>1, <2>2, <2>4
  <2> QED BY <2>3, <2>4
<1>16. net'["o"] = Append(c, y) /\ net'["a"] = net["a"] /\ work' = work
  <2>1. net \in [Peers -> Seq(Letters(ufrags))] /\ work' = work
    BY DEF IceInv, IceTypes, Join
  <2> QED BY <1>15, <2>1, Names
<1>17. PICK S \in Seq(L) : S = a \o c
  <2>1. a \o c \in Seq(L)
    OBVIOUS
  <2> QED BY <2>1, Zenon
<1>18. Only(S, {"leave", "answer", "candidate"}) /\ Len(a) \in Nat /\ Len(a) <= Len(S) /\ Len(S) \in Nat
  <2>1. Only(a \o b, {"leave", "answer", "candidate"})
    BY <1>10 DEF Only
  <2>2. CASE leaving
    <3>1. S = Append(a \o b, x) /\ a \o b \in Seq(L)
      BY <1>13, <1>14, <1>17, <2>2, ConcatAppend
    <3>2. x.type \in {"leave", "answer", "candidate"}
      BY <1>13
    <3>3. Only(S, {"leave", "answer", "candidate"})
      BY <1>13, <2>1, <3>1, <3>2, OnlyAppend
    <3>4. Len(a) \in Nat /\ Len(a) <= Len(S) /\ Len(S) \in Nat
      BY <1>17
    <3> QED BY <3>3, <3>4
  <2>3. CASE ~leaving
    <3>1. Len(a) \in Nat /\ Len(a) <= Len(S) /\ Len(S) \in Nat
      BY <1>17
    <3> QED BY <1>14, <1>17, <2>1, <2>3, <3>1
  <2> QED BY <2>2, <2>3
<1>19. PICK U : U = Append(S, y)
    OBVIOUS
<1>20. /\ Marked(U, Len(U), y.type, {"leave", "answer", "candidate"}) /\ Len(U) = Len(S) + 1
       /\ Len(U) \in DOMAIN U
  <2>1. y \in L
    BY <1>13
  <2> QED BY <1>18, <1>19, <2>1, OnlyMarks
<1>21. ~(Len(U) <= Len(a))
    BY <1>18, <1>20
<1>22. Way("o")' = U /\ Way("a")' = Way("a") /\ Len(work["o"])' = Len(a)
  <2>1. a \o Append(c, y) = Append(a \o c, y)
    BY <1>13, ConcatAppend
  <2> QED BY <1>2, <1>16, <1>17, <1>19, <2>1 DEF Way
<1>23. JoinPhase(Len(a), U, conns'["o"], Way("a"))
    BY <1>10, <1>13, <1>20, <1>21 DEF JoinPhase
<1> QED BY <1>22, <1>23 DEF Phase

\* Every step keeps to the phases, as long as nothing is lost, fails or overlaps.
LEMMA PhasesStay ==
    ASSUME IceInv, Phases, [IceNext]_ice_vars
    PROVE  Phases'
<1> SUFFICES ASSUME Clean' PROVE Phase'
    BY DEF Phases
<1>1. ASSUME NEW p \in Peers, ProcessSignal(p) PROVE Phase'
  <2>1. Phases'
    BY <1>1, PhaseSignal
  <2> QED BY <2>1 DEF Phases
<1>2. ASSUME NEW p \in Peers, ProcessIceWorkMsg(p) PROVE Phase'
  <2>1. Clean
    BY <1>2, WorkEffect DEF Worked
  <2>2. Phase /\ (p = "o" \/ p = "a")
    BY <2>1, Names DEF Phases
  <2> QED BY <1>2, <2>2, PhaseWorkOfferer, PhaseWorkAnswerer
<1>3. ASSUME NEW p \in Peers, OnNewLocalCandidate(p) \/ OnGatheringDone(p) PROVE Phase'
  <2>1. Gathered(p)
    BY <1>3, CallbackEffect
  <2>2. Phase /\ (p = "o" \/ p = "a")
    BY <2>1, Names DEF Phases, Gathered
  <2> QED BY <2>1, <2>2, PhaseGatherOfferer, PhaseGatherAnswerer
<1>4. ASSUME NEW leaving \in BOOLEAN, Join(leaving) PROVE Phase'
  <2>1. Clean
    BY <1>4 DEF Join, Clean
  <2> QED BY <1>4, <2>1, PhaseJoin DEF Phases
<1>5. CASE UNCHANGED ice_vars
  <2>1. /\ UNCHANGED work /\ UNCHANGED net /\ UNCHANGED conns /\ UNCHANGED joins
        /\ UNCHANGED lost /\ UNCHANGED failures /\ UNCHANGED overlapped
    BY <1>5 DEF ice_vars
  <2>2. Clean
    BY <2>1 DEF Clean
  <2>3. Phase
    BY <2>2 DEF Phases
  <2> QED BY <2>1, <2>3 DEF Phase, Idle, Way
<1> QED BY <1>1, <1>2, <1>3, <1>4, <1>5, Zenon DEF IceNext, Step

LEMMA InitIsIdle ==
    ASSUME IceInit
    PROVE  Phases
<1>1. \A p \in Peers : net[p] = <<>> /\ work[p] = <<>> /\ conns[p] = NoConnection
    BY DEF IceInit
<1>2. \A p \in Peers : Way(p) = <<>>
  <2>1. <<>> \o <<>> = <<>>
    OBVIOUS
  <2> QED BY <1>1, <2>1 DEF Way
<1>3. joins = 0
    BY DEF IceInit
<1> QED BY <1>1, <1>2, <1>3 DEF Phases, Phase, Idle

\* Two ends that are linked, with nothing on its way between them and nobody
\* gathering, have each other's marker.
LEMMA LinkedIsDone ==
    ASSUME IceInv, lost = 0, NEW p \in Peers, Way(p) = <<>>,
           Linked(conns[p], conns[Other(p)]), Linked(conns[Other(p)], conns[p]),
           ~conns[Other(p)].t.gathering
    PROVE  /\ conns[p].t.remote = conns[Other(p)].t.me /\ conns[p].t.remote # NoUfrag
           /\ conns[p].t.remote_done
<1>1. Whole(Way(p), conns[p].t, conns[Other(p)].t)
    BY DEF IceInv, Sound
<1>2. /\ conns[p].t.remote = conns[Other(p)].t.me /\ conns[Other(p)].t.me # NoUfrag
      /\ conns[Other(p)].t.local_done
    BY DEF Linked
<1>3. DOMAIN Way(p) = {}
    OBVIOUS
<1>4. DoneIsSent(Way(p), conns[p].t, conns[Other(p)].t)
    BY <1>1 DEF Whole
<1>5. conns[p].t.remote_done
    BY <1>2, <1>3, <1>4 DEF DoneIsSent, Open
<1> QED BY <1>2, <1>5

\* An exchange that has settled is past its answer.
LEMMA SettledPhase ==
    ASSUME IceInv, Phases
    PROVE  SettledIsMatched
<1> SUFFICES ASSUME Settled, joins > 0, lost = 0, failures = 0, ~overlapped
             PROVE  Matched
    BY DEF SettledIsMatched
<1>1. ASSUME NEW p \in Peers PROVE Way(p) = <<>> /\ ~conns[p].t.gathering
  <2>1. net[p] = <<>> /\ work[p] = <<>> /\ ~conns[p].t.gathering
    BY DEF Settled
  <2>2. <<>> \o <<>> = <<>>
    OBVIOUS
  <2> QED BY <2>1, <2>2 DEF Way
<1>2. Way("o") = <<>> /\ Way("a") = <<>> /\ DOMAIN Way("o") = {} /\ DOMAIN Way("a") = {}
    BY <1>1, Names
<1>3. Phase /\ ~Idle
  <2>1. joins \in Nat
    BY NegotiationAssumption DEF IceInv, IceTypes
  <2>2. joins # 0
    BY <2>1
  <2> QED BY <2>2 DEF Phases, Clean, Idle
<1>4. GatherPhase(Way("o"), conns["o"], Way("a"), conns["a"])
    BY <1>2, <1>3 DEF Phase, JoinPhase, OfferPhase, AnswerPhase
<1>5. Linked(conns["o"], conns["a"]) /\ Linked(conns["a"], conns["o"])
    BY <1>4 DEF GatherPhase
<1>6. ASSUME NEW p \in Peers
      PROVE  Linked(conns[p], conns[Other(p)]) /\ Linked(conns[Other(p)], conns[p])
    BY <1>5, Names
<1>7. ASSUME NEW p \in Peers
      PROVE  /\ conns[p].t.remote = conns[Other(p)].t.me /\ conns[p].t.remote # NoUfrag
             /\ conns[p].t.remote_done
  <2>1. Other(p) \in Peers
    BY PeersAre
  <2> QED BY <1>1, <1>6, <2>1, LinkedIsDone
<1> QED BY <1>7 DEF Matched

\* Once nothing is on its way and nobody gathers, the two peers hold each other's
\* description and candidates, after any number of joins, with any candidates and
\* any limit of the queues, if nothing was lost or refused and no exchange
\* overlapped.
THEOREM SettledPeersMatch == IceSpec => []SettledIsMatched
<1>1. IceInit => Phases
    BY InitIsIdle
<1>2. IceInv /\ Phases /\ [IceNext]_ice_vars => Phases'
    BY PhasesStay
<1>3. IceInv /\ Phases => SettledIsMatched
    BY SettledPhase
<1> QED BY <1>1, <1>2, <1>3, NegotiationInvariant, PTL DEF IceSpec
=============================================================================
