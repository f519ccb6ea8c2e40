------------------------- MODULE PeerConnectionProofs -------------------------
(***************************************************************************)
(* The safety of PeerConnection, for any number of users, connections and  *)
(* signals, and that it implements ConnectionLifecycle.                    *)
(*                                                                         *)
(* The argument has two halves.  Every step has one of four shapes, seen   *)
(* from the map, the claims on terminal statuses and the reports made      *)
(* (StepShape): it is silent, ends connections, pays a claim, or creates a *)
(* connection.  Both the claim invariants and the refinement then follow   *)
(* from the shapes alone.  The rest of the invariant says that what the    *)
(* threads and queues hold exists and that each thread does one release at *)
(* a time, which is what the shapes are proved from.                       *)
(***************************************************************************)
EXTENDS PeerConnectionLifecycle, SequenceTheorems, TLAPS

-----------------------------------------------------------------------------
(* What the pieces shared by several actions do to the types *)

\* WorkerGoto changes the worker's step and connection only.
LEMMA GotoType ==
    ASSUME worker \in WorkerStates, NEW g \in ConnIds,
           NEW pc \in {"idle", "lookup", "closed", "releasing", "start",
                       "replace", "init", "negotiate", "failed", "exited"},
           WorkerGoto(pc, g)
    PROVE  worker' \in WorkerStates
  BY DEF WorkerStates, WorkerGoto

\* ReleaseAllIceTransmission starts from a well-formed record.
LEMMA ReleasingType ==
    ASSUME release \in [Releasers -> ReleaseStates],
           NEW t \in Releasers, NEW g \in ConnIds
    PROVE  Releasing(t, g) \in [Releasers -> ReleaseStates]
  <1>1. [step |-> "close", conn |-> g, tr |-> 0] \in ReleaseStates
    BY DEF ReleaseStates
  <1> QED
    BY <1>1 DEF Releasing

\* No release under way.
LEMMA IdleType == Idle \in ReleaseStates /\ Idle.step = "none"
  BY DEF Idle, ReleaseStates, ConnIds, NoConn

\* No clear under way.
LEMMA NoClearType == NoClear \in ClearStates
  BY DEF NoClear, ClearStates

\* Dropping references can only end transports.
LEMMA DropType ==
    ASSUME transport \in [Gens -> TransportStates], NEW t, NEW S, Drop(t, S)
    PROVE  transport' \in [Gens -> TransportStates]
  BY DEF Drop, TransportStates

\* A report counts up.
LEMMA ReportType ==
    ASSUME terminals \in [Gens -> Nat], NEW g \in Gens, ReportTerminal(g)
    PROVE  terminals' \in [Gens -> Nat]
  BY DEF ReportTerminal

\* RetirePeerConnection keeps the map and the cleanup queue well-formed.
LEMMA RetireType ==
    ASSUME TypeOK, NEW g \in Gens, CanRetire(g), Retire(g)
    PROVE  /\ conn_map' \in [Users -> ConnIds]
           /\ cleanup' \in Seq(Gens)
           /\ UNCHANGED <<msg_queue, running>>
  <1>1. cleanup' \in Seq(Gens)
    BY DEF TypeOK, Retire
  <1> QED
    BY <1>1 DEF TypeOK, Retire, CanRetire, IsCurrent, ConnIds

\* ClearPeerConnections takes generations out of the map.
LEMMA ClearTakeType ==
    ASSUME TypeOK, NEW t \in Clearers, ClearTake(t)
    PROVE  /\ clear' \in [Clearers -> ClearStates]
           /\ conn_map' \in [Users -> ConnIds]
           /\ UNCHANGED <<msg_queue, cleanup, running>>
  <1>1. [todo |-> {g \in Gens : IsCurrent(g)},
         held |-> {g \in Gens : IsCurrent(g)}] \in ClearStates
    BY DEF ClearStates
  <1> QED
    BY <1>1 DEF TypeOK, ClearTake, ConnIds

\* One round of the loop of ClearPeerConnections.
LEMMA ClearOneType ==
    ASSUME TypeOK, NEW t \in Clearers, ClearOne(t)
    PROVE  /\ clear' \in [Clearers -> ClearStates]
           /\ release' \in [Releasers -> ReleaseStates]
           /\ terminals' \in [Gens -> Nat]
  <1> PICK g \in clear[t].todo :
            /\ ReportTerminal(g)
            /\ clear' = [clear EXCEPT ![t].todo = @ \ {g}]
            /\ release' = Releasing(t, g)
    BY DEF ClearOne
  <1>1. g \in Gens /\ g \in ConnIds /\ t \in Releasers
    BY DEF TypeOK, ClearStates, ConnIds, Clearers, Releasers
  <1>2. clear' \in [Clearers -> ClearStates]
    BY DEF TypeOK, ClearStates
  <1> QED
    BY <1>1, <1>2, ReleasingType, ReportType DEF TypeOK

\* The worker's failure path, retired or suppressed.
LEMMA WorkerFailType ==
    ASSUME TypeOK, worker.conn \in Gens,
           NEW tr \in [Gens -> TransportStates], WorkerFail(tr)
    PROVE  /\ worker' \in WorkerStates
           /\ transport' \in [Gens -> TransportStates]
           /\ conn_map' \in [Users -> ConnIds]
           /\ cleanup' \in Seq(Gens)
           /\ UNCHANGED <<msg_queue, running>>
  <1>1. CASE CanRetire(worker.conn)
    BY <1>1, RetireType, GotoType DEF TypeOK, WorkerFail, ConnIds
  <1>2. CASE ~CanRetire(worker.conn)
    <2>1. /\ WorkerGoto("idle", NoConn)
          /\ UNCHANGED queues
          /\ transport' = [tr EXCEPT ![worker.conn] =
                             IF LastHolder("worker", worker.conn) /\ @ = "live"
                             THEN "dead" ELSE @]
      BY <1>2 DEF WorkerFail
    <2>2. transport' \in [Gens -> TransportStates]
      BY <2>1 DEF TransportStates
    <2>3. worker' \in WorkerStates
      BY <2>1, GotoType DEF TypeOK, ConnIds
    <2> QED
      BY <2>1, <2>2, <2>3 DEF TypeOK, queues
  <1> QED
    BY <1>1, <1>2

\* What a thread holds at a step is a generation.
LEMMA HeldGens ==
    ASSUME TypeOK, RefsBorn
    PROVE  /\ \A t \in Releasers : release[t].step # "none" => release[t].conn \in Gens
           /\ worker.pc \notin {"idle", "lookup", "exited"} => worker.conn \in Gens
           /\ Born \subseteq Gens
           /\ Gens \subseteq ConnIds
           /\ NoConn \in ConnIds
  BY BoundsAssumption DEF TypeOK, RefsBorn, ReleaseRefs, WorkerRefs, Born, Gens, ConnIds

\* Every step keeps the types.
LEMMA TypeStep ==
    ASSUME IInv, Next
    PROVE  TypeOK'
  <1>h. /\ \A t \in Releasers : release[t].step # "none" => release[t].conn \in Gens
        /\ worker.pc \notin {"idle", "lookup", "exited"} => worker.conn \in Gens
        /\ Gens \subseteq ConnIds /\ NoConn \in ConnIds
        /\ "app" \in Releasers /\ "ws" \in Releasers /\ "worker" \in Releasers
        /\ "app" \in Clearers /\ "ws" \in Clearers
    BY HeldGens DEF IInv, Releasers, Clearers
  <1>t. TypeOK
    BY DEF IInv
  <1> USE <1>t, <1>h DEF TypeOK, queues, conns, threads, history
  <1>1. ASSUME NEW t \in Releasers, ReleaseClose(t) PROVE TypeOK'
    <2> DEFINE g == release[t].conn
    <2>1. g \in Gens
      BY <1>1 DEF ReleaseClose
    <2>2. closed' \in [Gens -> BOOLEAN]
      BY <1>1, <2>1 DEF ReleaseClose
    <2>3. release' \in [Releasers -> ReleaseStates]
      <3>1. incarnation[g] \in Nat
        BY <2>1
      <3>2. ASSUME NEW s \in {"report", "join"}
            PROVE  Closing(t, s) \in [Releasers -> ReleaseStates]
        <4>1. [step |-> s, conn |-> g, tr |-> incarnation[g]] \in ReleaseStates
          BY <2>1, <3>1 DEF ReleaseStates
        <4> QED
          BY <4>1 DEF Closing
      <3> QED
        BY <1>1, <3>2, IdleType DEF ReleaseClose
    <2>4. /\ conn_map' \in [Users -> ConnIds]
          /\ cleanup' \in Seq(Gens)
          /\ UNCHANGED <<msg_queue, running>>
      BY <1>1, <2>1, RetireType DEF ReleaseClose
    <2> QED
      BY <1>1, <2>2, <2>3, <2>4 DEF ReleaseClose
  <1>2. ASSUME NEW t \in Releasers, ReleaseReport(t) PROVE TypeOK'
    <2>1. release' \in [Releasers -> ReleaseStates]
      BY <1>2 DEF ReleaseReport, ReleaseStates
    <2>2. terminals' \in [Gens -> Nat] /\ UNCHANGED late
      BY <1>2, ReportType DEF ReleaseReport, ReportTerminal
    <2> QED
      BY <1>2, <2>1, <2>2 DEF ReleaseReport
  <1>3. ASSUME NEW t \in Releasers, ReleaseJoin(t) PROVE TypeOK'
    <2>1. release' \in [Releasers -> ReleaseStates]
      BY <1>3, IdleType DEF ReleaseJoin
    <2>2. transport' \in [Gens -> TransportStates]
      BY <1>3 DEF ReleaseJoin, TransportStates
    <2> QED
      BY <1>3, <2>1, <2>2 DEF ReleaseJoin
  <1>4. CASE AppLeave \/ AppDestroy
    BY <1>4, ClearTakeType DEF AppLeave, AppDestroy, AppStates
  <1>5. CASE AppClearOne \/ WsClearOne
    <2>1. PICK t \in Clearers : ClearOne(t)
      BY <1>5 DEF AppClearOne, WsClearOne
    <2>2. /\ clear' \in [Clearers -> ClearStates]
          /\ release' \in [Releasers -> ReleaseStates]
          /\ terminals' \in [Gens -> Nat]
      BY <2>1, ClearOneType
    <2> QED
      BY <2>1, <2>2 DEF ClearOne, ReportTerminal
  <1>6. CASE AppClearDone
    <2>1. app' \in AppStates /\ clear' \in [Clearers -> ClearStates]
      BY <1>6, NoClearType DEF AppClearDone, AppStates
    <2>2. transport' \in [Gens -> TransportStates]
      BY <1>6, DropType DEF AppClearDone
    <2> QED
      BY <1>6, <2>1, <2>2 DEF AppClearDone
  <1>7. CASE AppStopIceWorker
    BY <1>7 DEF AppStopIceWorker, AppStates
  <1>8. CASE AppJoinIceWorker \/ AppCloseWs
    BY <1>8 DEF AppJoinIceWorker, AppCloseWs, AppStates
  <1>9. ASSUME NEW u \in Users, NEW k \in SignalKinds, WsReplaceOrCreate(u, k)
        PROVE  TypeOK'
    <2>1. created + 1 \in Gens /\ created' \in 0..MaxGen
      BY <1>9, BoundsAssumption DEF WsReplaceOrCreate, Gens
    <2>2. signals' \in 0..MaxSignals
      BY <1>9, BoundsAssumption DEF WsReplaceOrCreate, Receive
    <2>3. ws' \in WsStates
      BY <1>9, <2>1 DEF WsReplaceOrCreate, WsStates, Msgs
    <2>4. release' \in [Releasers -> ReleaseStates]
      BY <1>9, ReleasingType DEF WsReplaceOrCreate
    <2>5. conn_map' \in [Users -> ConnIds]
          /\ remote' \in [Gens -> Users \cup {"none"}]
          /\ wanted' \subseteq Users
      BY <1>9, <2>1 DEF WsReplaceOrCreate
    <2> QED
      BY <1>9, <2>1, <2>2, <2>3, <2>4, <2>5 DEF WsReplaceOrCreate
  <1>10. ASSUME NEW u \in Users, NEW k \in SignalKinds,
                WsBuildConnectionInfoFails(u, k)
         PROVE  TypeOK'
    <2>1. signals' \in 0..MaxSignals
      BY <1>10, BoundsAssumption DEF WsBuildConnectionInfoFails, Receive
    <2> QED
      BY <1>10, <2>1 DEF WsBuildConnectionInfoFails
  <1>11. ASSUME NEW u \in Users, NEW k \in SignalKinds, WsQueueOnly(u, k)
         PROVE  TypeOK'
    <2>1. signals' \in 0..MaxSignals
      BY <1>11, BoundsAssumption DEF WsQueueOnly, Receive
    <2>2. ws' \in WsStates
      BY <1>11 DEF WsQueueOnly, WsStates, Msgs
    <2> QED
      BY <1>11, <2>1, <2>2 DEF WsQueueOnly
  <1>12. CASE WsTlsCertError
    <2>1. signals' \in 0..MaxSignals
      BY <1>12, BoundsAssumption DEF WsTlsCertError
    <2>2. ws' \in WsStates
      BY <1>12 DEF WsTlsCertError, WsStates
    <2> QED
      BY <1>12, <2>1, <2>2, ClearTakeType DEF WsTlsCertError
  <1>13. CASE WsCreated
    <2>1. ws' \in WsStates
      BY <1>13 DEF WsCreated, WsStates
    <2> QED
      BY <1>13, <2>1, DropType DEF WsCreated
  <1>14. CASE WsPush
    <2>1. ws' \in WsStates
      BY <1>14 DEF WsPush, WsStates
    <2>2. msg_queue' \in Seq(Msgs)
      BY <1>14 DEF WsPush, IInv, MsgInHand
    <2> QED
      BY <1>14, <2>1, <2>2 DEF WsPush
  <1>15. CASE WsReportConnecting
    <2>1. ws' \in WsStates
      BY <1>15 DEF WsReportConnecting, WsStates
    <2>2. late' \subseteq Gens
      BY <1>15 DEF WsReportConnecting, Newest
    <2> QED
      BY <1>15, <2>1, <2>2 DEF WsReportConnecting
  <1>16. CASE WsClearDone
    <2>1. ws' \in WsStates
      BY <1>16 DEF WsClearDone, WsStates
    <2>2. clear' \in [Clearers -> ClearStates]
      BY <1>16, NoClearType DEF WsClearDone
    <2>3. transport' \in [Gens -> TransportStates]
      BY <1>16, DropType DEF WsClearDone
    <2> QED
      BY <1>16, <2>1, <2>2, <2>3 DEF WsClearDone
  <1>17. CASE WorkerTakeCleanup
    <2>1. Head(cleanup) \in Gens /\ cleanup' \in Seq(Gens)
      BY <1>17, HeadTailProperties DEF WorkerTakeCleanup
    <2>2. worker' \in WorkerStates
      BY <1>17, <2>1, GotoType DEF WorkerTakeCleanup
    <2>3. release' \in [Releasers -> ReleaseStates]
      BY <1>17, <2>1, ReleasingType DEF WorkerTakeCleanup
    <2> QED
      BY <1>17, <2>1, <2>2, <2>3 DEF WorkerTakeCleanup
  <1>18. CASE WorkerExit
    <2>1. worker' \in WorkerStates
      BY <1>18, GotoType DEF WorkerExit
    <2>2. msg_queue' \in Seq(Msgs)
      BY <1>18, EmptySeq DEF WorkerExit
    <2> QED
      BY <1>18, <2>1, <2>2 DEF WorkerExit
  <1>19. CASE WorkerTakeMsg
    <2>1. Head(msg_queue) \in Msgs /\ msg_queue' \in Seq(Msgs)
      BY <1>19, HeadTailProperties DEF WorkerTakeMsg
    <2>2. worker' \in WorkerStates
      BY <1>19, <2>1 DEF WorkerTakeMsg, WorkerStates
    <2> QED
      BY <1>19, <2>1, <2>2 DEF WorkerTakeMsg
  <1>20. CASE WorkerLookup
    <2>1. worker.msg.user \in Users
      BY <1>20 DEF WorkerLookup, IInv, MsgInHand, Msgs
    <2>2. worker' \in WorkerStates
      BY <1>20, <2>1, GotoType DEF WorkerLookup
    <2>3. conn_map' \in [Users -> ConnIds]
      BY <1>20, <2>1 DEF WorkerLookup
    <2> QED
      BY <1>20, <2>2, <2>3 DEF WorkerLookup
  <1>21. CASE WorkerReportLeave
    <2>1. worker' \in WorkerStates /\ release' \in [Releasers -> ReleaseStates]
      BY <1>21, GotoType, ReleasingType DEF WorkerReportLeave
    <2>2. terminals' \in [Gens -> Nat] /\ UNCHANGED late
      BY <1>21, ReportType DEF WorkerReportLeave, ReportTerminal
    <2> QED
      BY <1>21, <2>1, <2>2 DEF WorkerReportLeave
  <1>22. CASE WorkerReleased
    BY <1>22, GotoType, DropType DEF WorkerReleased
  <1>23. CASE WorkerStart
    BY <1>23, GotoType, ReleasingType DEF WorkerStart
  <1>24. CASE WorkerConfigExpired
    BY <1>24, WorkerFailType DEF WorkerConfigExpired
  <1>25. CASE WorkerCreateTransport
    <2>1. worker' \in WorkerStates
      BY <1>25, GotoType DEF WorkerCreateTransport
    <2>2. /\ transport' \in [Gens -> TransportStates]
          /\ incarnation' \in [Gens -> Nat]
      BY <1>25 DEF WorkerCreateTransport, TransportStates
    <2>3. closed' \in [Gens -> BOOLEAN]
      BY <1>25 DEF WorkerCreateTransport
    <2> QED
      BY <1>25, <2>1, <2>2, <2>3 DEF WorkerCreateTransport
  <1>26. CASE WorkerInitIce
    <2>1. worker' \in WorkerStates
      BY <1>26, GotoType DEF WorkerInitIce
    <2>2. transport' \in [Gens -> TransportStates]
      BY <1>26 DEF WorkerInitIce, TransportStates
    <2> QED
      BY <1>26, <2>1, <2>2 DEF WorkerInitIce
  <1>27. CASE WorkerInitIceFails
    <2>1. [transport EXCEPT ![worker.conn] = "none"] \in [Gens -> TransportStates]
      BY DEF TransportStates
    <2> QED
      BY <1>27, <2>1, WorkerFailType DEF WorkerInitIceFails
  <1>28. CASE WorkerNegotiate
    BY <1>28, GotoType, DropType DEF WorkerNegotiate
  <1>29. CASE WorkerReportFailed
    <2>1. worker' \in WorkerStates /\ transport' \in [Gens -> TransportStates]
      BY <1>29, GotoType, DropType DEF WorkerReportFailed
    <2>2. terminals' \in [Gens -> Nat] /\ UNCHANGED late
      BY <1>29, ReportType DEF WorkerReportFailed, ReportTerminal
    <2> QED
      BY <1>29, <2>1, <2>2 DEF WorkerReportFailed
  <1>30. ASSUME NEW g \in Gens, NEW s \in {"alive", "terminal"},
                NiceStateChange(g, s)
         PROVE  TypeOK'
    BY <1>30 DEF NiceStateChange, NiceStates
  <1>31. ASSUME NEW g \in Gens, NiceReturn(g)
         PROVE  nice' \in [Gens -> NiceStates] /\ crashed' \in BOOLEAN
    BY <1>31 DEF NiceReturn, NiceStates
  <1>32. ASSUME NEW g \in Gens, NiceRetire(g) PROVE TypeOK'
    <2>1. CASE CanRetire(g)
      <3>1. nice' \in [Gens -> NiceStates]
        BY <1>32, <2>1 DEF NiceRetire, NiceStates
      <3> QED
        BY <1>32, <2>1, <3>1, RetireType DEF NiceRetire
    <2>2. CASE ~CanRetire(g)
      BY <1>32, <2>2, <1>31 DEF NiceRetire
    <2> QED
      BY <2>1, <2>2
  <1>33. ASSUME NEW g \in Gens, NiceReportTerminal(g) PROVE TypeOK'
    <2>1. terminals' \in [Gens -> Nat] /\ UNCHANGED late
      BY <1>33, ReportType DEF NiceReportTerminal, ReportTerminal
    <2> QED
      BY <1>33, <1>31, <2>1 DEF NiceReportTerminal
  <1>34. ASSUME NEW g \in Gens, NiceCheckCurrent(g) PROVE TypeOK'
    <2>1. nice' \in [Gens -> NiceStates]
      BY <1>34, <1>31 DEF NiceCheckCurrent, NiceStates
    <2>2. crashed' \in BOOLEAN
      BY <1>34, <1>31 DEF NiceCheckCurrent
    <2> QED
      BY <1>34, <2>1, <2>2 DEF NiceCheckCurrent
  <1>35. ASSUME NEW g \in Gens, NiceReportAlive(g) PROVE TypeOK'
    <2>1. UNCHANGED terminals /\ late' \subseteq Gens
      BY <1>35 DEF NiceReportAlive, ReportAlive
    <2> QED
      BY <1>35, <1>31, <2>1 DEF NiceReportAlive
  <1> QED
    BY <1>1, <1>2, <1>3, <1>4, <1>5, <1>6, <1>7, <1>8, <1>9, <1>10, <1>11,
       <1>12, <1>13, <1>14, <1>15, <1>16, <1>17, <1>18, <1>19, <1>20, <1>21,
       <1>22, <1>23, <1>24, <1>25, <1>26, <1>27, <1>28, <1>29, <1>30, <1>32,
       <1>33, <1>34, <1>35
       DEF Next, Environment, AppStep, WsStep, WorkerStep, ReleaseStep, NiceStep

-----------------------------------------------------------------------------
(* What a step can do to the map, the claims and the reports *)

Silent ==
    /\ UNCHANGED <<created, remote, terminals>>
    /\ \A g \in Gens : IsCurrent(g)' <=> IsCurrent(g)
    /\ \A g \in Gens, c \in Claimants : Claim(c, g)' <=> Claim(c, g)

\* The connections in S leave the map and c owes their terminal statuses.
Ends(c, S) ==
    /\ UNCHANGED <<created, remote, terminals>>
    /\ \A g \in S : IsCurrent(g)
    /\ \A g \in Gens : IsCurrent(g)' <=> IsCurrent(g) /\ g \notin S
    /\ \A g \in Gens, d \in Claimants :
          Claim(d, g)' <=> Claim(d, g) \/ (d = c /\ g \in S)

\* c pays what it owes for r.
Reports(c, r) ==
    /\ UNCHANGED <<created, remote>>
    /\ terminals' = [terminals EXCEPT ![r] = @ + 1]
    /\ Claim(c, r)
    /\ \A g \in Gens : IsCurrent(g)' <=> IsCurrent(g)
    /\ \A g \in Gens, d \in Claimants :
          Claim(d, g)' <=> Claim(d, g) /\ ~(d = c /\ g = r)

\* A new connection to u takes the place of the one u had.
Creates(u) ==
    /\ created + 1 \in Gens
    /\ created' = created + 1
    /\ remote' = [remote EXCEPT ![created + 1] = u]
    /\ UNCHANGED terminals
    /\ \A g \in Gens : IsCurrent(g)' <=>
          g = created + 1 \/ (IsCurrent(g) /\ remote[g] # u)
    /\ \A g \in Gens, c \in Claimants : Claim(c, g)' <=> Claim(c, g)

Shape ==
    \/ Silent
    \/ \E c \in Claimants, S \in SUBSET Gens : Ends(c, S)
    \/ \E c \in Claimants, g \in Gens : Reports(c, g)
    \/ \E u \in Users : Creates(u)

\* No generation is the null pointer.
LEMMA GenIsConn == \A g \in Gens : g # NoConn
  BY BoundsAssumption DEF Gens, NoConn

\* Who is current depends on the map and the users alone.
LEMMA SameMap ==
    ASSUME UNCHANGED <<conn_map, remote>>
    PROVE  \A g \in Gens : IsCurrent(g)' <=> IsCurrent(g)
  BY DEF IsCurrent

\* Retire takes exactly one connection out of the map.
LEMMA RetireMap ==
    ASSUME TypeOK, NEW r \in Gens, CanRetire(r), Retire(r), UNCHANGED remote
    PROVE  /\ IsCurrent(r)
           /\ \A g \in Gens : IsCurrent(g)' <=> IsCurrent(g) /\ g # r
  BY BoundsAssumption DEF TypeOK, CanRetire, Retire, IsCurrent, Gens, NoConn

\* A clear ends everything that is current, in one step.
LEMMA ClearTakeShape ==
    ASSUME TypeOK, NEW t \in Clearers, NEW c \in Claimants,
           t = "app" => c = "clear app", t = "ws" => c = "clear ws",
           clear[t].todo = {}, ClearTake(t),
           UNCHANGED <<conns, nice, worker, release, terminals>>
    PROVE  Ends(c, {g \in Gens : IsCurrent(g)})
  <1> DEFINE S == {g \in Gens : IsCurrent(g)}
  <1>1. ASSUME NEW g \in Gens PROVE ~IsCurrent(g)'
    <2>1. g # NoConn
      BY GenIsConn
    <2>2. \A u \in Users : conn_map'[u] = NoConn
      BY DEF ClearTake
    <2> QED
      BY <2>1, <2>2 DEF IsCurrent
  <1>2. /\ clear'[t].todo = S
        /\ \A s \in Clearers : s # t => clear'[s] = clear[s]
    BY DEF ClearTake, TypeOK
  <1>3. ASSUME NEW g \in Gens, NEW d \in Claimants
        PROVE  Claim(d, g)' <=> Claim(d, g) \/ (d = c /\ g \in S)
    BY <1>2 DEF Claim, Clearers, Claimants
  <1> QED
    BY <1>1, <1>3 DEF Ends, conns

\* A clear pays its claims one by one.
LEMMA ClearOneShape ==
    ASSUME TypeOK, RefsBorn, NEW t \in Clearers, NEW c \in Claimants,
           t = "app" => c = "clear app", t = "ws" => c = "clear ws",
           ClearOne(t)
    PROVE  \E g \in Gens : Reports(c, g)
  <1> PICK r \in clear[t].todo :
            /\ ReportTerminal(r)
            /\ clear' = [clear EXCEPT ![t].todo = @ \ {r}]
            /\ release' = Releasing(t, r)
    BY DEF ClearOne
  <1>1. r \in Gens /\ t \in Releasers
    BY DEF TypeOK, ClearStates, Clearers, Releasers
  <1>2. /\ clear'[t].todo = clear[t].todo \ {r}
        /\ \A s \in Clearers : s # t => clear'[s] = clear[s]
    BY DEF TypeOK, ClearStates
  <1>3. /\ release[t].step = "none" /\ release'[t].step = "close"
        /\ \A s \in Releasers : s # t => release'[s] = release[s]
    BY <1>1, IdleType DEF ClearOne, Releasing, TypeOK
  <1>4. UNCHANGED <<nice, worker, conn_map, created, remote>>
    BY DEF ClearOne, queues, conns
  <1>5. ASSUME NEW g \in Gens, NEW d \in Claimants
        PROVE  Claim(d, g)' <=> Claim(d, g) /\ ~(d = c /\ g = r)
    BY <1>1, <1>2, <1>3, <1>4 DEF Claim, Clearers, Releasers, Claimants
  <1>6. Claim(c, r)
    BY DEF Claim, Clearers
  <1> QED
    BY <1>1, <1>4, <1>5, <1>6, SameMap DEF Reports, ReportTerminal

\* The worker's failure path ends its connection or does nothing.
LEMMA WorkerFailShape ==
    ASSUME TypeOK, worker.conn \in Gens,
           worker.pc \in {"start", "init"},
           NEW tr, WorkerFail(tr),
           UNCHANGED <<created, remote, nice, release, clear, terminals>>
    PROVE  Shape
  <1> DEFINE r == worker.conn
  <1>1. CASE CanRetire(r)
    <2>1. Retire(r) /\ worker'.pc = "failed" /\ worker'.conn = r
      BY <1>1 DEF WorkerFail, WorkerGoto, TypeOK, WorkerStates
    <2>2. ASSUME NEW g \in Gens, NEW d \in Claimants
          PROVE  Claim(d, g)' <=> Claim(d, g) \/ (d = "worker" /\ g \in {r})
      BY <2>1 DEF Claim
    <2>3. Ends("worker", {r})
      BY <1>1, <2>1, <2>2, RetireMap DEF Ends
    <2> QED
      BY <2>3 DEF Shape, Claimants
  <1>2. CASE ~CanRetire(r)
    <2>1. UNCHANGED conn_map /\ worker'.pc = "idle"
      BY <1>2 DEF WorkerFail, WorkerGoto, TypeOK, WorkerStates, queues
    <2>2. ASSUME NEW g \in Gens, NEW d \in Claimants
          PROVE  Claim(d, g)' <=> Claim(d, g)
      BY <2>1 DEF Claim
    <2> QED
      BY <2>1, <2>2, SameMap DEF Shape, Silent
  <1> QED
    BY <1>1, <1>2

\* Every step creates, ends, reports or does none of these.
LEMMA StepShape ==
    ASSUME IInv, Next
    PROVE  Shape
  <1>t. TypeOK /\ RefsBorn /\ MapOwned /\ OneAtATime /\ MsgInHand
    BY DEF IInv
  <1>h. /\ \A t \in Releasers : release[t].step # "none" => release[t].conn \in Gens
        /\ worker.pc \notin {"idle", "lookup", "exited"} => worker.conn \in Gens
        /\ Gens \subseteq ConnIds /\ NoConn \in ConnIds
        /\ "app" \in Releasers /\ "ws" \in Releasers /\ "worker" \in Releasers
        /\ "app" \in Clearers /\ "ws" \in Clearers
    BY <1>t, HeldGens DEF Releasers, Clearers
  <1> USE <1>t, <1>h DEF queues, conns, threads, history
  <1>q. ASSUME UNCHANGED <<created, remote, terminals, conn_map>>,
               \A g \in Gens, c \in Claimants : Claim(c, g)' <=> Claim(c, g)
        PROVE  Shape
    BY <1>q, SameMap DEF Silent, Shape
  <1>k. ASSUME UNCHANGED <<created, remote, terminals, conn_map,
                           nice, worker, clear, release>>
        PROVE  Shape
    BY <1>k, <1>q DEF Claim
  \* The release of thread t moves between steps that owe nothing.
  <1>r. ASSUME NEW t \in Releasers,
               release[t].step # "report", release'[t].step # "report",
               \A s \in Releasers : s # t => release'[s] = release[s],
               UNCHANGED <<nice, clear>>,
               \/ UNCHANGED worker
               \/ worker.pc \notin {"closed", "failed"}
                  /\ worker'.pc \notin {"closed", "failed"}
        PROVE  \A g \in Gens, c \in Claimants : Claim(c, g)' <=> Claim(c, g)
    <2> SUFFICES ASSUME NEW g \in Gens, NEW c \in Claimants
                 PROVE  Claim(c, g)' <=> Claim(c, g)
      OBVIOUS
    <2>1. \A s \in Releasers :
            (release'[s].step = "report" /\ release'[s].conn = g)
              <=> (release[s].step = "report" /\ release[s].conn = g)
      BY <1>r
    <2>2. (worker'.pc \in {"closed", "failed"} /\ worker'.conn = g)
            <=> (worker.pc \in {"closed", "failed"} /\ worker.conn = g)
      BY <1>r
    <2> QED
      BY <1>r, <2>1, <2>2 DEF Claim
  <1>1. ASSUME NEW t \in Releasers, ReleaseClose(t) PROVE Shape
    <2> DEFINE r == release[t].conn
    <2>1. r \in Gens
      BY <1>1 DEF ReleaseClose
    <2>2. CASE transport[r] # "none" /\ CanRetire(r)
      <3>1. Retire(r) /\ release' = Closing(t, "report")
        BY <1>1, <2>2 DEF ReleaseClose
      <3>2. /\ release'[t].step = "report" /\ release'[t].conn = r
            /\ \A s \in Releasers : s # t => release'[s] = release[s]
            /\ release[t].step = "close"
        BY <1>1, <3>1 DEF Closing, TypeOK, ReleaseClose
      <3>3. PICK c \in Claimants : /\ t = "app" <=> c = "release app"
                                   /\ t = "ws" <=> c = "release ws"
                                   /\ t = "worker" <=> c = "release worker"
                                   /\ c \in {"release app", "release ws", "release worker"}
        BY DEF Claimants, Releasers
      <3>4. ASSUME NEW g \in Gens, NEW d \in Claimants
            PROVE  Claim(d, g)' <=> Claim(d, g) \/ (d = c /\ g \in {r})
        BY <1>1, <3>2, <3>3 DEF Claim, ReleaseClose, Releasers
      <3>5. Ends(c, {r})
        BY <1>1, <2>1, <2>2, <3>1, <3>4, RetireMap DEF Ends, ReleaseClose
      <3> QED
        BY <2>1, <3>5 DEF Shape
    <2>3. CASE ~(transport[r] # "none" /\ CanRetire(r))
      <3>1. /\ release[t].step = "close" /\ release'[t].step # "report"
            /\ \A s \in Releasers : s # t => release'[s] = release[s]
        BY <1>1, <2>3, IdleType DEF ReleaseClose, Closing, TypeOK
      <3>2. UNCHANGED <<created, remote, terminals, conn_map, nice, worker, clear>>
        BY <1>1, <2>3 DEF ReleaseClose
      <3> QED
        BY <3>1, <3>2, <1>q, <1>r
    <2> QED
      BY <2>2, <2>3
  <1>2. ASSUME NEW t \in Releasers, ReleaseReport(t) PROVE Shape
    <2> DEFINE r == release[t].conn
    <2>1. r \in Gens
      BY <1>2 DEF ReleaseReport
    <2>2. /\ release[t].step = "report"
          /\ release'[t].step = "join"
          /\ \A s \in Releasers : s # t => release'[s] = release[s]
      BY <1>2 DEF ReleaseReport, TypeOK, ReleaseStates
    <2>3. PICK c \in Claimants : /\ t = "app" <=> c = "release app"
                                 /\ t = "ws" <=> c = "release ws"
                                 /\ t = "worker" <=> c = "release worker"
                                 /\ c \in {"release app", "release ws", "release worker"}
      BY DEF Claimants, Releasers
    <2>4. UNCHANGED <<created, remote, conn_map, nice, worker, clear>>
      BY <1>2 DEF ReleaseReport
    <2>5. ASSUME NEW g \in Gens, NEW d \in Claimants
          PROVE  Claim(d, g)' <=> Claim(d, g) /\ ~(d = c /\ g = r)
      BY <2>2, <2>3, <2>4 DEF Claim, Releasers
    <2>6. Claim(c, r)
      BY <2>2, <2>3 DEF Claim, Releasers
    <2>7. Reports(c, r)
      BY <1>2, <2>4, <2>5, <2>6, SameMap DEF Reports, ReleaseReport, ReportTerminal
    <2> QED
      BY <2>1, <2>7 DEF Shape
  <1>3. ASSUME NEW t \in Releasers, ReleaseJoin(t) PROVE Shape
    <2>1. /\ release[t].step = "join" /\ release'[t].step # "report"
          /\ \A s \in Releasers : s # t => release'[s] = release[s]
      BY <1>3, IdleType DEF ReleaseJoin, TypeOK
    <2>2. UNCHANGED <<created, remote, terminals, conn_map, nice, worker, clear>>
      BY <1>3 DEF ReleaseJoin
    <2> QED
      BY <2>1, <2>2, <1>q, <1>r
  <1>4. CASE AppLeave \/ AppDestroy
    <2>1. Ends("clear app", {g \in Gens : IsCurrent(g)})
      BY <1>4, ClearTakeShape DEF AppLeave, AppDestroy, OneAtATime, Claimants
    <2> QED
      BY <2>1 DEF Shape, Claimants
  <1>5. CASE AppClearOne
    BY <1>5, ClearOneShape DEF AppClearOne, Shape, Claimants
  <1>6. CASE WsClearOne
    BY <1>6, ClearOneShape DEF WsClearOne, Shape, Claimants
  <1>7. CASE AppClearDone \/ WsClearDone
    <2>1. clear'["app"].todo = clear["app"].todo
          /\ clear'["ws"].todo = clear["ws"].todo
      <3>1. NoClear.todo = {}
        BY DEF NoClear
      <3>2. CASE AppClearDone
        BY <3>1, <3>2 DEF AppClearDone, Cleared, TypeOK
      <3>3. CASE WsClearDone
        BY <3>1, <3>3 DEF WsClearDone, Cleared, TypeOK
      <3> QED
        BY <1>7, <3>2, <3>3
    <2>2. UNCHANGED <<created, remote, terminals, conn_map, nice, worker, release>>
      BY <1>7 DEF AppClearDone, WsClearDone
    <2>3. ASSUME NEW g \in Gens, NEW c \in Claimants
          PROVE  Claim(c, g)' <=> Claim(c, g)
      BY <2>1, <2>2 DEF Claim
    <2> QED
      BY <2>2, <2>3, <1>q
  <1>8. CASE AppStopIceWorker \/ AppJoinIceWorker \/ AppCloseWs
    BY <1>8, <1>k DEF AppStopIceWorker, AppJoinIceWorker, AppCloseWs
  <1>9. ASSUME NEW u \in Users, NEW k \in SignalKinds, WsReplaceOrCreate(u, k)
        PROVE  Shape
    <2> DEFINE n == created + 1
    <2>1. n \in Gens /\ created' = n /\ created \in Nat
      BY <1>9, BoundsAssumption DEF WsReplaceOrCreate, Gens, TypeOK
    <2>2. /\ remote' = [remote EXCEPT ![n] = u]
          /\ conn_map' = [conn_map EXCEPT ![u] = n]
          /\ UNCHANGED <<terminals, nice, worker, clear>>
      BY <1>9 DEF WsReplaceOrCreate
    <2>3. \A v \in Users : conn_map[v] # n
      BY <2>1, BoundsAssumption DEF MapOwned, Born, Gens, NoConn
    <2>4. ASSUME NEW g \in Gens
          PROVE  IsCurrent(g)' <=> g = n \/ (IsCurrent(g) /\ remote[g] # u)
      BY <2>1, <2>2, <2>3 DEF IsCurrent, TypeOK
    <2>5. /\ release["ws"].step # "report" /\ release'["ws"].step # "report"
          /\ \A s \in Releasers : s # "ws" => release'[s] = release[s]
      BY <1>9, IdleType DEF WsReplaceOrCreate, Receive, WsReady, OneAtATime,
                            Releasing, TypeOK
    <2>6. Creates(u)
      BY <2>1, <2>2, <2>4, <2>5, <1>r DEF Creates
    <2> QED
      BY <2>6 DEF Shape
  <1>10. ASSUME NEW u \in Users, NEW k \in SignalKinds,
                WsBuildConnectionInfoFails(u, k) \/ WsQueueOnly(u, k)
         PROVE  Shape
    BY <1>10, <1>k DEF WsBuildConnectionInfoFails, WsQueueOnly
  <1>11. CASE WsTlsCertError
    <2>1. Ends("clear ws", {g \in Gens : IsCurrent(g)})
      BY <1>11, ClearTakeShape DEF WsTlsCertError, WsReady, OneAtATime, Claimants
    <2> QED
      BY <2>1 DEF Shape, Claimants
  <1>12. CASE WsCreated \/ WsPush \/ WsReportConnecting
    BY <1>12, <1>k DEF WsCreated, WsPush, WsReportConnecting
  <1>13. CASE WorkerTakeCleanup \/ WorkerStart
    <2>1. /\ release["worker"].step # "report" /\ release'["worker"].step # "report"
          /\ \A s \in Releasers : s # "worker" => release'[s] = release[s]
      BY <1>13, IdleType DEF WorkerTakeCleanup, WorkerStart, OneAtATime,
                             Releasing, TypeOK
    <2>2. /\ worker.pc \notin {"closed", "failed"}
          /\ worker'.pc \notin {"closed", "failed"}
      BY <1>13 DEF WorkerTakeCleanup, WorkerStart, WorkerGoto, TypeOK, WorkerStates
    <2>3. UNCHANGED <<created, remote, terminals, conn_map, nice, clear>>
      BY <1>13 DEF WorkerTakeCleanup, WorkerStart
    <2> QED
      BY <2>1, <2>2, <2>3, <1>q, <1>r
  \* The worker moves between steps that owe nothing.
  <1>w. ASSUME worker.pc \notin {"closed", "failed"},
               worker'.pc \notin {"closed", "failed"},
               UNCHANGED <<nice, clear, release>>
        PROVE  \A g \in Gens, c \in Claimants : Claim(c, g)' <=> Claim(c, g)
    <2> SUFFICES ASSUME NEW g \in Gens, NEW c \in Claimants
                 PROVE  Claim(c, g)' <=> Claim(c, g)
      OBVIOUS
    <2> QED
      BY <1>w DEF Claim
  <1>14. CASE WorkerExit \/ WorkerTakeMsg \/ WorkerReleased
                \/ WorkerCreateTransport \/ WorkerInitIce \/ WorkerNegotiate
    <2>1. /\ worker.pc \notin {"closed", "failed"}
          /\ worker'.pc \notin {"closed", "failed"}
      BY <1>14 DEF WorkerExit, WorkerTakeMsg, WorkerReleased,
                   WorkerCreateTransport, WorkerInitIce, WorkerNegotiate,
                   WorkerGoto, TypeOK, WorkerStates
    <2>2. UNCHANGED <<created, remote, terminals, conn_map, nice, clear, release>>
      BY <1>14 DEF WorkerExit, WorkerTakeMsg, WorkerReleased,
                   WorkerCreateTransport, WorkerInitIce, WorkerNegotiate
    <2> QED
      BY <2>1, <2>2, <1>q, <1>w
  <1>15. CASE WorkerLookup
    <2> DEFINE u == worker.msg.user
               r == conn_map[u]
    <2>1. u \in Users
      BY <1>15 DEF WorkerLookup, MsgInHand, Msgs
    <2>2. UNCHANGED <<created, remote, terminals, nice, clear, release>>
      BY <1>15 DEF WorkerLookup
    <2>3. CASE conn_map' = conn_map /\ worker'.pc \in {"idle", "start"}
      BY <1>15, <2>2, <2>3, <1>q, <1>w DEF WorkerLookup
    <2>4. CASE /\ r # NoConn /\ conn_map' = [conn_map EXCEPT ![u] = NoConn]
               /\ worker'.pc = "closed" /\ worker'.conn = r
      <3>1. r \in Gens /\ remote[r] = u
        BY <2>1, <2>4, HeldGens DEF MapOwned
      <3>2. IsCurrent(r)
        BY <2>1, <3>1 DEF IsCurrent
      <3>3. ASSUME NEW g \in Gens
            PROVE  IsCurrent(g)' <=> IsCurrent(g) /\ g # r
        <4>1. g # NoConn
          BY GenIsConn
        <4> QED
          BY <2>1, <2>2, <2>4, <3>1, <4>1 DEF IsCurrent, TypeOK
      <3>4. ASSUME NEW g \in Gens, NEW d \in Claimants
            PROVE  Claim(d, g)' <=> Claim(d, g) \/ (d = "worker" /\ g \in {r})
        BY <1>15, <2>2, <2>4 DEF Claim, WorkerLookup
      <3>5. Ends("worker", {r})
        BY <2>2, <3>2, <3>3, <3>4 DEF Ends
      <3> QED
        BY <3>1, <3>5 DEF Shape, Claimants
    <2> QED
      BY <1>15, <2>3, <2>4 DEF WorkerLookup, WorkerGoto, TypeOK, WorkerStates
  \* The worker reports the connection it holds and moves on.
  <1>p. ASSUME worker.pc \in {"closed", "failed"},
               ReportTerminal(worker.conn),
               worker'.pc \notin {"closed", "failed"},
               UNCHANGED <<created, remote, conn_map, nice, clear>>,
               \/ UNCHANGED release
               \/ release["worker"].step # "report"
                  /\ release'["worker"].step # "report"
                  /\ \A s \in Releasers : s # "worker" => release'[s] = release[s]
        PROVE  Shape
    <2> DEFINE r == worker.conn
    <2>1. ASSUME NEW g \in Gens, NEW d \in Claimants
          PROVE  Claim(d, g)' <=> Claim(d, g) /\ ~(d = "worker" /\ g = r)
      BY <1>p DEF Claim, Releasers
    <2>2. Claim("worker", r) /\ r \in Gens
      BY <1>p DEF Claim
    <2>3. Reports("worker", r)
      BY <1>p, <2>1, <2>2, SameMap DEF Reports, ReportTerminal
    <2> QED
      BY <2>2, <2>3 DEF Shape, Claimants
  <1>16. CASE WorkerReportLeave
    <2>1. /\ release["worker"].step # "report" /\ release'["worker"].step # "report"
          /\ \A s \in Releasers : s # "worker" => release'[s] = release[s]
      BY <1>16, IdleType DEF WorkerReportLeave, OneAtATime, Releasing, TypeOK
    <2>2. worker'.pc = "releasing"
      BY <1>16 DEF WorkerReportLeave, WorkerGoto, TypeOK, WorkerStates
    <2> QED
      BY <1>16, <2>1, <2>2, <1>p DEF WorkerReportLeave
  <1>17. CASE WorkerReportFailed
    <2>1. worker'.pc = "idle"
      BY <1>17 DEF WorkerReportFailed, WorkerGoto, TypeOK, WorkerStates
    <2> QED
      BY <1>17, <2>1, <1>p DEF WorkerReportFailed
  <1>18. CASE WorkerConfigExpired
    BY <1>18, WorkerFailShape DEF WorkerConfigExpired
  <1>19. CASE WorkerInitIceFails
    BY <1>19, WorkerFailShape DEF WorkerInitIceFails
  \* A libnice thread moves between steps that owe nothing.
  <1>n. ASSUME NEW r \in Gens, nice[r] # "ended", nice'[r] # "ended",
               \A g \in Gens : g # r => nice'[g] = nice[g],
               UNCHANGED <<created, remote, terminals, conn_map, worker, clear,
                           release>>
        PROVE  Shape
    <2>1. ASSUME NEW g \in Gens, NEW c \in Claimants
          PROVE  Claim(c, g)' <=> Claim(c, g)
      BY <1>n DEF Claim
    <2> QED
      BY <1>n, <2>1, <1>q
  <1>20. ASSUME NEW r \in Gens, NEW s \in {"alive", "terminal"},
                NiceStateChange(r, s)
         PROVE  Shape
    BY <1>20, <1>n DEF NiceStateChange, TypeOK
  <1>21. ASSUME NEW r \in Gens, NiceRetire(r) PROVE Shape
    <2>1. CASE CanRetire(r)
      <3>1. /\ Retire(r) /\ nice[r] = "terminal" /\ nice'[r] = "ended"
            /\ \A g \in Gens : g # r => nice'[g] = nice[g]
        BY <1>21, <2>1 DEF NiceRetire, TypeOK
      <3>2. ASSUME NEW g \in Gens, NEW d \in Claimants
            PROVE  Claim(d, g)' <=> Claim(d, g) \/ (d = "nice" /\ g \in {r})
        BY <1>21, <3>1 DEF Claim, NiceRetire
      <3>3. Ends("nice", {r})
        BY <1>21, <2>1, <3>1, <3>2, RetireMap DEF Ends, NiceRetire
      <3> QED
        BY <3>3 DEF Shape, Claimants
    <2>2. CASE ~CanRetire(r)
      BY <1>21, <2>2, <1>n DEF NiceRetire, NiceReturn, TypeOK
    <2> QED
      BY <2>1, <2>2
  <1>22. ASSUME NEW r \in Gens, NiceReportTerminal(r) PROVE Shape
    <2>1. /\ nice[r] = "ended" /\ nice'[r] = "idle"
          /\ \A g \in Gens : g # r => nice'[g] = nice[g]
      BY <1>22 DEF NiceReportTerminal, NiceReturn, TypeOK
    <2>2. ASSUME NEW g \in Gens, NEW d \in Claimants
          PROVE  Claim(d, g)' <=> Claim(d, g) /\ ~(d = "nice" /\ g = r)
      BY <1>22, <2>1 DEF Claim, NiceReportTerminal
    <2>3. Claim("nice", r)
      BY <2>1 DEF Claim
    <2>4. Reports("nice", r)
      BY <1>22, <2>2, <2>3, SameMap DEF Reports, NiceReportTerminal, ReportTerminal
    <2> QED
      BY <2>4 DEF Shape, Claimants
  <1>23. ASSUME NEW r \in Gens, NiceCheckCurrent(r) \/ NiceReportAlive(r)
         PROVE  Shape
    BY <1>23, <1>n DEF NiceCheckCurrent, NiceReportAlive, ReportAlive,
                       NiceReturn, TypeOK
  <1> QED
    BY <1>1, <1>2, <1>3, <1>4, <1>5, <1>6, <1>7, <1>8, <1>9, <1>10, <1>11,
       <1>12, <1>13, <1>14, <1>15, <1>16, <1>17, <1>18, <1>19, <1>20, <1>21,
       <1>22, <1>23
       DEF Next, Environment, AppStep, WsStep, WorkerStep, ReleaseStep, NiceStep

\* A stuttering step does none of these.
LEMMA StutterShape ==
    ASSUME UNCHANGED vars
    PROVE  Silent
  BY DEF vars, queues, conns, threads, history, Silent, IsCurrent, Claim

\* Nothing is current or claimed before it is created.
LEMMA BornOnly ==
    ASSUME IInv, NEW g \in Gens
    PROVE  /\ IsCurrent(g) => g \in Born
           /\ \A c \in Claimants : Claim(c, g) => g \in Born
           /\ terminals[g] > 0 => g \in Born
  <1>1. IsCurrent(g) => g \in Born
    BY GenIsConn DEF IInv, IsCurrent, MapOwned
  <1>2. ASSUME NEW c \in Claimants, Claim(c, g) PROVE g \in Born
    BY <1>2 DEF IInv, Claim, RefsBorn, ReleaseRefs, WorkerRefs, ClearRefs,
                TransportRefs, Releasers, Clearers
  <1>3. terminals[g] > 0 => g \in Born
    BY DEF IInv, RefsBorn, ReportRefs
  <1> QED
    BY <1>1, <1>2, <1>3

\* A connection has one owner of its end and is reported once, whatever the
\* shape of the step.
LEMMA ClaimsStep ==
    ASSUME IInv, Shape
    PROVE  ClaimsExclusive' /\ ClaimsOpen' /\ OneTerminalStatus'
             /\ EndedIsNotCurrent'
  <1> DEFINE Goal == ClaimsExclusive' /\ ClaimsOpen' /\ OneTerminalStatus'
                       /\ EndedIsNotCurrent'
  <1>0. /\ \A g \in Gens : \A c, d \in Claimants :
              Claim(c, g) /\ Claim(d, g) => c = d
        /\ \A g \in Gens : \A c \in Claimants :
              Claim(c, g) => ~IsCurrent(g) /\ terminals[g] = 0
        /\ \A g \in Gens : terminals[g] \in Nat /\ terminals[g] <= 1
        /\ \A g \in Gens : terminals[g] > 0 => ~IsCurrent(g)
        /\ DOMAIN terminals = Gens
    BY DEF IInv, ClaimsExclusive, ClaimsOpen, OneTerminalStatus,
           EndedIsNotCurrent, TypeOK
  <1>1. CASE Silent
    BY <1>0, <1>1 DEF Silent, ClaimsExclusive, ClaimsOpen, OneTerminalStatus,
                      EndedIsNotCurrent
  <1>2. ASSUME NEW c \in Claimants, NEW S \in SUBSET Gens, Ends(c, S) PROVE Goal
    <2>1. \A g \in S : terminals[g] = 0
      BY <1>0, <1>2 DEF Ends
    <2> QED
      BY <1>0, <1>2, <2>1 DEF Ends, ClaimsExclusive, ClaimsOpen,
                              OneTerminalStatus, EndedIsNotCurrent
  <1>3. ASSUME NEW c \in Claimants, NEW r \in Gens, Reports(c, r) PROVE Goal
    <2>1. /\ terminals'[r] = 1
          /\ \A g \in Gens : g # r => terminals'[g] = terminals[g]
      BY <1>0, <1>3 DEF Reports
    <2>2. ~IsCurrent(r) /\ \A d \in Claimants : Claim(d, r) => d = c
      BY <1>0, <1>3 DEF Reports
    <2>3. ClaimsExclusive'
      BY <1>0, <1>3 DEF Reports, ClaimsExclusive
    <2>4. ClaimsOpen'
      BY <1>0, <1>3, <2>1, <2>2 DEF Reports, ClaimsOpen
    <2>5. OneTerminalStatus'
      BY <1>0, <2>1 DEF OneTerminalStatus
    <2>6. EndedIsNotCurrent'
      BY <1>0, <1>3, <2>1, <2>2 DEF Reports, EndedIsNotCurrent
    <2> QED
      BY <2>3, <2>4, <2>5, <2>6
  <1>4. ASSUME NEW u \in Users, Creates(u) PROVE Goal
    <2> DEFINE n == created + 1
    <2>1. n \in Gens /\ n \notin Born
      BY <1>4 DEF Creates, Born, IInv, TypeOK
    <2>2. terminals[n] = 0 /\ \A c \in Claimants : ~Claim(c, n)
      BY <1>0, <2>1, BornOnly
    <2> QED
      BY <1>0, <1>4, <2>1, <2>2 DEF Creates, ClaimsExclusive, ClaimsOpen,
                              OneTerminalStatus, EndedIsNotCurrent
  <1> QED
    BY <1>1, <1>2, <1>3, <1>4 DEF Shape

-----------------------------------------------------------------------------
(* The implementation *)

\* A step of PeerConnection is a step of ConnectionLifecycle or a stutter.
LEMMA RefinementStep ==
    ASSUME IInv, Shape
    PROVE  [Lifecycle!Next]_(Lifecycle!vars)
  <1> DEFINE ph == [g \in Gens |-> Phase(g)]
  <1>0. /\ \A g \in Gens : \A c, d \in Claimants :
              Claim(c, g) /\ Claim(d, g) => c = d
        /\ \A g \in Gens : \A c \in Claimants :
              Claim(c, g) => ~IsCurrent(g) /\ terminals[g] = 0
        /\ \A g \in Gens : terminals[g] \in Nat /\ terminals[g] <= 1
        /\ \A g \in Gens : terminals[g] > 0 => ~IsCurrent(g)
        /\ DOMAIN terminals = Gens
        /\ created \in Nat
        /\ \A g \in Gens : g \in Nat \ {0}
    BY BoundsAssumption
       DEF IInv, ClaimsExclusive, ClaimsOpen, OneTerminalStatus,
           EndedIsNotCurrent, TypeOK, Gens
  <1>b. \A g \in Gens : /\ IsCurrent(g) => g <= created
                        /\ Claimed(g) => g <= created
                        /\ terminals[g] > 0 => g <= created
    BY <1>0, BornOnly DEF Born, Claimed
  <1>1. CASE Silent
    <2>1. \A g \in Gens : Phase(g)' = Phase(g)
      BY <1>1 DEF Silent, Phase, Claimed
    <2> QED
      BY <1>1, <2>1 DEF Lifecycle!vars, Silent
  <1>2. ASSUME NEW c \in Claimants, NEW S \in SUBSET Gens, Ends(c, S)
        PROVE  Lifecycle!End(S)
    <2>1. ASSUME NEW g \in S PROVE Phase(g) = "current"
      BY <1>0, <1>2, <1>b, <2>1 DEF Ends, Phase
    <2>2. ASSUME NEW g \in Gens
          PROVE  Phase(g)' = IF g \in S THEN "ending" ELSE Phase(g)
      <3>1. Claimed(g)' <=> Claimed(g) \/ g \in S
        BY <1>2 DEF Claimed, Ends
      <3>2. CASE g \in S
        BY <1>0, <1>2, <1>b, <3>1, <3>2 DEF Ends, Phase
      <3>3. CASE g \notin S
        BY <1>2, <3>1, <3>3 DEF Ends, Phase
      <3> QED
        BY <3>2, <3>3
    <2> QED
      BY <1>2, <2>1, <2>2 DEF Lifecycle!End, Ends
  <1>3. ASSUME NEW c \in Claimants, NEW r \in Gens, Reports(c, r)
        PROVE  Lifecycle!Report(r)
    <2>1. Claimed(r) /\ ~IsCurrent(r) /\ ~Claimed(r)'
      BY <1>0, <1>3 DEF Reports, Claimed
    <2>2. Phase(r) = "ending"
      BY <1>0, <1>b, <2>1 DEF Phase
    <2>3. terminals'[r] = 1 /\ \A g \in Gens : g # r => terminals'[g] = terminals[g]
      BY <1>0, <1>3 DEF Reports
    <2>4. Phase(r)' = "reported"
      BY <1>0, <1>3, <1>b, <2>1, <2>3 DEF Phase, Reports
    <2>5. ASSUME NEW g \in Gens, g # r PROVE Phase(g)' = Phase(g)
      <3>1. Claimed(g)' <=> Claimed(g)
        BY <1>3, <2>5 DEF Claimed, Reports
      <3> QED
        BY <1>3, <2>3, <2>5, <3>1 DEF Phase, Reports
    <2> QED
      BY <1>3, <2>2, <2>4, <2>5 DEF Lifecycle!Report, Reports
  <1>4. ASSUME NEW u \in Users, Creates(u)
        PROVE  \E n \in Gens : Lifecycle!Create(n, u)
    <2>0. PICK n \in Gens : n = created + 1
      BY <1>4 DEF Creates
    <2>1. Phase(n) = "unborn"
      BY <1>0, <2>0 DEF Phase
    <2>2. Phase(n)' = "current"
      BY <1>0, <1>4, <2>0 DEF Creates, Phase
    <2>3. ASSUME NEW g \in Gens, g # n
          PROVE  Phase(g)' = IF Phase(g) = "current" /\ remote[g] = u
                             THEN "replaced" ELSE Phase(g)
      <3>1. Claimed(g)' <=> Claimed(g)
        BY <1>4 DEF Claimed, Creates
      <3>2. g > created' <=> g > created
        BY <1>0, <1>4, <2>0, <2>3 DEF Creates
      <3>3. IsCurrent(g)' <=> IsCurrent(g) /\ remote[g] # u
        BY <1>4, <2>0, <2>3 DEF Creates
      <3>4. IsCurrent(g) => ~Claimed(g) /\ terminals[g] = 0 /\ ~(g > created)
        BY <1>0, <1>b DEF Claimed
      <3>5. terminals' = terminals
        BY <1>4 DEF Creates
      <3>6. Phase(g) = "current" <=> IsCurrent(g)
        BY <3>4 DEF Phase
      <3> QED
        BY <1>0, <3>1, <3>2, <3>3, <3>4, <3>5, <3>6 DEF Phase
    <2>5. ph' = [h \in Gens |->
                   IF h = n THEN "current"
                   ELSE IF ph[h] = "current" /\ remote[h] = u THEN "replaced"
                   ELSE ph[h]]
      BY <2>2, <2>3
    <2> QED
      BY <1>4, <2>0, <2>1, <2>5 DEF Lifecycle!Create, Creates
  <1> QED
    BY <1>1, <1>2, <1>3, <1>4 DEF Shape, Lifecycle!Next, Creates

-----------------------------------------------------------------------------
(* The rest of the invariant *)

\* Generations are never taken back, and new ones start out unused.
LEMMA BornGrows ==
    ASSUME IInv, Shape
    PROVE  Born \subseteq Born'
  BY BoundsAssumption DEF IInv, TypeOK, Shape, Silent, Ends, Reports, Creates, Born

\* The cleanup queue loses its head to the worker or gains a connection that
\* has just left the map.
CleanupShape ==
    \/ cleanup' = cleanup /\ UNCHANGED worker
    \/ cleanup' = cleanup /\ (worker'.pc = "exited" => ~running /\ cleanup = <<>>)
    \/ cleanup # <<>> /\ cleanup' = Tail(cleanup) /\ worker'.pc # "exited"
    \/ \E g \in Gens : /\ CanRetire(g) /\ ~IsCurrent(g)'
                       /\ cleanup' = Append(cleanup, g)
                       /\ worker'.pc = "exited" => worker.pc = "exited"

\* Only the worker and RetirePeerConnection touch the cleanup queue, and
\* ice_worker_running_ never comes back.
LEMMA CleanupStep ==
    ASSUME IInv, Next
    PROVE  CleanupShape /\ (running' => running)
  <1>t. TypeOK /\ RefsBorn
    BY DEF IInv
  <1>h. /\ \A t \in Releasers : release[t].step # "none" => release[t].conn \in Gens
        /\ worker.pc \notin {"idle", "lookup", "exited"} => worker.conn \in Gens
    BY <1>t, HeldGens
  <1>g. ASSUME NEW pc, NEW g, WorkerGoto(pc, g) PROVE worker'.pc = pc
    BY <1>t, <1>g DEF WorkerGoto, TypeOK, WorkerStates
  <1> USE <1>t, <1>h DEF queues, conns, threads, history, CleanupShape
  <1> DEFINE Goal == CleanupShape /\ (running' => running)
  <1>k. ASSUME UNCHANGED <<cleanup, running, worker>> PROVE Goal
    BY <1>k
  <1>r. ASSUME NEW g \in Gens, CanRetire(g), Retire(g), UNCHANGED remote,
               worker'.pc = "exited" => worker.pc = "exited"
        PROVE  Goal
    BY <1>r, RetireMap DEF Retire
  <1>1. ASSUME NEW t \in Releasers, ReleaseClose(t) PROVE Goal
    <2>1. release[t].conn \in Gens
      BY <1>1 DEF ReleaseClose
    <2> QED
      BY <1>1, <2>1, <1>k, <1>r DEF ReleaseClose
  <1>2. ASSUME NEW t \in Releasers, ReleaseReport(t) \/ ReleaseJoin(t) PROVE Goal
    BY <1>2, <1>k DEF ReleaseReport, ReleaseJoin
  <1>3. CASE AppLeave \/ AppDestroy \/ WsTlsCertError
    BY <1>3, <1>k DEF AppLeave, AppDestroy, WsTlsCertError, ClearTake
  <1>4. CASE AppStep
    <2>1. CASE AppClearOne
      BY <2>1, <1>k DEF AppClearOne, ClearOne
    <2>2. CASE AppClearDone \/ AppJoinIceWorker \/ AppCloseWs
      BY <2>2, <1>k DEF AppClearDone, AppJoinIceWorker, AppCloseWs
    <2>3. CASE AppStopIceWorker
      BY <2>3 DEF AppStopIceWorker
    <2> QED
      BY <1>4, <2>1, <2>2, <2>3 DEF AppStep
  <1>5. ASSUME NEW u \in Users, NEW k \in SignalKinds,
               WsReplaceOrCreate(u, k) \/ WsBuildConnectionInfoFails(u, k)
                 \/ WsQueueOnly(u, k)
        PROVE  Goal
    BY <1>5, <1>k DEF WsReplaceOrCreate, WsBuildConnectionInfoFails, WsQueueOnly
  <1>6. CASE WsStep
    BY <1>6, <1>k DEF WsStep, WsCreated, WsPush, WsReportConnecting, WsClearOne,
                      ClearOne, WsClearDone
  <1>7. CASE WorkerTakeCleanup
    BY <1>7, <1>g DEF WorkerTakeCleanup
  <1>8. CASE WorkerExit
    BY <1>8, <1>g DEF WorkerExit
  <1>9. CASE WorkerTakeMsg
    BY <1>9 DEF WorkerTakeMsg, TypeOK, WorkerStates
  <1>10. CASE WorkerLookup \/ WorkerReportLeave \/ WorkerReleased \/ WorkerStart
                \/ WorkerCreateTransport \/ WorkerInitIce \/ WorkerNegotiate
                \/ WorkerReportFailed
    <2>1. UNCHANGED <<cleanup, running>>
      BY <1>10 DEF WorkerLookup, WorkerReportLeave, WorkerReleased, WorkerStart,
                   WorkerCreateTransport, WorkerInitIce, WorkerNegotiate,
                   WorkerReportFailed
    <2>2. worker'.pc # "exited"
      BY <1>10, <1>g DEF WorkerLookup, WorkerReportLeave, WorkerReleased,
                   WorkerStart, WorkerCreateTransport, WorkerInitIce,
                   WorkerNegotiate, WorkerReportFailed
    <2> QED
      BY <2>1, <2>2
  <1>11. ASSUME NEW tr, WorkerFail(tr), UNCHANGED remote, worker.conn \in Gens
         PROVE  Goal
    <2>1. worker'.pc # "exited"
      BY <1>11, <1>g DEF WorkerFail
    <2>2. CASE CanRetire(worker.conn)
      BY <1>11, <2>1, <2>2, <1>r DEF WorkerFail
    <2>3. CASE ~CanRetire(worker.conn)
      BY <1>11, <2>1, <2>3 DEF WorkerFail
    <2> QED
      BY <2>2, <2>3
  <1>12. CASE WorkerConfigExpired \/ WorkerInitIceFails
    BY <1>12, <1>11 DEF WorkerConfigExpired, WorkerInitIceFails
  <1>13. ASSUME NEW g \in Gens, NEW s \in {"alive", "terminal"},
                NiceStateChange(g, s)
         PROVE  Goal
    BY <1>13, <1>k DEF NiceStateChange
  <1>14. ASSUME NEW g \in Gens, NiceStep(g) PROVE Goal
    <2>1. CASE NiceRetire(g)
      BY <2>1, <1>k, <1>r DEF NiceRetire
    <2>2. CASE NiceReportTerminal(g) \/ NiceCheckCurrent(g) \/ NiceReportAlive(g)
      BY <2>2, <1>k DEF NiceReportTerminal, NiceCheckCurrent, NiceReportAlive
    <2> QED
      BY <1>14, <2>1, <2>2 DEF NiceStep
  <1> QED
    BY <1>1, <1>2, <1>3, <1>4, <1>5, <1>6, <1>7, <1>8, <1>9, <1>10, <1>12,
       <1>13, <1>14
       DEF Next, Environment, WorkerStep, ReleaseStep

\* What that means for the connections in the queue.
LEMMA CleanupInvariants ==
    ASSUME IInv, TypeOK', Shape, CleanupShape, running' => running
    PROVE  CleanupRefs' /\ WorkerGone' /\ RetiredOnce'
  <1>t. /\ cleanup \in Seq(Gens) /\ cleanup' \in Seq(Gens)
        /\ CleanupRefs /\ RetiredOnce /\ WorkerGone
        /\ DOMAIN cleanup = 1..Len(cleanup)
        /\ \A i \in DOMAIN cleanup : cleanup[i] \in Gens
    BY DEF IInv, TypeOK, RefsBorn
  <1>b. Born \subseteq Born'
    BY BornGrows
  <1>c. ASSUME NEW g \in Gens, g \in Born, IsCurrent(g)' PROVE IsCurrent(g)
    BY <1>c DEF Shape, Silent, Ends, Reports, Creates, Born, IInv, TypeOK
  <1>1. CASE cleanup' = cleanup
    <2>1. CleanupRefs'
      BY <1>t, <1>b, <1>1 DEF CleanupRefs
    <2>2. WorkerGone'
      BY <1>1, <1>t DEF CleanupShape, WorkerGone
    <2>3. RetiredOnce'
      BY <1>t, <1>c, <1>1 DEF RetiredOnce, CleanupRefs
    <2> QED
      BY <2>1, <2>2, <2>3
  <1>2. CASE cleanup # <<>> /\ cleanup' = Tail(cleanup) /\ worker'.pc # "exited"
    <2>1. /\ DOMAIN cleanup' = 1..(Len(cleanup) - 1)
          /\ \A i \in DOMAIN cleanup' :
                i + 1 \in DOMAIN cleanup /\ cleanup'[i] = cleanup[i + 1]
      BY <1>t, <1>2, HeadTailProperties
    <2>2. CleanupRefs'
      BY <1>t, <1>b, <2>1 DEF CleanupRefs
    <2>3. WorkerGone'
      BY <1>2 DEF WorkerGone
    <2>4. RetiredOnce'
      BY <1>t, <1>c, <2>1 DEF RetiredOnce, CleanupRefs
    <2> QED
      BY <2>2, <2>3, <2>4
  <1>3. ASSUME NEW r \in Gens, CanRetire(r), ~IsCurrent(r)',
               cleanup' = Append(cleanup, r),
               worker'.pc = "exited" => worker.pc = "exited"
        PROVE  CleanupRefs' /\ WorkerGone' /\ RetiredOnce'
    <2>1. /\ DOMAIN cleanup' = 1..(Len(cleanup) + 1)
          /\ Len(cleanup) \in Nat
          /\ \A i \in DOMAIN cleanup : cleanup'[i] = cleanup[i]
          /\ cleanup'[Len(cleanup) + 1] = r
      BY <1>t, <1>3
    <2>2. r \in Born /\ IsCurrent(r)
      BY <1>3, BornOnly DEF CanRetire
    <2>3. CleanupRefs'
      BY <1>t, <1>b, <2>1, <2>2 DEF CleanupRefs
    <2>4. WorkerGone'
      BY <1>t, <1>3 DEF WorkerGone, CanRetire
    <2>5. RetiredOnce'
      <3>1. \A i \in DOMAIN cleanup : cleanup[i] # r
        BY <1>t, <2>2 DEF RetiredOnce
      <3>2. ASSUME NEW i \in DOMAIN cleanup', NEW j \in DOMAIN cleanup',
                   cleanup'[i] = cleanup'[j]
            PROVE  i = j
        BY <1>t, <2>1, <3>1, <3>2 DEF RetiredOnce
      <3>3. ASSUME NEW i \in DOMAIN cleanup' PROVE ~IsCurrent(cleanup[i])'
        BY <1>t, <1>c, <1>3, <2>1, <3>3 DEF RetiredOnce, CleanupRefs
      <3> QED
        BY <3>2, <3>3 DEF RetiredOnce
    <2> QED
      BY <2>3, <2>4, <2>5
  <1> QED
    BY <1>1, <1>2, <1>3 DEF CleanupShape

\* What the step facts below are proved from.
LEMMA StepFacts ==
    ASSUME IInv, Next
    PROVE  /\ TypeOK /\ RefsBorn /\ MapOwned /\ MsgInHand /\ OneAtATime
           /\ Shape /\ Born \subseteq Born' /\ Born \subseteq Gens
           /\ \A pc, g : WorkerGoto(pc, g) =>
                 /\ worker'.pc = pc /\ worker'.conn = g
                 /\ worker'.msg = worker.msg
           /\ \A t \in Releasers : \A g :
                 /\ Releasing(t, g)[t].step = "close"
                 /\ Releasing(t, g)[t].conn = g
                 /\ Releasing(t, g)[t] # Idle
                 /\ \A s \in Releasers : s # t => Releasing(t, g)[s] = release[s]
           /\ "app" \in Releasers /\ "ws" \in Releasers /\ "worker" \in Releasers
           /\ "app" \in Clearers /\ "ws" \in Clearers
           /\ Clearers \subseteq Releasers
  <1>1. TypeOK /\ RefsBorn /\ MapOwned /\ MsgInHand /\ OneAtATime /\ Shape
    BY StepShape DEF IInv
  <1>2. Born \subseteq Born' /\ Born \subseteq Gens
    BY <1>1, BornGrows, HeldGens
  <1>3. ASSUME NEW pc, NEW g, WorkerGoto(pc, g)
        PROVE  /\ worker'.pc = pc /\ worker'.conn = g
               /\ worker'.msg = worker.msg
    BY <1>1, <1>3 DEF WorkerGoto, TypeOK, WorkerStates
  <1>4. ASSUME NEW t \in Releasers, NEW g
        PROVE  /\ Releasing(t, g)[t].step = "close"
               /\ Releasing(t, g)[t].conn = g
               /\ Releasing(t, g)[t] # Idle
               /\ \A s \in Releasers : s # t => Releasing(t, g)[s] = release[s]
    BY <1>1, IdleType DEF Releasing, TypeOK
  <1> QED
    BY <1>1, <1>2, <1>3, <1>4 DEF Releasers, Clearers

\* Every entry of the map keeps belonging to its user.
LEMMA MapStep ==
    ASSUME IInv, Next
    PROVE  MapOwned'
  <1>1. /\ TypeOK /\ MapOwned /\ MsgInHand /\ Born \subseteq Born' /\ Born \subseteq Gens
        /\ RefsBorn
    BY StepFacts
  <1> USE <1>1 DEF queues, conns, threads, history
  <1>k. ASSUME UNCHANGED <<conn_map, remote>> PROVE MapOwned'
    BY <1>k DEF MapOwned
  <1>e. ASSUME NEW v \in Users, conn_map' = [conn_map EXCEPT ![v] = NoConn],
               UNCHANGED remote
        PROVE  MapOwned'
    BY <1>e DEF MapOwned, TypeOK
  <1>r. ASSUME NEW g \in Gens, CanRetire(g), Retire(g), UNCHANGED remote
        PROVE  MapOwned'
    BY <1>r, <1>e DEF CanRetire, IsCurrent, Retire
  <1>n. ASSUME conn_map' = [u \in Users |-> NoConn] PROVE MapOwned'
    BY <1>n DEF MapOwned
  <1>2. ASSUME NEW t \in Releasers, ReleaseStep(t) PROVE MapOwned'
    <2>1. release[t].conn \in Gens
      BY <1>2, HeldGens DEF ReleaseStep, ReleaseClose, ReleaseReport, ReleaseJoin
    <2> QED
      BY <1>2, <2>1, <1>k, <1>r DEF ReleaseStep, ReleaseClose, ReleaseReport, ReleaseJoin
  <1>3. CASE AppLeave \/ AppDestroy \/ WsTlsCertError
    BY <1>3, <1>n DEF AppLeave, AppDestroy, WsTlsCertError, ClearTake
  <1>4. CASE AppStep
    BY <1>4, <1>k DEF AppStep, AppClearOne, ClearOne, AppClearDone,
                      AppStopIceWorker, AppJoinIceWorker, AppCloseWs
  <1>5. CASE WsStep
    BY <1>5, <1>k DEF WsStep, WsCreated, WsPush, WsReportConnecting, WsClearOne,
                      ClearOne, WsClearDone
  <1>6. ASSUME NEW u \in Users, NEW k \in SignalKinds, WsReplaceOrCreate(u, k)
        PROVE  MapOwned'
    <2>0. PICK n \in Gens : n = created + 1
      BY <1>6, BoundsAssumption DEF WsReplaceOrCreate, Gens, TypeOK
    <2>1. /\ remote' = [remote EXCEPT ![n] = u]
          /\ conn_map' = [conn_map EXCEPT ![u] = n]
      BY <1>6, <2>0 DEF WsReplaceOrCreate
    <2>2. n \in Born' /\ n \notin Born
      BY <1>6, <2>0, BoundsAssumption DEF WsReplaceOrCreate, Born, TypeOK
    <2> QED
      BY <2>0, <2>1, <2>2 DEF MapOwned, TypeOK
  <1>7. ASSUME NEW u \in Users, NEW k \in SignalKinds,
               WsBuildConnectionInfoFails(u, k) \/ WsQueueOnly(u, k)
        PROVE  MapOwned'
    BY <1>7, <1>k DEF WsBuildConnectionInfoFails, WsQueueOnly
  <1>8. CASE WorkerLookup
    <2>1. worker.msg.user \in Users
      BY <1>8 DEF WorkerLookup, MsgInHand, Msgs
    <2> QED
      BY <1>8, <2>1, <1>k, <1>e DEF WorkerLookup
  <1>9. CASE WorkerConfigExpired \/ WorkerInitIceFails
    <2>1. worker.conn \in Gens
      BY <1>9, HeldGens DEF WorkerConfigExpired, WorkerInitIceFails
    <2> QED
      BY <1>9, <2>1, <1>k, <1>r DEF WorkerConfigExpired, WorkerInitIceFails, WorkerFail
  <1>10. CASE WorkerTakeCleanup \/ WorkerExit \/ WorkerTakeMsg
                \/ WorkerReportLeave \/ WorkerReleased \/ WorkerStart
                \/ WorkerCreateTransport \/ WorkerInitIce \/ WorkerNegotiate
                \/ WorkerReportFailed
    BY <1>10, <1>k DEF WorkerTakeCleanup, WorkerExit, WorkerTakeMsg,
                       WorkerReportLeave, WorkerReleased, WorkerStart,
                       WorkerCreateTransport, WorkerInitIce, WorkerNegotiate,
                       WorkerReportFailed
  <1>11. ASSUME NEW g \in Gens, NEW s \in {"alive", "terminal"},
                NiceStateChange(g, s)
         PROVE  MapOwned'
    BY <1>11, <1>k DEF NiceStateChange
  <1>12. ASSUME NEW g \in Gens, NiceStep(g) PROVE MapOwned'
    BY <1>12, <1>k, <1>r DEF NiceStep, NiceRetire, NiceReportTerminal,
                             NiceCheckCurrent, NiceReportAlive
  <1> QED
    BY <1>2, <1>3, <1>4, <1>5, <1>6, <1>7, <1>8, <1>9, <1>10, <1>11, <1>12
       DEF Next, Environment, WorkerStep

\* The worker and the websocket thread only act on real messages.
LEMMA MsgStep ==
    ASSUME IInv, Next
    PROVE  MsgInHand'
  <1>1. TypeOK /\ MsgInHand
    BY StepFacts
  <1> USE <1>1 DEF queues, conns, threads, history
  <1>g. ASSUME NEW pc, NEW g, WorkerGoto(pc, g), pc # "lookup" PROVE worker'.pc # "lookup"
    BY <1>g, StepFacts
  <1>k. ASSUME UNCHANGED ws, UNCHANGED worker \/ worker'.pc # "lookup"
        PROVE  MsgInHand'
    BY <1>k DEF MsgInHand
  <1>2. ASSUME NEW t \in Releasers, ReleaseStep(t) PROVE MsgInHand'
    BY <1>2, <1>k DEF ReleaseStep, ReleaseClose, ReleaseReport, ReleaseJoin
  <1>3. CASE AppLeave \/ AppDestroy \/ AppStep
    BY <1>3, <1>k DEF AppLeave, AppDestroy, AppStep, AppClearOne, ClearOne,
                      AppClearDone, AppStopIceWorker, AppJoinIceWorker, AppCloseWs
  <1>4. ASSUME UNCHANGED worker,
               ws'.pc \in {"created", "push", "connecting"} => ws'.msg \in Msgs
        PROVE  MsgInHand'
    BY <1>4 DEF MsgInHand
  <1>5. ASSUME NEW u \in Users, NEW k \in SignalKinds, WsReplaceOrCreate(u, k)
        PROVE  MsgInHand'
    <2>1. ws'.msg \in Msgs
      BY <1>5 DEF WsReplaceOrCreate, Msgs
    <2> QED
      BY <1>4, <1>5, <2>1 DEF WsReplaceOrCreate
  <1>6. ASSUME NEW u \in Users, NEW k \in SignalKinds, WsQueueOnly(u, k)
        PROVE  MsgInHand'
    <2>1. ws'.msg \in Msgs
      BY <1>6 DEF WsQueueOnly, Msgs, TypeOK, WsStates
    <2> QED
      BY <1>4, <1>6, <2>1 DEF WsQueueOnly
  <1>7. ASSUME NEW u \in Users, NEW k \in SignalKinds,
               WsBuildConnectionInfoFails(u, k)
        PROVE  MsgInHand'
    BY <1>7, <1>k DEF WsBuildConnectionInfoFails
  <1>8. CASE WsClearDone \/ WsTlsCertError \/ WsReportConnecting
    <2>1. ws'.pc \in {"idle", "clearing"}
      BY <1>8 DEF WsClearDone, WsTlsCertError, WsReportConnecting, TypeOK, WsStates
    <2> QED
      BY <1>4, <1>8, <2>1 DEF WsClearDone, WsTlsCertError, WsReportConnecting
  <1>9. CASE WsCreated \/ WsPush
    <2>1. ws'.pc = "idle" \/ (ws'.msg = ws.msg /\ ws.pc \in {"created", "push"})
      BY <1>9 DEF WsCreated, WsPush, TypeOK, WsStates
    <2>2. UNCHANGED worker
      BY <1>9 DEF WsCreated, WsPush
    <2> QED
      BY <1>4, <2>1, <2>2 DEF MsgInHand
  <1>10. CASE WsClearOne
    BY <1>10, <1>k DEF WsClearOne, ClearOne
  <1>11. CASE WorkerTakeMsg
    <2>1. Head(msg_queue) \in Msgs
      BY <1>11, HeadTailProperties DEF WorkerTakeMsg, TypeOK
    <2>2. worker'.msg = Head(msg_queue) /\ UNCHANGED ws
      BY <1>11 DEF WorkerTakeMsg, TypeOK, WorkerStates
    <2> QED
      BY <2>1, <2>2 DEF MsgInHand
  <1>12. CASE WorkerConfigExpired \/ WorkerInitIceFails
    BY <1>12, <1>k, <1>g DEF WorkerConfigExpired, WorkerInitIceFails, WorkerFail
  <1>13. CASE WorkerTakeCleanup \/ WorkerExit \/ WorkerLookup
                \/ WorkerReportLeave \/ WorkerReleased \/ WorkerStart
                \/ WorkerCreateTransport \/ WorkerInitIce \/ WorkerNegotiate
                \/ WorkerReportFailed
    BY <1>13, <1>k, <1>g
       DEF WorkerTakeCleanup, WorkerExit, WorkerLookup, WorkerReportLeave,
           WorkerReleased, WorkerStart, WorkerCreateTransport, WorkerInitIce,
           WorkerNegotiate, WorkerReportFailed
  <1>14. ASSUME NEW g \in Gens, NEW s \in {"alive", "terminal"},
                NiceStateChange(g, s)
         PROVE  MsgInHand'
    BY <1>14, <1>k DEF NiceStateChange
  <1>15. ASSUME NEW g \in Gens, NiceStep(g) PROVE MsgInHand'
    BY <1>15, <1>k DEF NiceStep, NiceRetire, NiceReportTerminal,
                       NiceCheckCurrent, NiceReportAlive
  <1> QED
    BY <1>2, <1>3, <1>5, <1>6, <1>7, <1>8, <1>9, <1>10, <1>11, <1>12, <1>13,
       <1>14, <1>15
       DEF Next, Environment, WorkerStep, WsStep

\* Threads hold connections that exist, and one release or clear at a time.
LEMMA ThreadsStep ==
    ASSUME IInv, Next
    PROVE  ReleaseRefs' /\ WorkerRefs' /\ ClearRefs' /\ OneAtATime'
  <1>f. /\ TypeOK /\ ReleaseRefs /\ WorkerRefs /\ ClearRefs /\ CleanupRefs
        /\ MapOwned /\ OneAtATime /\ MsgInHand
        /\ Born \subseteq Born' /\ Born \subseteq Gens
        /\ \A pc, g : WorkerGoto(pc, g) =>
              worker'.pc = pc /\ worker'.conn = g
        /\ \A t \in Releasers : \A g :
              /\ Releasing(t, g)[t].step = "close"
              /\ Releasing(t, g)[t].conn = g
              /\ \A s \in Releasers : s # t => Releasing(t, g)[s] = release[s]
        /\ "app" \in Releasers /\ "ws" \in Releasers /\ "worker" \in Releasers
        /\ "app" \in Clearers /\ "ws" \in Clearers
        /\ \A t \in Clearers : t \in {"app", "ws"}
        /\ Clearers \subseteq Releasers
    BY StepFacts DEF RefsBorn, Clearers
  <1> USE <1>f DEF queues, conns, threads, history
  <1> DEFINE Goal == ReleaseRefs' /\ WorkerRefs' /\ ClearRefs' /\ OneAtATime'
  <1>k. ASSUME UNCHANGED <<release, worker, clear, app, ws>> PROVE Goal
    BY <1>k DEF ReleaseRefs, WorkerRefs, ClearRefs, OneAtATime
  \* A release moves on.
  <1>2. ASSUME NEW t \in Releasers, ReleaseStep(t) PROVE Goal
    <2>1. /\ release[t].step # "none"
          /\ release'[t] = Idle \/ release'[t].conn = release[t].conn
          /\ \A s \in Releasers : s # t => release'[s] = release[s]
      BY <1>2 DEF ReleaseStep, ReleaseClose, ReleaseReport, ReleaseJoin, Closing,
                  TypeOK, ReleaseStates
    <2>2. UNCHANGED <<worker, clear, app, ws>>
      BY <1>2 DEF ReleaseStep, ReleaseClose, ReleaseReport, ReleaseJoin
    <2>3. ReleaseRefs' /\ WorkerRefs' /\ ClearRefs'
      BY <2>1, <2>2, IdleType DEF ReleaseRefs, WorkerRefs, ClearRefs
    <2>4. OneAtATime'
      BY <2>1, <2>2, IdleType DEF OneAtATime
    <2> QED
      BY <2>3, <2>4
  \* A clear starts.
  <1>t. ASSUME NEW t \in Clearers, ClearTake(t), UNCHANGED <<release, worker>>
        PROVE  /\ ReleaseRefs' /\ WorkerRefs' /\ ClearRefs'
               /\ \A s \in Clearers : s # t => clear'[s] = clear[s]
    <2>1. /\ clear'[t].todo = {g \in Gens : IsCurrent(g)}
          /\ \A s \in Clearers : s # t => clear'[s] = clear[s]
      BY <1>t DEF ClearTake, TypeOK
    <2>2. \A g \in Gens : IsCurrent(g) => g \in Born
      BY BornOnly
    <2> QED
      BY <1>t, <2>1, <2>2 DEF ReleaseRefs, WorkerRefs, ClearRefs
  <1>3. CASE AppLeave \/ AppDestroy
    <2>1. ClearTake("app") /\ UNCHANGED <<release, worker, ws>>
          /\ app' \in {"leaving", "destroying"}
      BY <1>3 DEF AppLeave, AppDestroy
    <2> QED
      BY <2>1, <1>t DEF OneAtATime
  <1>4. CASE WsTlsCertError
    <2>1. ClearTake("ws") /\ UNCHANGED <<release, worker, app>>
          /\ ws'.pc = "clearing"
      BY <1>4 DEF WsTlsCertError, TypeOK, WsStates
    <2> QED
      BY <2>1, <1>t DEF OneAtATime
  <1>5. ASSUME NEW t \in Clearers, ClearOne(t),
               t = "app" => app \in {"leaving", "destroying"},
               t = "ws" => ws.pc = "clearing"
        PROVE  Goal
    <2> PICK r \in clear[t].todo :
              /\ clear' = [clear EXCEPT ![t].todo = @ \ {r}]
              /\ release' = Releasing(t, r)
      BY <1>5 DEF ClearOne
    <2>1. r \in Born /\ t \in Releasers /\ t # "worker"
      BY DEF ClearRefs
    <2>2. /\ clear'[t].todo = clear[t].todo \ {r}
          /\ \A s \in Clearers : s # t => clear'[s] = clear[s]
      BY DEF TypeOK, ClearStates
    <2>3. UNCHANGED <<worker, app, ws>>
      BY <1>5 DEF ClearOne
    <2>4. ReleaseRefs' /\ WorkerRefs' /\ ClearRefs'
      BY <2>1, <2>2, <2>3 DEF ReleaseRefs, WorkerRefs, ClearRefs
    <2>5. OneAtATime'
      BY <1>5, <2>1, <2>2, <2>3 DEF OneAtATime
    <2> QED
      BY <2>4, <2>5
  <1>6. CASE AppClearOne \/ WsClearOne
    BY <1>5, <1>6 DEF AppClearOne, WsClearOne
  <1>7. CASE AppClearDone
    <2>1. /\ clear'["app"].todo = {} /\ clear'["ws"] = clear["ws"]
          /\ UNCHANGED <<release, worker, ws>>
      BY <1>7 DEF AppClearDone, NoClear, TypeOK
    <2> QED
      BY <2>1 DEF ReleaseRefs, WorkerRefs, ClearRefs, OneAtATime
  <1>8. CASE WsClearDone
    <2>1. /\ clear'["ws"].todo = {} /\ clear'["app"] = clear["app"]
          /\ release["ws"] = Idle /\ UNCHANGED <<release, worker, app>>
      BY <1>8 DEF WsClearDone, Cleared, NoClear, TypeOK
    <2> QED
      BY <2>1 DEF ReleaseRefs, WorkerRefs, ClearRefs, OneAtATime
  <1>9. CASE AppStopIceWorker \/ AppJoinIceWorker \/ AppCloseWs
    BY <1>9 DEF AppStopIceWorker, AppJoinIceWorker, AppCloseWs,
                ReleaseRefs, WorkerRefs, ClearRefs, OneAtATime
  <1>10. ASSUME NEW u \in Users, NEW k \in SignalKinds, WsReplaceOrCreate(u, k)
         PROVE  Goal
    <2>1. /\ ws.pc = "idle" /\ ws'.pc = "created"
          /\ UNCHANGED <<worker, clear, app>>
      BY <1>10 DEF WsReplaceOrCreate, Receive, WsReady
    <2>2. /\ \A s \in Releasers : s # "ws" => release'[s] = release[s]
          /\ release'["ws"].step # "none" => release'["ws"].conn \in Born
      BY <1>10 DEF WsReplaceOrCreate, MapOwned, ReleaseRefs
    <2> QED
      BY <2>1, <2>2 DEF ReleaseRefs, WorkerRefs, ClearRefs, OneAtATime
  <1>11. ASSUME NEW u \in Users, NEW k \in SignalKinds,
                WsBuildConnectionInfoFails(u, k)
         PROVE  Goal
    BY <1>11, <1>k DEF WsBuildConnectionInfoFails
  \* The websocket thread moves on without a release or a clear.
  <1>w. ASSUME UNCHANGED <<worker, clear, app, release>>,
               ws.pc # "clearing", release["ws"] = Idle
        PROVE  Goal
    BY <1>w DEF ReleaseRefs, WorkerRefs, ClearRefs, OneAtATime
  <1>12. ASSUME NEW u \in Users, NEW k \in SignalKinds, WsQueueOnly(u, k)
         PROVE  Goal
    BY <1>12, <1>w DEF WsQueueOnly, Receive, WsReady, OneAtATime
  <1>13. CASE WsCreated \/ WsPush \/ WsReportConnecting
    BY <1>13, <1>w DEF WsCreated, WsPush, WsReportConnecting, OneAtATime
  \* The worker starts a release of a connection that exists.
  <1>14. ASSUME NEW r \in Born, NEW pc \in {"releasing", "replace"},
                WorkerGoto(pc, r), release' = Releasing("worker", r),
                UNCHANGED <<clear, app, ws>>
         PROVE  Goal
    <2>1. worker'.pc = pc /\ worker'.conn = r
      BY <1>14
    <2> QED
      BY <1>14, <2>1 DEF ReleaseRefs, WorkerRefs, ClearRefs, OneAtATime
  <1>15. CASE WorkerTakeCleanup
    <2>1. Head(cleanup) \in Born
      BY <1>15, HeadTailProperties DEF WorkerTakeCleanup, CleanupRefs, TypeOK
    <2> QED
      BY <1>14, <1>15, <2>1 DEF WorkerTakeCleanup
  <1>16. CASE WorkerReportLeave \/ WorkerStart
    BY <1>14, <1>16 DEF WorkerReportLeave, WorkerStart, WorkerRefs
  \* The worker moves on while no release of its own is under way.
  <1>17. ASSUME UNCHANGED <<clear, app, ws, release>>,
                release["worker"] = Idle,
                worker'.pc \in {"idle", "lookup", "exited"} \/ worker'.conn \in Born
         PROVE  Goal
    BY <1>17 DEF ReleaseRefs, WorkerRefs, ClearRefs, OneAtATime
  <1>18. CASE WorkerExit \/ WorkerReleased \/ WorkerNegotiate \/ WorkerReportFailed
    BY <1>17, <1>18 DEF WorkerExit, WorkerReleased, WorkerNegotiate,
                        WorkerReportFailed, OneAtATime
  <1>19. CASE WorkerTakeMsg
    <2>1. worker'.pc = "lookup"
      BY <1>19 DEF WorkerTakeMsg, TypeOK, WorkerStates
    <2> QED
      BY <1>17, <1>19, <2>1 DEF WorkerTakeMsg, OneAtATime
  <1>20. CASE WorkerLookup
    <2>1. worker.msg.user \in Users
      BY <1>20 DEF WorkerLookup, MsgInHand, Msgs
    <2>2. worker'.pc = "idle" \/ worker'.conn \in Born
      BY <1>20, <2>1 DEF WorkerLookup, MapOwned
    <2> QED
      BY <1>17, <1>20, <2>2 DEF WorkerLookup, OneAtATime
  <1>21. CASE WorkerCreateTransport \/ WorkerInitIce
    BY <1>17, <1>21 DEF WorkerCreateTransport, WorkerInitIce, WorkerRefs, OneAtATime
  <1>22. CASE WorkerConfigExpired \/ WorkerInitIceFails
    <2>1. worker'.pc = "idle" \/ worker'.conn \in Born
      BY <1>22 DEF WorkerConfigExpired, WorkerInitIceFails, WorkerFail, WorkerRefs
    <2> QED
      BY <1>17, <1>22, <2>1 DEF WorkerConfigExpired, WorkerInitIceFails, OneAtATime
  <1>23. ASSUME NEW g \in Gens, NEW s \in {"alive", "terminal"},
                NiceStateChange(g, s)
         PROVE  Goal
    BY <1>23, <1>k DEF NiceStateChange
  <1>24. ASSUME NEW g \in Gens, NiceStep(g) PROVE Goal
    BY <1>24, <1>k DEF NiceStep, NiceRetire, NiceReportTerminal,
                       NiceCheckCurrent, NiceReportAlive
  <1> QED
    BY <1>2, <1>3, <1>4, <1>6, <1>7, <1>8, <1>9, <1>10, <1>11, <1>12, <1>13,
       <1>15, <1>16, <1>18, <1>19, <1>20, <1>21, <1>22, <1>23, <1>24
       DEF Next, Environment, WorkerStep, WsStep, AppStep

\* Only the worker makes transports, for connections that exist.
LEMMA TransportStep ==
    ASSUME IInv, Next
    PROVE  TransportRefs'
  <1>f. /\ TypeOK /\ WorkerRefs /\ TransportRefs /\ Born \subseteq Born'
    BY StepFacts DEF RefsBorn
  <1> USE <1>f DEF queues, conns, threads, history
  <1>k. ASSUME \A g \in Gens :
                  transport'[g] # "none" \/ nice'[g] # "idle" =>
                    transport[g] # "none" \/ nice[g] # "idle" \/ g \in Born
        PROVE  TransportRefs'
    BY <1>k DEF TransportRefs
  <1>d. ASSUME NEW t, NEW S, Drop(t, S), UNCHANGED nice PROVE TransportRefs'
    BY <1>k, <1>d DEF Drop
  <1>u. ASSUME UNCHANGED <<transport, nice>> PROVE TransportRefs'
    BY <1>k, <1>u
  <1>2. ASSUME NEW t \in Releasers, ReleaseStep(t) PROVE TransportRefs'
    <2>1. CASE ReleaseJoin(t)
      BY <2>1, <1>k DEF ReleaseJoin, TypeOK
    <2> QED
      BY <1>2, <2>1, <1>u DEF ReleaseStep, ReleaseClose, ReleaseReport
  <1>3. CASE AppLeave \/ AppDestroy \/ AppStep
    BY <1>3, <1>u, <1>d DEF AppLeave, AppDestroy, AppStep, AppClearOne, ClearOne,
              AppClearDone, AppStopIceWorker, AppJoinIceWorker, AppCloseWs
  <1>4. CASE WsStep \/ WsTlsCertError
    BY <1>4, <1>u, <1>d DEF WsStep, WsCreated, WsPush, WsReportConnecting,
              WsClearOne, ClearOne, WsClearDone, WsTlsCertError
  <1>5. ASSUME NEW u \in Users, NEW k \in SignalKinds,
               WsReplaceOrCreate(u, k) \/ WsBuildConnectionInfoFails(u, k)
                 \/ WsQueueOnly(u, k)
        PROVE  TransportRefs'
    BY <1>5, <1>u DEF WsReplaceOrCreate, WsBuildConnectionInfoFails, WsQueueOnly
  <1>6. CASE WorkerTakeCleanup \/ WorkerExit \/ WorkerTakeMsg \/ WorkerLookup
               \/ WorkerReportLeave \/ WorkerReleased \/ WorkerStart
               \/ WorkerNegotiate \/ WorkerReportFailed
    BY <1>6, <1>u, <1>d DEF WorkerTakeCleanup, WorkerExit, WorkerTakeMsg,
              WorkerLookup, WorkerReportLeave, WorkerReleased, WorkerStart,
              WorkerNegotiate, WorkerReportFailed
  <1>7. CASE WorkerCreateTransport \/ WorkerInitIce
    <2>1. worker.conn \in Born
      BY <1>7 DEF WorkerCreateTransport, WorkerInitIce, WorkerRefs
    <2> QED
      BY <1>7, <2>1, <1>k DEF WorkerCreateTransport, WorkerInitIce, TypeOK
  <1>8. CASE WorkerConfigExpired
    BY <1>8, <1>k DEF WorkerConfigExpired, WorkerFail, TypeOK
  <1>9. CASE WorkerInitIceFails
    BY <1>9, <1>k DEF WorkerInitIceFails, WorkerFail, TypeOK
  <1>10. ASSUME NEW r \in Gens, NEW s \in {"alive", "terminal"},
                NiceStateChange(r, s)
         PROVE  TransportRefs'
    BY <1>10, <1>k DEF NiceStateChange, TypeOK
  <1>11. ASSUME NEW r \in Gens, NiceStep(r) PROVE TransportRefs'
    BY <1>11, <1>k DEF NiceStep, NiceRetire, NiceReportTerminal,
                       NiceCheckCurrent, NiceReportAlive, NiceReturn, TypeOK
  <1> QED
    BY <1>2, <1>3, <1>4, <1>5, <1>6, <1>7, <1>8, <1>9, <1>10, <1>11
       DEF Next, Environment, WorkerStep

\* Only connections that exist are reported.
LEMMA ReportsStep ==
    ASSUME IInv, Shape
    PROVE  ReportRefs'
  <1>1. Born \subseteq Born'
    BY BornGrows
  <1>2. \A g \in Gens : terminals'[g] = terminals[g] \/ g \in Born
    BY BornOnly DEF Shape, Silent, Ends, Creates, Reports, IInv, TypeOK
  <1> QED
    BY <1>1, <1>2 DEF ReportRefs, IInv, RefsBorn

-----------------------------------------------------------------------------
(* The theorems *)

\* Initially nothing is created, claimed or reported.
LEMMA InitEstablishes == Init => IInv /\ Lifecycle!Init
  <1> SUFFICES ASSUME Init PROVE IInv /\ Lifecycle!Init
    OBVIOUS
  <1>g. \A g \in Gens : g > 0
    BY BoundsAssumption DEF Gens
  <1>c. \A g \in Gens : ~IsCurrent(g)
    BY GenIsConn DEF Init, IsCurrent
  <1>1. TypeOK
    <2>1. /\ created \in 0..MaxGen /\ signals \in 0..MaxSignals
          /\ incarnation \in [Gens -> Nat] /\ terminals \in [Gens -> Nat]
      BY BoundsAssumption DEF Init
    <2>2. /\ worker \in WorkerStates /\ ws \in WsStates
      BY DEF Init, WorkerStates, WsStates, ConnIds
    <2>3. /\ transport \in [Gens -> TransportStates] /\ nice \in [Gens -> NiceStates]
          /\ app \in AppStates
      BY DEF Init, TransportStates, NiceStates, AppStates
    <2>4. release \in [Releasers -> ReleaseStates] /\ clear \in [Clearers -> ClearStates]
      BY IdleType, NoClearType DEF Init
    <2>5. msg_queue \in Seq(Msgs) /\ cleanup \in Seq(Gens)
      BY EmptySeq DEF Init
    <2>6. /\ running \in BOOLEAN /\ closed \in [Gens -> BOOLEAN] /\ crashed \in BOOLEAN
      BY DEF Init
    <2>7. /\ conn_map \in [Users -> ConnIds] /\ remote \in [Gens -> Users \cup {"none"}]
          /\ wanted \subseteq Users /\ late \subseteq Gens
      BY DEF Init, ConnIds
    <2> QED
      BY <2>1, <2>2, <2>3, <2>4, <2>5, <2>6, <2>7 DEF TypeOK
  <1>2. RefsBorn /\ MapOwned /\ MsgInHand
    <2>1. DOMAIN cleanup = {}
      BY EmptySeq DEF Init
    <2> QED
      BY <2>1, IdleType
         DEF Init, RefsBorn, ReleaseRefs, WorkerRefs, ClearRefs, CleanupRefs,
             TransportRefs, ReportRefs, MapOwned, MsgInHand, NoClear
  <1>3. OneAtATime /\ WorkerGone
    BY DEF Init, OneAtATime, WorkerGone, NoClear, Releasers, Clearers
  <1>4. \A g \in Gens, c \in Claimants : ~Claim(c, g)
    BY IdleType DEF Init, Claim, NoClear, Releasers, Clearers
  <1>5. ClaimsExclusive /\ ClaimsOpen /\ OneTerminalStatus /\ EndedIsNotCurrent
    BY <1>c, <1>4 DEF ClaimsExclusive, ClaimsOpen, OneTerminalStatus,
                      EndedIsNotCurrent, Init
  <1>6. RetiredOnce
    BY EmptySeq DEF Init, RetiredOnce
  <1>7. \A g \in Gens : Phase(g) = "unborn"
    BY <1>g DEF Phase, Init
  <1>8. Lifecycle!Init
    BY <1>7 DEF Lifecycle!Init, Init
  <1> QED
    BY <1>1, <1>2, <1>3, <1>5, <1>6, <1>8 DEF IInv

\* Every step preserves the invariant and has a shape.
LEMMA StepPreserves == IInv /\ [Next]_vars => IInv' /\ Shape
  <1> SUFFICES ASSUME IInv, [Next]_vars PROVE IInv' /\ Shape
    OBVIOUS
  <1>1. CASE Next
    <2>1. TypeOK' /\ Shape /\ CleanupShape /\ (running' => running)
      BY <1>1, TypeStep, StepShape, CleanupStep
    <2>2. CleanupRefs' /\ WorkerGone' /\ RetiredOnce'
      BY <2>1, CleanupInvariants
    <2>3. /\ ReleaseRefs' /\ WorkerRefs' /\ ClearRefs' /\ TransportRefs'
          /\ OneAtATime' /\ MapOwned' /\ MsgInHand' /\ ReportRefs'
      BY <1>1, <2>1, ThreadsStep, TransportStep, MapStep, MsgStep, ReportsStep
    <2>4. ClaimsExclusive' /\ ClaimsOpen' /\ OneTerminalStatus' /\ EndedIsNotCurrent'
      BY <2>1, ClaimsStep
    <2> QED
      BY <2>1, <2>2, <2>3, <2>4 DEF IInv, RefsBorn
  <1>2. CASE UNCHANGED vars
    <2>1. Shape
      BY <1>2, StutterShape DEF Shape
    <2>v. UNCHANGED <<conn_map, created, remote, msg_queue, cleanup, running,
                      transport, incarnation, closed, nice, worker, ws, app,
                      release, clear, signals, wanted, terminals, late, crashed>>
      BY <1>2 DEF vars, queues, conns, threads, history
    <2>2. TypeOK'
      BY <2>v DEF IInv, TypeOK
    <2>3. RefsBorn' /\ MapOwned' /\ MsgInHand' /\ OneAtATime' /\ WorkerGone'
      BY <2>v DEF IInv, RefsBorn, ReleaseRefs, WorkerRefs, ClearRefs,
                  CleanupRefs, TransportRefs, ReportRefs, Born, MapOwned,
                  MsgInHand, OneAtATime, WorkerGone
    <2>4. ClaimsExclusive' /\ ClaimsOpen' /\ OneTerminalStatus' /\ EndedIsNotCurrent'
      BY <2>1, ClaimsStep
    <2>5. RetiredOnce'
      BY <2>v DEF IInv, RetiredOnce, IsCurrent
    <2> QED
      BY <2>1, <2>2, <2>3, <2>4, <2>5 DEF IInv
  <1> QED
    BY <1>1, <1>2

\* The invariant is inductive.
THEOREM Invariance == Spec => []IInv
  BY InitEstablishes, StepPreserves, PTL DEF Spec

\* Every variable keeps its type.
THEOREM TypeCorrect == Spec => []TypeOK
  BY Invariance, PTL DEF IInv

\* The end of a connection is reported at most once, whichever of the five
\* ways of ending it race.
THEOREM ReportedOnce == Spec => []OneTerminalStatus
  BY Invariance, PTL DEF IInv

\* A connection whose end was reported is not in the map.
THEOREM EndedIsUnreachable == Spec => []EndedIsNotCurrent
  BY Invariance, PTL DEF IInv

\* The worker's cleanup queue never holds a connection twice or one that is
\* current, and is empty when the worker has gone.
THEOREM CleanupIsExact == Spec => [](RetiredOnce /\ NoCleanupAfterWorkerExit)
  <1>1. IInv => RetiredOnce /\ NoCleanupAfterWorkerExit
    BY DEF IInv, WorkerGone, NoCleanupAfterWorkerExit
  <1> QED
    BY <1>1, Invariance, PTL

\* PeerConnection implements the abstract life of a connection.
THEOREM Implementation == Spec => ImplementsLifecycle
  <1>1. IInv /\ [Next]_vars => [Lifecycle!Next]_(Lifecycle!vars)
    BY StepPreserves, RefinementStep
  <1> QED
    BY <1>1, InitEstablishes, Invariance, PTL
       DEF Spec, ImplementsLifecycle, Lifecycle!Spec
=============================================================================
