--------------------------- MODULE MediaPathProofs ---------------------------
(* Media waits for keys, and the pacer and congestion control come to agree  *)
(* with the controller, whatever is lost and however often the path changes. *)
(*                                                                           *)
(* media_ready is a copy of what Ready says of the other flags.  The copies  *)
(* the two queues apply lag behind it, but the tasks that wait lead from     *)
(* each copy to it: the last task of the pacer has its value, and the tasks  *)
(* of congestion control are a chain of changes that ends in it.             *)
(*                                                                           *)
(* The handshake is a conversation: a record reaches one end only after the  *)
(* other has come far enough to send it, so an end that is done has a peer   *)
(* within one flight of its own end (HandshakeInv).                          *)
EXTENDS MediaPath, TLAPS

Flags == [ice_ready : BOOLEAN, dtls_ready : BOOLEAN, media_ready : BOOLEAN]
Tasks == [ready : BOOLEAN, was : BOOLEAN]

TypeOK ==
    /\ want \in [Peers -> BOOLEAN] /\ trusted \in BOOLEAN
    /\ ice \in [Peers -> {"checking", "ready", "lost"}]
    /\ nice \in [Peers -> {"loop", "state", "keys", "gone"}]
    /\ net \in [Peers -> SUBSET (1 .. 4)] /\ hs \in [Peers -> -1 .. 4]
    /\ usable \in [Peers -> BOOLEAN] /\ ctl \in [Peers -> Flags]
    /\ pacer_tasks \in [Peers -> Seq(Tasks)] /\ cc_tasks \in [Peers -> Seq(Tasks)]
    /\ transport_ready \in [Peers -> BOOLEAN]
    /\ network_available \in [Peers -> BOOLEAN]
    /\ worker \in [Peers -> {"up", "retired", "closed", "destroying", "gone"}]

\* Keys come only from a completed handshake with the right certificate.
KeysAreEarned(p) ==
    /\ nice[p] = "keys" => trusted /\ hs[p] = 4
    /\ ctl[p].dtls_ready => trusted /\ (hs[p] = 4 \/ nice[p] = "gone")
    /\ ctl[p].media_ready <=> Ready(p, ctl[p])

\* Until the queues are stopped, what waits in them leads to media_ready.
Served(p) == worker[p] \notin {"destroying", "gone"}

PacerIsTold(p) ==
    Served(p) =>
        /\ pacer_tasks[p] = <<>> => transport_ready[p] = ctl[p].media_ready
        /\ pacer_tasks[p] # <<>> =>
              pacer_tasks[p][Len(pacer_tasks[p])].ready = ctl[p].media_ready

CcIsTold(p) ==
    Served(p) =>
        /\ cc_tasks[p] = <<>> => network_available[p] = ctl[p].media_ready
        /\ cc_tasks[p] # <<>> =>
              /\ cc_tasks[p][1].was = network_available[p]
              /\ cc_tasks[p][Len(cc_tasks[p])].ready = ctl[p].media_ready
        /\ \A i \in 1 .. Len(cc_tasks[p]) - 1 : cc_tasks[p][i + 1].was = cc_tasks[p][i].ready

\* The controller follows the component state, one callback behind.
PathIsKnown(p) ==
    ~IsClosed(p) =>
        /\ ctl[p].ice_ready = usable[p]
        /\ nice[p] # "state" => /\ ice[p] = "ready" => usable[p]
                                /\ usable[p] => ice[p] # "lost"

PeerInv(p) == KeysAreEarned(p) /\ PacerIsTold(p) /\ CcIsTold(p) /\ PathIsKnown(p)

IInv == TypeOK /\ \A p \in Peers : PeerInv(p)
-----------------------------------------------------------------------------
Actions(p) ==
    \/ OnNiceRecv(p) \/ OnIceStateChange(p) \/ OnDtlsHandshakeDone(p)
    \/ PacerTask(p) \/ CcTask(p) \/ Close(p) \/ DestroyController(p)
    \/ DestroyIceAgent(p) \/ Lose(p)
    \/ \E s \in {"ready", "checking", "lost"} : OnNiceStateChanged(p, s)

LEMMA NextIsActions == Next => \E p \in Peers : Actions(p)
BY DEF Next, Run, Actions

\* The initial states satisfy the invariant.
LEMMA InitInv == Init => IInv
<1> SUFFICES ASSUME Init PROVE IInv
    OBVIOUS
<1>1. TypeOK
    BY DEF Init, TypeOK, AllFalse, Flags, Tasks
<1>2. ASSUME NEW p \in Peers PROVE PeerInv(p)
  <2>1. /\ pacer_tasks[p] = <<>> /\ cc_tasks[p] = <<>>
        /\ transport_ready[p] = FALSE /\ network_available[p] = FALSE
        /\ usable[p] = FALSE /\ nice[p] = "loop" /\ ice[p] = "checking"
      BY DEF Init, AllFalse
  <2>2. /\ ctl[p].media_ready = FALSE /\ ctl[p].dtls_ready = FALSE
        /\ ctl[p].ice_ready = FALSE
      BY DEF Init
  <2>3. KeysAreEarned(p)
      BY <2>1, <2>2 DEF KeysAreEarned, Ready
  <2>4. PacerIsTold(p) /\ PathIsKnown(p)
      BY <2>1, <2>2, Zenon DEF PacerIsTold, PathIsKnown
  <2>5. 1 .. Len(cc_tasks[p]) - 1 = {}
      BY <2>1
  <2>6. CcIsTold(p)
      BY <2>1, <2>2, <2>5, Zenon DEF CcIsTold
  <2> QED BY <2>3, <2>4, <2>6 DEF PeerInv
<1> QED BY <1>1, <1>2 DEF IInv

\* What UpdateMediaTransportState does, with the value of Ready as r.
LEMMA Updated ==
    ASSUME TypeOK, NEW p \in Peers, NEW k \in Flags, UpdateMediaTransportState(p, k)
    PROVE  \E r \in BOOLEAN :
              /\ r <=> Ready(p, k)
              /\ ctl' = [ctl EXCEPT ![p] = [k EXCEPT !.media_ready = r]]
              /\ pacer_tasks' = Post(p, pacer_tasks, [ready |-> r, was |-> k.media_ready])
              /\ cc_tasks' = Post(p, cc_tasks, [ready |-> r, was |-> k.media_ready])
<1> DEFINE r == Ready(p, k)
<1>1. r \in BOOLEAN
    BY Zenon DEF Ready
<1>2. /\ ctl' = [ctl EXCEPT ![p] = [k EXCEPT !.media_ready = r]]
      /\ pacer_tasks' = Post(p, pacer_tasks, [ready |-> r, was |-> k.media_ready])
      /\ cc_tasks' = Post(p, cc_tasks, [ready |-> r, was |-> k.media_ready])
    BY Zenon DEF UpdateMediaTransportState
<1> QED BY <1>1, <1>2, Zenon

\* A posted task keeps the types.
LEMMA PostType ==
    ASSUME NEW p \in Peers, NEW q \in [Peers -> Seq(Tasks)], NEW t \in Tasks
    PROVE  Post(p, q, t) \in [Peers -> Seq(Tasks)]
BY DEF Post

\* So does the update.
LEMMA UpdatedType ==
    ASSUME TypeOK, NEW p \in Peers, NEW k \in Flags, UpdateMediaTransportState(p, k)
    PROVE  /\ ctl' \in [Peers -> Flags]
           /\ pacer_tasks' \in [Peers -> Seq(Tasks)]
           /\ cc_tasks' \in [Peers -> Seq(Tasks)]
<1>1. PICK r \in BOOLEAN :
              /\ ctl' = [ctl EXCEPT ![p] = [k EXCEPT !.media_ready = r]]
              /\ pacer_tasks' = Post(p, pacer_tasks, [ready |-> r, was |-> k.media_ready])
              /\ cc_tasks' = Post(p, cc_tasks, [ready |-> r, was |-> k.media_ready])
    BY Updated
<1>2. [k EXCEPT !.media_ready = r] \in Flags
    BY DEF Flags
<1>3. [ready |-> r, was |-> k.media_ready] \in Tasks
    BY DEF Flags, Tasks
<1> QED BY <1>1, <1>2, <1>3, PostType DEF TypeOK

\* The flags before the update, when ICE changes and when the keys are there.
Available(p, v) == [ctl[p] EXCEPT !.ice_ready = v, !.dtls_ready = @ /\ v]
Keyed(p) == [ctl[p] EXCEPT !.dtls_ready = TRUE]

LEMMA AvailableFlags ==
    ASSUME TypeOK, NEW p \in Peers, NEW v \in BOOLEAN
    PROVE  /\ Available(p, v) \in Flags
           /\ Available(p, v).ice_ready = v
           /\ Available(p, v).dtls_ready => ctl[p].dtls_ready /\ v
           /\ Available(p, v).media_ready = ctl[p].media_ready
<1> DEFINE b == ctl[p].dtls_ready /\ v
           k == [ctl[p] EXCEPT !.ice_ready = v]
<1>1. b \in BOOLEAN
    BY Zenon
<1>2. ctl[p] \in Flags
    BY DEF TypeOK
<1>3. /\ k \in Flags /\ k.ice_ready = v /\ k.dtls_ready = ctl[p].dtls_ready
      /\ k.media_ready = ctl[p].media_ready
    BY <1>2 DEF Flags
<1>4. Available(p, v) = [k EXCEPT !.dtls_ready = b]
    BY <1>3, Zenon DEF Available
<1>5. b => ctl[p].dtls_ready /\ v
    OBVIOUS
<1> HIDE DEF b, k
<1> QED BY <1>1, <1>3, <1>4, <1>5 DEF Flags

LEMMA KeyedFlags ==
    ASSUME TypeOK, NEW p \in Peers
    PROVE  /\ Keyed(p) \in Flags
           /\ Keyed(p).dtls_ready = TRUE
           /\ Keyed(p).ice_ready = ctl[p].ice_ready
           /\ Keyed(p).media_ready = ctl[p].media_ready
<1>1. ctl[p] \in Flags
    BY DEF TypeOK
<1> QED BY <1>1 DEF Flags, Keyed

\* Types are kept.
LEMMA StepType == ASSUME TypeOK, NEW p \in Peers, Actions(p) PROVE TypeOK'
<1> USE DEF TypeOK, agents, queues, counters
<1>1. CASE OnNiceRecv(p)
  <2>1. PICK r \in net[p] :
          LET taken == hs[p] = r - 1
              next == IF r = 4 THEN 4 ELSE r + 1
          IN  /\ net' = [net EXCEPT ![p] = @ \ {r},
                                    ![Other(p)] = IF taken /\ r < 4 /\ ~IsClosed(p)
                                                  THEN @ \cup {next} ELSE @]
              /\ hs' = [hs EXCEPT ![p] = IF taken THEN next ELSE @]
              /\ nice' = [nice EXCEPT ![p] = IF taken /\ next = 4 /\ trusted
                                             THEN "keys" ELSE @]
      BY <1>1 DEF OnNiceRecv
  <2>2. r \in 1 .. 4 /\ Other(p) \in Peers
      BY DEF Peers, Other
  <2>3. net' \in [Peers -> SUBSET (1 .. 4)]
    <3>1. (IF r = 4 THEN 4 ELSE r + 1) \in 1 .. 4
        BY <2>2
    <3> DEFINE f == [net EXCEPT ![p] = @ \ {r}]
    <3>2. f \in [Peers -> SUBSET (1 .. 4)]
        OBVIOUS
    <3>3. \E S \in SUBSET (1 .. 4) : net' = [f EXCEPT ![Other(p)] = S]
        BY <2>1, <2>2, <3>1, <3>2
    <3> QED BY <2>2, <3>2, <3>3
  <2>4. hs' \in [Peers -> -1 .. 4] /\ nice' \in [Peers -> {"loop", "state", "keys", "gone"}]
      BY <2>1, <2>2
  <2> QED BY <1>1, <2>3, <2>4 DEF OnNiceRecv
<1>2. CASE OnIceStateChange(p)
  <2>1. Update(p) \in BOOLEAN
      BY Zenon DEF Update
  <2>2. usable' \in [Peers -> BOOLEAN]
      BY <1>2, <2>1 DEF OnIceStateChange
  <2>3. ASSUME UpdateNetworkAvailability(p, usable'[p])
        PROVE  /\ ctl' \in [Peers -> Flags]
               /\ pacer_tasks' \in [Peers -> Seq(Tasks)]
               /\ cc_tasks' \in [Peers -> Seq(Tasks)]
    <3>2. Available(p, usable'[p]) \in Flags
        BY <2>2, AvailableFlags
    <3>3. UpdateMediaTransportState(p, Available(p, usable'[p]))
        BY <2>3, Zenon DEF UpdateNetworkAvailability, Available
    <3> QED BY <3>2, <3>3, UpdatedType
  <2>4. worker' \in [Peers -> {"up", "retired", "closed", "destroying", "gone"}]
      BY <1>2 DEF OnIceStateChange
  <2> QED BY <1>2, <2>2, <2>3, <2>4 DEF OnIceStateChange
<1>3. CASE OnDtlsHandshakeDone(p)
  <2>1. Keyed(p) \in Flags
      BY KeyedFlags
  <2>2. UpdateMediaTransportState(p, Keyed(p))
      BY <1>3 DEF OnDtlsHandshakeDone, Keyed
  <2>3. /\ ctl' \in [Peers -> Flags]
        /\ pacer_tasks' \in [Peers -> Seq(Tasks)]
        /\ cc_tasks' \in [Peers -> Seq(Tasks)]
      BY <2>1, <2>2, UpdatedType
  <2> QED BY <1>3, <2>3 DEF OnDtlsHandshakeDone
<1>4. CASE PacerTask(p)
  <2>1. Head(pacer_tasks[p]) \in Tasks /\ Tail(pacer_tasks[p]) \in Seq(Tasks)
      BY <1>4 DEF PacerTask
  <2>2. Head(pacer_tasks[p]).ready \in BOOLEAN
      BY <2>1 DEF Tasks
  <2> QED BY <1>4, <2>1, <2>2 DEF PacerTask
<1>5. CASE CcTask(p)
  <2>1. Head(cc_tasks[p]) \in Tasks /\ Tail(cc_tasks[p]) \in Seq(Tasks)
      BY <1>5 DEF CcTask
  <2>2. Head(cc_tasks[p]).ready \in BOOLEAN
      BY <2>1 DEF Tasks
  <2> QED BY <1>5, <2>1, <2>2 DEF CcTask
<1>6. CASE Close(p)
    BY <1>6 DEF Close
<1>7. CASE DestroyController(p)
    BY <1>7 DEF DestroyController
<1>8. CASE DestroyIceAgent(p)
    BY <1>8 DEF DestroyIceAgent
<1>9. CASE Lose(p)
    BY <1>9 DEF Lose
<1>10. CASE \E s \in {"ready", "checking", "lost"} : OnNiceStateChanged(p, s)
    BY <1>10 DEF OnNiceStateChanged, StartDtls, Send, Peers, Other
<1> QED BY <1>1, <1>2, <1>3, <1>4, <1>5, <1>6, <1>7, <1>8, <1>9, <1>10 DEF Actions

\* The threads of one peer touch nothing of the other but its network.
LEMMA StepFrame ==
    ASSUME TypeOK, NEW p \in Peers, Actions(p), NEW q \in Peers, q # p
    PROVE  /\ ice'[q] = ice[q] /\ nice'[q] = nice[q] /\ hs'[q] = hs[q]
           /\ usable'[q] = usable[q] /\ ctl'[q] = ctl[q]
           /\ pacer_tasks'[q] = pacer_tasks[q] /\ cc_tasks'[q] = cc_tasks[q]
           /\ transport_ready'[q] = transport_ready[q]
           /\ network_available'[q] = network_available[q]
           /\ worker'[q] = worker[q]
<1> USE DEF TypeOK, agents, queues, counters
<1>0. ASSUME NEW k, UpdateMediaTransportState(p, k)
      PROVE  /\ ctl'[q] = ctl[q]
             /\ pacer_tasks'[q] = pacer_tasks[q] /\ cc_tasks'[q] = cc_tasks[q]
  <2>1. \E j, t : /\ ctl' = [ctl EXCEPT ![p] = j]
                  /\ pacer_tasks' = Post(p, pacer_tasks, t)
                  /\ cc_tasks' = Post(p, cc_tasks, t)
      BY <1>0, Zenon DEF UpdateMediaTransportState
  <2> QED BY <2>1 DEF Post
<1>1. CASE OnNiceRecv(p)
    BY <1>1 DEF OnNiceRecv
<1>2. CASE OnIceStateChange(p)
  <2>1. /\ ctl'[q] = ctl[q]
        /\ pacer_tasks'[q] = pacer_tasks[q] /\ cc_tasks'[q] = cc_tasks[q]
    <3>1. \/ UNCHANGED <<ctl, pacer_tasks, cc_tasks>>
          \/ UpdateNetworkAvailability(p, usable'[p])
        BY <1>2 DEF OnIceStateChange
    <3>2. ASSUME UpdateNetworkAvailability(p, usable'[p])
          PROVE  \E k : UpdateMediaTransportState(p, k)
        BY <3>2, Zenon DEF UpdateNetworkAvailability
    <3> QED BY <1>0, <3>1, <3>2
  <2> QED BY <1>2, <2>1 DEF OnIceStateChange
<1>3. CASE OnDtlsHandshakeDone(p)
  <2>1. \E k : UpdateMediaTransportState(p, k)
      BY <1>3, Zenon DEF OnDtlsHandshakeDone
  <2> QED BY <1>0, <1>3, <2>1 DEF OnDtlsHandshakeDone
<1>4. CASE PacerTask(p)
    BY <1>4 DEF PacerTask
<1>5. CASE CcTask(p)
    BY <1>5 DEF CcTask
<1>6. CASE Close(p)
    BY <1>6 DEF Close
<1>7. CASE DestroyController(p)
    BY <1>7 DEF DestroyController
<1>8. CASE DestroyIceAgent(p)
    BY <1>8 DEF DestroyIceAgent
<1>9. CASE Lose(p)
    BY <1>9 DEF Lose
<1>10. CASE \E s \in {"ready", "checking", "lost"} : OnNiceStateChanged(p, s)
    BY <1>10 DEF OnNiceStateChanged, StartDtls
<1> QED BY <1>1, <1>2, <1>3, <1>4, <1>5, <1>6, <1>7, <1>8, <1>9, <1>10 DEF Actions

\* What is fixed from the start.
LEMMA StepFixed == ASSUME NEW p \in Peers, Actions(p) PROVE UNCHANGED <<want, trusted>>
BY DEF Actions, OnNiceRecv, OnIceStateChange, OnDtlsHandshakeDone, PacerTask, CcTask,
       Close, DestroyController, DestroyIceAgent, Lose, OnNiceStateChanged, agents

\* So the invariant of the other peer is kept.
LEMMA OtherPeerKept ==
    ASSUME TypeOK, NEW p \in Peers, Actions(p), NEW q \in Peers, q # p, PeerInv(q)
    PROVE  PeerInv(q)'
<1>1. UNCHANGED <<want, trusted>>
    BY StepFixed
<1>2. /\ ice'[q] = ice[q] /\ nice'[q] = nice[q] /\ hs'[q] = hs[q]
      /\ usable'[q] = usable[q] /\ ctl'[q] = ctl[q]
      /\ pacer_tasks'[q] = pacer_tasks[q] /\ cc_tasks'[q] = cc_tasks[q]
      /\ transport_ready'[q] = transport_ready[q]
      /\ network_available'[q] = network_available[q]
      /\ worker'[q] = worker[q]
    BY StepFrame
<1>3. KeysAreEarned(q)'
    BY <1>1, <1>2, Zenon DEF PeerInv, KeysAreEarned, Ready, Srtp, Answers
<1>4. PacerIsTold(q)' /\ CcIsTold(q)'
    BY <1>2, Zenon DEF PeerInv, PacerIsTold, CcIsTold, Served
<1>5. PathIsKnown(q)'
    BY <1>2, Zenon DEF PeerInv, PathIsKnown, IsClosed
<1> QED BY <1>3, <1>4, <1>5 DEF PeerInv

\* A posted task keeps both queues leading to media_ready.
LEMMA UpdateTells ==
    ASSUME TypeOK, NEW p \in Peers, NEW k \in Flags, UpdateMediaTransportState(p, k),
           k.media_ready = ctl[p].media_ready,
           PacerIsTold(p), CcIsTold(p), Served(p)' => Served(p),
           UNCHANGED <<transport_ready, network_available>>
    PROVE  /\ PacerIsTold(p)' /\ CcIsTold(p)'
           /\ ctl'[p].ice_ready = k.ice_ready /\ ctl'[p].dtls_ready = k.dtls_ready
           /\ (ctl'[p].media_ready <=> Ready(p, k))
<1>1. PICK r \in BOOLEAN :
              /\ r <=> Ready(p, k)
              /\ ctl' = [ctl EXCEPT ![p] = [k EXCEPT !.media_ready = r]]
              /\ pacer_tasks' = Post(p, pacer_tasks, [ready |-> r, was |-> k.media_ready])
              /\ cc_tasks' = Post(p, cc_tasks, [ready |-> r, was |-> k.media_ready])
    BY Updated
<1> DEFINE j == [k EXCEPT !.media_ready = r]
           t == [ready |-> r, was |-> k.media_ready]
<1>2. /\ j.media_ready = r /\ j.ice_ready = k.ice_ready
      /\ j.dtls_ready = k.dtls_ready
    BY DEF Flags
<1>3. ctl'[p] = j
    BY <1>1 DEF TypeOK
<1>4. t \in Tasks /\ t.ready = r /\ t.was = ctl[p].media_ready
    BY DEF Flags, Tasks
<1>5. /\ pacer_tasks' = Post(p, pacer_tasks, t)
      /\ cc_tasks' = Post(p, cc_tasks, t)
    BY <1>1
<1> HIDE DEF j, t
<1>6. ctl'[p].media_ready = r
    BY <1>2, <1>3
<1>7. ASSUME Served(p) PROVE /\ pacer_tasks'[p] = Append(pacer_tasks[p], t)
                             /\ cc_tasks'[p] = Append(cc_tasks[p], t)
    BY <1>5, <1>7 DEF Post, Served, TypeOK
<1>8. PacerIsTold(p)'
  <2> SUFFICES ASSUME Served(p)'
               PROVE  /\ pacer_tasks'[p] # <<>>
                      /\ pacer_tasks'[p][Len(pacer_tasks'[p])].ready = ctl'[p].media_ready
      BY Zenon DEF PacerIsTold
  <2>1. pacer_tasks'[p] = Append(pacer_tasks[p], t) /\ pacer_tasks[p] \in Seq(Tasks)
      BY <1>7 DEF TypeOK
  <2>2. pacer_tasks'[p] # <<>> /\ pacer_tasks'[p][Len(pacer_tasks'[p])] = t
      BY <2>1, <1>4
  <2> QED BY <2>2, <1>4, <1>6
<1>9. CcIsTold(p)'
  <2> SUFFICES ASSUME Served(p)'
               PROVE  /\ cc_tasks'[p] # <<>>
                      /\ cc_tasks'[p][1].was = network_available'[p]
                      /\ cc_tasks'[p][Len(cc_tasks'[p])].ready = ctl'[p].media_ready
                      /\ \A i \in 1 .. Len(cc_tasks'[p]) - 1 :
                             cc_tasks'[p][i + 1].was = cc_tasks'[p][i].ready
      BY Zenon DEF CcIsTold
  <2> DEFINE c == cc_tasks[p]
  <2>1. cc_tasks'[p] = Append(c, t) /\ c \in Seq(Tasks)
      BY <1>7 DEF TypeOK
  <2>2. /\ c = <<>> => network_available[p] = ctl[p].media_ready
        /\ c # <<>> => /\ c[1].was = network_available[p]
                       /\ c[Len(c)].ready = ctl[p].media_ready
        /\ \A i \in 1 .. Len(c) - 1 : c[i + 1].was = c[i].ready
      BY Zenon DEF CcIsTold
  <2> HIDE DEF c
  <2>3. /\ Len(Append(c, t)) = Len(c) + 1 /\ Append(c, t)[Len(c) + 1] = t
        /\ \A i \in 1 .. Len(c) : Append(c, t)[i] = c[i]
        /\ Len(c) \in Nat /\ (c = <<>> <=> Len(c) = 0)
      BY <2>1, <1>4
  <2>4. cc_tasks'[p] # <<>> /\ cc_tasks'[p][Len(cc_tasks'[p])] = t
      BY <2>1, <2>3, <1>4
  <2>5. cc_tasks'[p][1].was = network_available[p]
    <3>1. CASE c = <<>>
        BY <3>1, <2>1, <2>2, <2>3, <1>4
    <3>2. CASE c # <<>>
        BY <3>2, <2>1, <2>2, <2>3
    <3> QED BY <3>1, <3>2
  <2>6. ASSUME NEW i \in 1 .. Len(cc_tasks'[p]) - 1
        PROVE  cc_tasks'[p][i + 1].was = cc_tasks'[p][i].ready
    <3>1. i \in 1 .. Len(c) /\ cc_tasks'[p][i] = c[i]
        BY <2>1, <2>3
    <3>2. CASE i = Len(c)
        BY <3>1, <3>2, <2>1, <2>2, <2>3, <1>4
    <3>3. CASE i # Len(c)
      <4>1. i \in 1 .. Len(c) - 1 /\ i + 1 \in 1 .. Len(c)
          BY <3>1, <3>3, <2>3
      <4>2. cc_tasks'[p][i + 1] = c[i + 1]
          BY <4>1, <2>1, <2>3
      <4> QED BY <4>1, <4>2, <3>1, <2>2
    <3> QED BY <3>2, <3>3
  <2> QED BY <2>4, <2>5, <2>6, <1>4, <1>6
<1> QED BY <1>1, <1>2, <1>3, <1>6, <1>8, <1>9

\* What the two actions that post do.
LEMMA StateChangeUpdates ==
    ASSUME TypeOK, NEW p \in Peers, OnIceStateChange(p), ~IsClosed(p),
           PacerIsTold(p), CcIsTold(p)
    PROVE  /\ usable'[p] \in BOOLEAN /\ usable'[p] = Update(p) /\ worker'[p] \in {worker[p], "retired"}
           /\ \/ UNCHANGED <<ctl, pacer_tasks, cc_tasks>> /\ usable'[p] = usable[p]
              \/ /\ UpdateMediaTransportState(p, Available(p, usable'[p]))
                 /\ PacerIsTold(p)' /\ CcIsTold(p)'
                 /\ ctl'[p].ice_ready = usable'[p]
                 /\ ctl'[p].dtls_ready => ctl[p].dtls_ready
                 /\ ctl'[p].media_ready <=> Ready(p, ctl'[p])
<1>1. Update(p) \in BOOLEAN
    BY Zenon DEF Update
<1>2. usable'[p] \in BOOLEAN /\ usable'[p] = Update(p)
    BY <1>1 DEF OnIceStateChange, TypeOK
<1>3. worker'[p] \in {worker[p], "retired"}
    BY DEF OnIceStateChange, TypeOK
<1>4. ASSUME usable'[p] # usable[p]
      PROVE  /\ UpdateMediaTransportState(p, Available(p, usable'[p]))
             /\ PacerIsTold(p)' /\ CcIsTold(p)'
             /\ ctl'[p].ice_ready = usable'[p]
             /\ ctl'[p].dtls_ready => ctl[p].dtls_ready
             /\ ctl'[p].media_ready <=> Ready(p, ctl'[p])
  <2>1. UpdateNetworkAvailability(p, usable'[p])
      BY <1>4 DEF OnIceStateChange
  <2>2. UpdateMediaTransportState(p, Available(p, usable'[p]))
      BY <2>1, Zenon DEF UpdateNetworkAvailability, Available
  <2> DEFINE k == Available(p, usable'[p])
  <2>3. /\ k \in Flags /\ k.ice_ready = usable'[p]
        /\ k.dtls_ready => ctl[p].dtls_ready
        /\ k.media_ready = ctl[p].media_ready
      BY <1>2, AvailableFlags
  <2>4. Served(p)' => Served(p)
      BY <1>3 DEF Served, IsClosed
  <2>5. UNCHANGED <<transport_ready, network_available>>
      BY DEF OnIceStateChange
  <2>6. UpdateMediaTransportState(p, k)
      BY <2>2
  <2> HIDE DEF k
  <2>7. /\ PacerIsTold(p)' /\ CcIsTold(p)'
        /\ ctl'[p].ice_ready = k.ice_ready /\ ctl'[p].dtls_ready = k.dtls_ready
        /\ (ctl'[p].media_ready <=> Ready(p, k))
      BY <2>3, <2>4, <2>5, <2>6, UpdateTells
  <2>8. Ready(p, k) <=> Ready(p, ctl'[p])
      BY <2>7, Zenon DEF Ready
  <2> QED BY <2>2, <2>3, <2>7, <2>8
<1>5. usable'[p] = usable[p] => UNCHANGED <<ctl, pacer_tasks, cc_tasks>>
    BY DEF OnIceStateChange
<1> QED BY <1>2, <1>3, <1>4, <1>5

LEMMA HandshakeUpdates ==
    ASSUME TypeOK, NEW p \in Peers, OnDtlsHandshakeDone(p), PacerIsTold(p), CcIsTold(p)
    PROVE  /\ PacerIsTold(p)' /\ CcIsTold(p)'
           /\ ctl'[p].ice_ready = ctl[p].ice_ready /\ ctl'[p].dtls_ready = TRUE
           /\ (ctl'[p].media_ready <=> Ready(p, ctl'[p]))
<1> DEFINE k == Keyed(p)
<1>1. /\ k \in Flags /\ k.dtls_ready = TRUE
      /\ k.ice_ready = ctl[p].ice_ready /\ k.media_ready = ctl[p].media_ready
    BY KeyedFlags
<1>2. UpdateMediaTransportState(p, k)
    BY DEF OnDtlsHandshakeDone, Keyed
<1>3. UNCHANGED <<transport_ready, network_available, worker>>
    BY DEF OnDtlsHandshakeDone
<1>4. Served(p)' => Served(p)
    BY <1>3 DEF Served
<1> HIDE DEF k
<1>5. /\ PacerIsTold(p)' /\ CcIsTold(p)'
      /\ ctl'[p].ice_ready = k.ice_ready /\ ctl'[p].dtls_ready = k.dtls_ready
      /\ (ctl'[p].media_ready <=> Ready(p, k))
    BY <1>1, <1>2, <1>3, <1>4, UpdateTells
<1>6. Ready(p, k) <=> Ready(p, ctl'[p])
    BY <1>5, Zenon DEF Ready
<1> QED BY <1>1, <1>5, <1>6

\* The keys of p stay earned.
LEMMA KeysKept ==
    ASSUME TypeOK, NEW p \in Peers, Actions(p), PeerInv(p)
    PROVE  KeysAreEarned(p)'
<1>0. UNCHANGED <<want, trusted>>
    BY StepFixed
<1>a. KeysAreEarned(p) /\ PacerIsTold(p) /\ CcIsTold(p)
    BY DEF PeerInv
<1>b. ASSUME ctl'[p] = ctl[p], nice'[p] = nice[p], hs'[p] = hs[p]
      PROVE  KeysAreEarned(p)'
    BY <1>0, <1>a, <1>b, Zenon DEF KeysAreEarned, Ready, Srtp, Answers
<1>1. CASE OnNiceRecv(p)
  <2>1. PICK r \in net[p] :
              /\ hs' = [hs EXCEPT ![p] = IF hs[p] = r - 1
                                         THEN (IF r = 4 THEN 4 ELSE r + 1) ELSE @]
              /\ nice' = [nice EXCEPT ![p] =
                             IF hs[p] = r - 1 /\ (IF r = 4 THEN 4 ELSE r + 1) = 4 /\ trusted
                             THEN "keys" ELSE @]
      BY <1>1 DEF OnNiceRecv
  <2>2. r \in 1 .. 4 /\ hs[p] \in -1 .. 4
      BY DEF TypeOK
  <2>3. hs[p] = 4 => hs'[p] = 4
      BY <2>1, <2>2 DEF TypeOK
  <2>4. nice'[p] = "keys" => trusted /\ hs'[p] = 4
      BY <1>1, <2>1, <2>2 DEF TypeOK, OnNiceRecv
  <2>5. ctl'[p] = ctl[p] /\ nice[p] = "loop"
      BY <1>1 DEF OnNiceRecv
  <2>6. nice[p] # "gone"
      BY <2>5
  <2> QED BY <1>0, <1>a, <2>3, <2>4, <2>5, <2>6, Zenon DEF KeysAreEarned, Ready, Srtp, Answers
<1>2. CASE OnIceStateChange(p)
  <2>1. hs'[p] = hs[p] /\ nice'[p] = "loop" /\ nice[p] = "state"
      BY <1>2 DEF OnIceStateChange, TypeOK
  <2>2. CASE ctl' = ctl
    <3>1. nice'[p] # "keys" /\ nice[p] # "gone" /\ ctl'[p] = ctl[p]
        BY <2>1, <2>2
    <3> QED BY <1>0, <1>a, <2>1, <3>1, Zenon DEF KeysAreEarned, Ready, Srtp, Answers
  <2>3. CASE ctl' # ctl
    <3>1. ~IsClosed(p)
        BY <1>2, <2>3 DEF OnIceStateChange
    <3>2. /\ ctl'[p].dtls_ready => ctl[p].dtls_ready
          /\ ctl'[p].media_ready <=> Ready(p, ctl'[p])
        BY <1>2, <1>a, <2>3, <3>1, StateChangeUpdates
    <3>3. nice'[p] # "keys" /\ nice[p] # "gone"
        BY <2>1
    <3> QED BY <1>0, <1>a, <2>1, <3>2, <3>3, Zenon DEF KeysAreEarned, Ready, Srtp, Answers
  <2> QED BY <2>2, <2>3
<1>3. CASE OnDtlsHandshakeDone(p)
  <2>1. hs'[p] = hs[p] /\ nice'[p] = "loop" /\ nice[p] = "keys"
      BY <1>3 DEF OnDtlsHandshakeDone, TypeOK
  <2>2. /\ ctl'[p].dtls_ready = TRUE
        /\ ctl'[p].media_ready <=> Ready(p, ctl'[p])
      BY <1>3, <1>a, HandshakeUpdates
  <2>3. nice'[p] # "keys"
      BY <2>1
  <2> QED BY <1>0, <1>a, <2>1, <2>2, <2>3, Zenon DEF KeysAreEarned, Ready, Srtp, Answers
<1>4. CASE PacerTask(p)
    BY <1>4, <1>b DEF PacerTask, agents
<1>5. CASE CcTask(p)
    BY <1>5, <1>b DEF CcTask, agents
<1>6. CASE Close(p)
    BY <1>6, <1>b DEF Close, agents
<1>7. CASE DestroyController(p)
    BY <1>7, <1>b DEF DestroyController, agents
<1>8. CASE DestroyIceAgent(p)
  <2>1. nice'[p] = "gone" /\ ctl'[p] = ctl[p]
      BY <1>8 DEF DestroyIceAgent, TypeOK
  <2>2. nice'[p] # "keys"
      BY <2>1
  <2> QED BY <1>0, <1>a, <2>1, <2>2, Zenon DEF KeysAreEarned, Ready, Srtp, Answers
<1>9. CASE Lose(p)
    BY <1>9, <1>b DEF Lose
<1>10. CASE \E s \in {"ready", "checking", "lost"} : OnNiceStateChanged(p, s)
  <2>1. nice'[p] = "state" /\ nice[p] = "loop" /\ ctl'[p] = ctl[p]
      BY <1>10 DEF OnNiceStateChanged, TypeOK
  <2>2. hs[p] = 4 => hs'[p] = 4
      BY <1>10 DEF OnNiceStateChanged, TypeOK, StartDtls
  <2>3. nice'[p] # "keys" /\ nice[p] # "gone"
      BY <2>1
  <2> QED BY <1>0, <1>a, <2>1, <2>2, <2>3, Zenon DEF KeysAreEarned, Ready, Srtp, Answers
<1> QED BY <1>1, <1>2, <1>3, <1>4, <1>5, <1>6, <1>7, <1>8, <1>9, <1>10 DEF Actions

\* A task that runs leaves the rest of its queue leading to media_ready.
LEMMA PacerTaskTells ==
    ASSUME TypeOK, NEW p \in Peers, PacerTask(p), PacerIsTold(p)
    PROVE  PacerIsTold(p)'
<1> DEFINE c == pacer_tasks[p]
<1>1. /\ c \in Seq(Tasks) /\ c # <<>> /\ pacer_tasks'[p] = Tail(c)
      /\ transport_ready'[p] = Head(c).ready
      /\ ctl'[p] = ctl[p] /\ worker'[p] = worker[p]
    BY DEF PacerTask, TypeOK
<1> SUFFICES ASSUME Served(p)
             PROVE  /\ Tail(c) = <<>> => Head(c).ready = ctl[p].media_ready
                    /\ Tail(c) # <<>> => Tail(c)[Len(Tail(c))].ready = ctl[p].media_ready
    BY <1>1, Zenon DEF PacerIsTold, Served
<1>2. c[Len(c)].ready = ctl[p].media_ready
    BY <1>1, Zenon DEF PacerIsTold
<1> HIDE DEF c
<1>3. Tail(c) = <<>> => Head(c) = c[Len(c)]
  <2>1. Len(Tail(c)) = Len(c) - 1 /\ Len(c) \in Nat /\ Head(c) = c[1]
      BY <1>1
  <2>2. Len(<<>>) = 0
      OBVIOUS
  <2>3. Tail(c) = <<>> => Len(Tail(c)) = 0
      BY <2>2, Zenon
  <2> QED BY <2>1, <2>3
<1>4. Tail(c) # <<>> => Tail(c)[Len(Tail(c))] = c[Len(c)]
    BY <1>1
<1> QED BY <1>2, <1>3, <1>4, Zenon

LEMMA CcTaskTells ==
    ASSUME TypeOK, NEW p \in Peers, CcTask(p), CcIsTold(p)
    PROVE  CcIsTold(p)'
<1> DEFINE c == cc_tasks[p]
           t == Head(c)
           d == Tail(c)
<1>1. /\ c \in Seq(Tasks) /\ c # <<>> /\ cc_tasks'[p] = d
      /\ network_available'[p] = IF t.ready # t.was THEN t.ready ELSE network_available[p]
      /\ ctl'[p] = ctl[p] /\ worker'[p] = worker[p]
    BY DEF CcTask, TypeOK
<1> SUFFICES ASSUME Served(p)
             PROVE  /\ d = <<>> => network_available'[p] = ctl[p].media_ready
                    /\ d # <<>> => /\ d[1].was = network_available'[p]
                                   /\ d[Len(d)].ready = ctl[p].media_ready
                    /\ \A i \in 1 .. Len(d) - 1 : d[i + 1].was = d[i].ready
    BY <1>1, Zenon DEF CcIsTold, Served
<1>2. /\ c[1].was = network_available[p] /\ c[Len(c)].ready = ctl[p].media_ready
      /\ \A i \in 1 .. Len(c) - 1 : c[i + 1].was = c[i].ready
    BY <1>1, Zenon DEF CcIsTold
<1>3. /\ Len(c) \in Nat \ {0} /\ Len(d) = Len(c) - 1 /\ t = c[1]
      /\ \A i \in 1 .. Len(d) : d[i] = c[i + 1]
      /\ d \in Seq(Tasks)
    BY <1>1
<1> HIDE DEF c, t, d
<1>8. d = <<>> <=> Len(c) = 1
  <2>1. d = <<>> <=> Len(d) = 0
      BY <1>3
  <2> QED BY <1>3, <2>1
<1>4. network_available'[p] = t.ready
    BY <1>1, <1>2, <1>3, Zenon
<1>5. d = <<>> => network_available'[p] = ctl[p].media_ready
    BY <1>2, <1>3, <1>4, <1>8
<1>6. ASSUME d # <<>>
      PROVE  d[1].was = network_available'[p] /\ d[Len(d)].ready = ctl[p].media_ready
  <2>1. 1 \in 1 .. Len(c) - 1 /\ 1 \in 1 .. Len(d) /\ Len(d) \in 1 .. Len(d)
      BY <1>3, <1>6, <1>8
  <2>2. c[1 + 1].was = c[1].ready /\ d[1] = c[1 + 1] /\ d[Len(d)] = c[Len(d) + 1]
      BY <1>2, <1>3, <2>1
  <2>3. Len(d) + 1 = Len(c)
      BY <1>3
  <2> QED BY <1>2, <1>3, <1>4, <2>2, <2>3
<1>7. ASSUME NEW i \in 1 .. Len(d) - 1
      PROVE  d[i + 1].was = d[i].ready
  <2>1. i + 1 \in 1 .. Len(c) - 1 /\ i \in 1 .. Len(d) /\ i + 1 \in 1 .. Len(d)
      BY <1>3
  <2> QED BY <1>2, <1>3, <2>1
<1> QED BY <1>5, <1>6, <1>7

\* What waits in the queues of p goes on leading to media_ready.
LEMMA QueuesKept ==
    ASSUME TypeOK, NEW p \in Peers, Actions(p), PeerInv(p)
    PROVE  PacerIsTold(p)' /\ CcIsTold(p)'
<1>a. PacerIsTold(p) /\ CcIsTold(p)
    BY DEF PeerInv
<1>b. ASSUME ctl'[p] = ctl[p], pacer_tasks'[p] = pacer_tasks[p],
             transport_ready'[p] = transport_ready[p], Served(p)' => Served(p)
      PROVE  PacerIsTold(p)'
    BY <1>a, <1>b, Zenon DEF PacerIsTold
<1>c. ASSUME ctl'[p] = ctl[p], cc_tasks'[p] = cc_tasks[p],
             network_available'[p] = network_available[p], Served(p)' => Served(p)
      PROVE  CcIsTold(p)'
    BY <1>a, <1>c, Zenon DEF CcIsTold
<1>1. CASE OnNiceRecv(p)
    BY <1>1, <1>b, <1>c DEF OnNiceRecv, queues, Served
<1>2. CASE OnIceStateChange(p)
  <2>1. UNCHANGED <<transport_ready, network_available>>
      BY <1>2 DEF OnIceStateChange
  <2>2. Served(p)' => Served(p)
      BY <1>2 DEF OnIceStateChange, Served, IsClosed, TypeOK
  <2>3. CASE UNCHANGED <<ctl, pacer_tasks, cc_tasks>>
      BY <2>1, <2>2, <2>3, <1>b, <1>c
  <2>4. CASE ~ UNCHANGED <<ctl, pacer_tasks, cc_tasks>>
    <3>1. ~IsClosed(p)
        BY <1>2, <2>4 DEF OnIceStateChange
    <3> QED BY <1>2, <1>a, <2>4, <3>1, StateChangeUpdates
  <2> QED BY <2>3, <2>4
<1>3. CASE OnDtlsHandshakeDone(p)
    BY <1>3, <1>a, HandshakeUpdates
<1>4. CASE PacerTask(p)
    BY <1>4, <1>a, <1>c, PacerTaskTells DEF PacerTask, Served
<1>5. CASE CcTask(p)
    BY <1>5, <1>a, <1>b, CcTaskTells DEF CcTask, Served
<1>6. CASE Close(p)
  <2>1. Served(p)' => Served(p)
      BY <1>6 DEF Close, Served, IsClosed
  <2> QED BY <1>6, <1>b, <1>c, <2>1 DEF Close, queues
<1>7. CASE DestroyController(p)
  <2>1. ~Served(p)'
      BY <1>7 DEF DestroyController, Served, TypeOK
  <2> QED BY <2>1 DEF PacerIsTold, CcIsTold
<1>8. CASE DestroyIceAgent(p)
  <2>1. ~Served(p)'
      BY <1>8 DEF DestroyIceAgent, Served, TypeOK
  <2> QED BY <2>1 DEF PacerIsTold, CcIsTold
<1>9. CASE Lose(p)
    BY <1>9, <1>b, <1>c DEF Lose, queues, Served
<1>10. CASE \E s \in {"ready", "checking", "lost"} : OnNiceStateChanged(p, s)
    BY <1>10, <1>b, <1>c DEF OnNiceStateChanged, queues, Served
<1> QED BY <1>1, <1>2, <1>3, <1>4, <1>5, <1>6, <1>7, <1>8, <1>9, <1>10 DEF Actions

\* The controller of p goes on following the component state.
LEMMA PathKept ==
    ASSUME TypeOK, NEW p \in Peers, Actions(p), PeerInv(p)
    PROVE  PathIsKnown(p)'
<1>a. PathIsKnown(p) /\ PacerIsTold(p) /\ CcIsTold(p)
    BY DEF PeerInv
<1>b. ASSUME ctl'[p] = ctl[p], usable'[p] = usable[p], ice'[p] = ice[p],
             nice'[p] = nice[p], IsClosed(p) => IsClosed(p)'
      PROVE  PathIsKnown(p)'
    BY <1>a, <1>b, Zenon DEF PathIsKnown
<1>1. CASE OnNiceRecv(p)
  <2>1. nice[p] # "state"
      BY <1>1 DEF OnNiceRecv
  <2> QED BY <1>1, <1>a, <2>1 DEF OnNiceRecv, PathIsKnown, IsClosed
<1>2. CASE OnIceStateChange(p)
  <2>1. CASE IsClosed(p)
    <3>1. IsClosed(p)'
        BY <1>2, <2>1 DEF OnIceStateChange, IsClosed
    <3> QED BY <3>1 DEF PathIsKnown
  <2>2. CASE ~IsClosed(p)
    <3>1. /\ usable'[p] = Update(p)
          /\ \/ UNCHANGED <<ctl, pacer_tasks, cc_tasks>> /\ usable'[p] = usable[p]
             \/ ctl'[p].ice_ready = usable'[p]
        BY <1>2, <1>a, <2>2, StateChangeUpdates
    <3>2. ctl'[p].ice_ready = usable'[p]
        BY <1>a, <2>2, <3>1 DEF PathIsKnown
    <3>3. ice'[p] = ice[p]
        BY <1>2 DEF OnIceStateChange
    <3>4. ice[p] = "ready" => ice[p] # "lost"
        OBVIOUS
    <3>5. (ice[p] = "ready" => Update(p)) /\ (Update(p) => ice[p] # "lost")
        BY <3>4, Zenon DEF Update
    <3> QED BY <3>1, <3>2, <3>3, <3>5 DEF PathIsKnown
  <2> QED BY <2>1, <2>2
<1>3. CASE OnDtlsHandshakeDone(p)
  <2>1. nice[p] # "state"
      BY <1>3 DEF OnDtlsHandshakeDone
  <2>2. ctl'[p].ice_ready = ctl[p].ice_ready
      BY <1>3, <1>a, HandshakeUpdates
  <2> QED BY <1>3, <1>a, <2>1, <2>2 DEF OnDtlsHandshakeDone, PathIsKnown, IsClosed
<1>4. CASE PacerTask(p)
    BY <1>4, <1>b DEF PacerTask, agents, IsClosed
<1>5. CASE CcTask(p)
    BY <1>5, <1>b DEF CcTask, agents, IsClosed
<1>6. CASE Close(p)
  <2>1. IsClosed(p)'
      BY <1>6 DEF Close, IsClosed, TypeOK
  <2> QED BY <2>1 DEF PathIsKnown
<1>7. CASE DestroyController(p)
  <2>1. IsClosed(p)'
      BY <1>7 DEF DestroyController, IsClosed, TypeOK
  <2> QED BY <2>1 DEF PathIsKnown
<1>8. CASE DestroyIceAgent(p)
  <2>1. IsClosed(p)'
      BY <1>8 DEF DestroyIceAgent, IsClosed, TypeOK
  <2> QED BY <2>1 DEF PathIsKnown
<1>9. CASE Lose(p)
    BY <1>9, <1>b DEF Lose, IsClosed
<1>10. CASE \E s \in {"ready", "checking", "lost"} : OnNiceStateChanged(p, s)
  <2>1. /\ nice'[p] = "state" /\ ctl'[p] = ctl[p] /\ usable'[p] = usable[p]
        /\ worker'[p] = worker[p]
      BY <1>10 DEF OnNiceStateChanged, TypeOK
  <2> QED BY <1>a, <2>1 DEF PathIsKnown, IsClosed
<1> QED BY <1>1, <1>2, <1>3, <1>4, <1>5, <1>6, <1>7, <1>8, <1>9, <1>10 DEF Actions
-----------------------------------------------------------------------------
(* The theorems                                                              *)

LEMMA StepInv == IInv /\ [Next]_vars => IInv'
<1> SUFFICES ASSUME IInv, [Next]_vars PROVE IInv'
    OBVIOUS
<1>1. CASE Next
  <2>1. PICK p \in Peers : Actions(p)
      BY <1>1, NextIsActions
  <2>2. TypeOK'
      BY <2>1, StepType DEF IInv
  <2>3. ASSUME NEW q \in Peers PROVE PeerInv(q)'
    <3>1. CASE q = p
        BY <2>1, <3>1, KeysKept, QueuesKept, PathKept DEF IInv, PeerInv
    <3>2. CASE q # p
        BY <2>1, <3>2, OtherPeerKept DEF IInv
    <3> QED BY <3>1, <3>2
  <2> QED BY <2>2, <2>3 DEF IInv
<1>2. CASE UNCHANGED vars
  <2>1. TypeOK'
      BY <1>2 DEF vars, agents, queues, IInv, TypeOK
  <2>2. ASSUME NEW p \in Peers PROVE PeerInv(p)'
    <3>1. PeerInv(p)
        BY DEF IInv
    <3>2. KeysAreEarned(p)'
        BY <1>2, <3>1, Zenon DEF PeerInv, vars, agents, KeysAreEarned, Ready, Srtp, Answers
    <3>3. PacerIsTold(p)' /\ CcIsTold(p)'
        BY <1>2, <3>1, Zenon DEF PeerInv, vars, queues, PacerIsTold, CcIsTold, Served
    <3>4. PathIsKnown(p)'
        BY <1>2, <3>1, Zenon DEF PeerInv, vars, agents, PathIsKnown, IsClosed
    <3> QED BY <3>2, <3>3, <3>4 DEF PeerInv
  <2> QED BY <2>1, <2>2 DEF IInv
<1> QED BY <1>1, <1>2

\* Keys earned, queues that lead to media_ready and flags that follow the
\* component state hold in every state, for any number of lost records,
\* rechecks and failures.
THEOREM Invariance == Spec => []IInv
BY InitInv, StepInv, PTL DEF Spec

-----------------------------------------------------------------------------
(* The two ends of the handshake                                             *)

\* The flights p sends, and where that leaves it.
Mine(p) == IF p = "o" THEN {1, 3} ELSE {2, 4}
Turns(p) == IF p = "o" THEN {-1, 1, 3, 4} ELSE {-1, 0, 2, 4}

Reached(p, n) == hs[p] >= n \/ nice[p] = "gone"

\* A flight under way was sent by the other end, and who has the last one, or
\* had it once, was preceded by the other end's last but one.
Handshake(p) ==
    /\ hs[p] \in Turns(p)
    /\ \A r \in net[Other(p)] : r \in Mine(p) /\ Reached(p, r)
    /\ hs[p] = 4 \/ ctl[p].dtls_ready => Reached(Other(p), 3)

LEMMA OthersAre ==
    ASSUME NEW p \in Peers
    PROVE  /\ Other(p) \in Peers /\ Other(Other(p)) = p /\ Other(p) # p
           /\ \A x \in Peers : x = p \/ x = Other(p)
BY DEF Peers, Other

\* A step of p that brings it forward and sends what it has reached.
LEMMA Forward ==
    ASSUME TypeOK, TypeOK', NEW p \in Peers, NEW q, q = Other(p), Handshake(p), Handshake(q),
           hs'[q] = hs[q], nice'[q] = nice[q], ctl'[q] = ctl[q],
           hs'[p] >= hs[p] \/ nice'[p] = "gone", nice[p] = "gone" => nice'[p] = "gone",
           hs'[p] \in Turns(p), net'[p] \subseteq net[p],
           \A r \in net'[q] : r \in net[q] \/ (r \in Mine(p) /\ hs'[p] >= r),
           hs'[p] = 4 \/ ctl'[p].dtls_ready =>
               hs[p] = 4 \/ ctl[p].dtls_ready \/ Reached(q, 3)
    PROVE  Handshake(p)' /\ Handshake(q)'
<1>0. q \in Peers /\ Other(q) = p
    BY OthersAre
<1>1. hs[p] \in Int /\ hs[q] \in Int /\ hs'[p] \in Int /\ hs'[q] \in Int
  <2>1. hs[p] \in -1 .. 4 /\ hs[q] \in -1 .. 4
    BY <1>0 DEF TypeOK
  <2>2. hs'[p] \in -1 .. 4 /\ hs'[q] \in -1 .. 4
    BY <1>0 DEF TypeOK
  <2> QED BY <2>1, <2>2
<1>2. \A n \in Int : Reached(p, n) => Reached(p, n)'
    BY <1>1 DEF Reached
<1>3. \A n \in Int : Reached(q, n) => Reached(q, n)'
    BY <1>1 DEF Reached
<1>4. net[p] \subseteq Int /\ net[q] \subseteq Int /\ net'[q] \subseteq Int
  <2>1. net[p] \subseteq 1 .. 4 /\ net[q] \subseteq 1 .. 4 /\ net'[q] \subseteq 1 .. 4
    BY <1>0 DEF TypeOK
  <2> QED BY <2>1
<1>5. ASSUME NEW r \in net'[q] PROVE r \in Mine(p) /\ Reached(p, r)'
  <2>1. CASE r \in net[q]
    <3>1. r \in Mine(p) /\ Reached(p, r)
      BY <2>1 DEF Handshake
    <3> QED BY <1>2, <1>4, <3>1
  <2>2. CASE r \in Mine(p) /\ hs'[p] >= r
    BY <2>2 DEF Reached
  <2> QED BY <2>1, <2>2
<1>6. ASSUME NEW r \in net'[p] PROVE r \in Mine(q) /\ Reached(q, r)'
  <2>1. r \in Mine(q) /\ Reached(q, r)
    BY <1>0 DEF Handshake
  <2> QED BY <1>3, <1>4, <2>1
<1>7. hs'[p] = 4 \/ ctl'[p].dtls_ready => Reached(q, 3)'
  <2>1. hs'[p] = 4 \/ ctl'[p].dtls_ready => Reached(q, 3)
    BY DEF Handshake
  <2> QED BY <1>3, <2>1
<1>8. hs'[q] = 4 \/ ctl'[q].dtls_ready => Reached(p, 3)'
  <2>1. hs'[q] = 4 \/ ctl'[q].dtls_ready => Reached(p, 3)
    BY <1>0 DEF Handshake
  <2> QED BY <1>2, <2>1
<1>9. hs'[q] \in Turns(q)
    BY DEF Handshake
<1>10. Other(p)' = q /\ Other(q)' = p
    BY <1>0 DEF Other
<1> QED BY <1>0, <1>5, <1>6, <1>7, <1>8, <1>9 DEF Handshake, Turns, Mine

LEMMA HandshakeStep ==
    ASSUME TypeOK, TypeOK', NEW p \in Peers, Actions(p), KeysAreEarned(p), NEW q, q = Other(p),
           Handshake(p), Handshake(q)
    PROVE  Handshake(p)' /\ Handshake(q)'
<1> USE DEF agents, queues, counters
<1>0. q \in Peers /\ q # p
    BY OthersAre
<1>9. hs[p] >= hs[p] /\ hs[p] \in Turns(p)
  <2>1. hs[p] \in -1 .. 4
    BY DEF TypeOK
  <2> QED BY <2>1 DEF Handshake
<1>1. CASE OnNiceRecv(p)
  <2>1. PICK r \in net[p] :
              LET taken == hs[p] = r - 1
                  next == IF r = 4 THEN 4 ELSE r + 1
              IN  /\ net' = [net EXCEPT ![p] = @ \ {r},
                                   ![q] = IF taken /\ r < 4 /\ ~IsClosed(p)
                                          THEN @ \cup {next} ELSE @]
                  /\ hs' = [hs EXCEPT ![p] = IF taken THEN next ELSE @]
                  /\ nice' = [nice EXCEPT ![p] = IF taken /\ next = 4 /\ trusted
                                                 THEN "keys" ELSE @]
      BY <1>1 DEF OnNiceRecv
  <2>2. nice[p] = "loop" /\ ctl' = ctl
      BY <1>1 DEF OnNiceRecv
  <2>3. hs'[q] = hs[q] /\ nice'[q] = nice[q] /\ net'[p] = net[p] \ {r}
      BY <1>0, <2>1 DEF TypeOK
  <2>4. r \in Mine(q) /\ Reached(q, r)
      BY <1>0, OthersAre DEF Handshake
  <2>5. r \in 1 .. 4 /\ hs[p] \in -1 .. 4 /\ hs[q] \in -1 .. 4
      BY <1>0 DEF TypeOK
  <2>6. CASE hs[p] # r - 1
    <3>1. hs'[p] = hs[p] /\ net'[q] = net[q]
        BY <1>0, <2>1, <2>6 DEF TypeOK
    <3>2. hs'[p] \in Turns(p) /\ hs'[p] >= hs[p]
        BY <2>5, <3>1 DEF Handshake
    <3>3. nice[p] # "gone"
        BY <2>2
    <3> QED BY <2>2, <2>3, <3>1, <3>2, <3>3, Forward, Zenon
  <2>7. CASE hs[p] = r - 1
    <3>1. PICK n \in 1 .. 4 : n = IF r = 4 THEN 4 ELSE r + 1
        BY <2>5
    <3>2. hs'[p] = n
        BY <2>1, <2>7, <3>1 DEF TypeOK
    <3>3. \A x \in net'[q] : x \in net[q] \/ (x = n /\ r < 4)
        BY <1>0, <2>1, <2>7, <3>1 DEF TypeOK
    <3>4. (p = "o" /\ q = "a" /\ r \in {2, 4}) \/ (p = "a" /\ q = "o" /\ r \in {1, 3})
        BY <1>0, <2>4 DEF Mine, Peers
    <3>5. n \in Turns(p) /\ (r < 4 => n \in Mine(p)) /\ n >= hs[p]
        BY <2>5, <2>7, <3>1, <3>4 DEF Turns, Mine
    <3>6. n = 4 => Reached(q, 3)
        BY <2>4, <2>5, <3>1 DEF Reached
    <3>7. \A x \in net'[q] : x \in net[q] \/ (x \in Mine(p) /\ hs'[p] >= x)
        BY <3>2, <3>3, <3>5
    <3>8. hs'[p] \in Turns(p) /\ hs'[p] >= hs[p] /\ nice[p] # "gone" /\ net'[p] \subseteq net[p]
        BY <2>2, <2>3, <3>2, <3>5
    <3>9. hs'[p] = 4 \/ ctl'[p].dtls_ready => hs[p] = 4 \/ ctl[p].dtls_ready \/ Reached(q, 3)
        BY <2>2, <3>2, <3>6
    <3>10. ctl'[q] = ctl[q]
        BY <2>2
    <3> QED BY <2>3, <3>7, <3>8, <3>9, <3>10, Forward, Zenon
  <2> QED BY <2>6, <2>7
<1>2. CASE OnDtlsHandshakeDone(p)
  <2>1. /\ hs' = hs /\ net' = net /\ nice[p] = "keys" /\ nice'[q] = nice[q]
        /\ ctl'[q] = ctl[q]
      BY <1>0, <1>2 DEF OnDtlsHandshakeDone, UpdateMediaTransportState, TypeOK
  <2>2. hs[p] = 4 /\ nice[p] # "gone"
      BY <2>1 DEF KeysAreEarned
  <2>3. hs'[p] >= hs[p] /\ hs'[p] \in Turns(p)
      BY <1>9, <2>1
  <2> QED BY <2>1, <2>2, <2>3, Forward, Zenon
<1>3. CASE OnIceStateChange(p)
  <2>1. hs' = hs /\ net' = net /\ nice[p] = "state" /\ nice'[q] = nice[q]
      BY <1>0, <1>3 DEF OnIceStateChange, TypeOK
  <2>2. ctl'[q] = ctl[q] /\ (ctl'[p].dtls_ready => ctl[p].dtls_ready)
    <3>1. CASE ctl' = ctl
        BY <3>1
    <3>2. CASE \E v : UpdateNetworkAvailability(p, v)
      <4>1. PICK v : UpdateNetworkAvailability(p, v)
          BY <3>2
      <4>2. PICK k : k = [ctl[p] EXCEPT !.ice_ready = v, !.dtls_ready = @ /\ v]
          OBVIOUS
      <4>3. k.dtls_ready => ctl[p].dtls_ready
        <5>1. ctl[p] \in Flags
            BY DEF TypeOK
        <5>2. PICK b : b = (ctl[p].dtls_ready /\ v)
            OBVIOUS
        <5>3. k = [ctl[p] EXCEPT !.ice_ready = v, !.dtls_ready = b]
            BY <4>2, <5>2, Zenon
        <5>4. k.dtls_ready = b
            BY <5>1, <5>3 DEF Flags
        <5> QED BY <5>2, <5>4, Zenon
      <4>4. PICK y : ctl' = [ctl EXCEPT ![p] = [k EXCEPT !.media_ready = y]]
          BY <4>1, <4>2, Zenon DEF UpdateNetworkAvailability, UpdateMediaTransportState
      <4>5. "dtls_ready" \in DOMAIN k
        <5>1. ctl[p] \in Flags
            BY DEF TypeOK
        <5> QED BY <4>2, <5>1 DEF Flags
      <4>6. PICK j : j = [k EXCEPT !.media_ready = y]
          OBVIOUS
      <4>7. j.dtls_ready = k.dtls_ready
          BY <4>5, <4>6
      <4>8. ctl'[p] = j /\ ctl'[q] = ctl[q]
          BY <1>0, <4>4, <4>6 DEF TypeOK
      <4> QED BY <4>3, <4>7, <4>8
    <3> QED BY <1>3, <3>1, <3>2 DEF OnIceStateChange
  <2>3. nice[p] # "gone" /\ hs'[p] >= hs[p] /\ hs'[p] \in Turns(p)
      BY <1>9, <2>1
  <2> QED BY <2>1, <2>2, <2>3, Forward, Zenon
<1>4. CASE PacerTask(p) \/ CcTask(p) \/ Close(p) \/ DestroyController(p) \/ Lose(p)
  <2>1. hs' = hs /\ nice' = nice /\ ctl' = ctl /\ net'[p] \subseteq net[p] /\ net'[q] = net[q]
      BY <1>0, <1>4 DEF PacerTask, CcTask, Close, DestroyController, Lose, TypeOK
  <2>2. hs'[p] >= hs[p] /\ hs'[p] \in Turns(p)
      BY <1>9, <2>1
  <2> QED BY <2>1, <2>2, Forward, Zenon
<1>5. CASE DestroyIceAgent(p)
  <2>1. /\ hs'[p] = -1 /\ nice'[p] = "gone" /\ hs'[q] = hs[q] /\ nice'[q] = nice[q]
        /\ ctl' = ctl /\ net' = net
      BY <1>0, <1>5 DEF DestroyIceAgent, TypeOK
  <2>2. hs'[p] \in Turns(p) /\ hs'[p] # 4
      BY <2>1 DEF Turns
  <2> QED BY <2>1, <2>2, Forward, Zenon
<1>6. CASE \E s \in {"ready", "checking", "lost"} : OnNiceStateChanged(p, s)
  <2>1. nice[p] = "loop" /\ ctl' = ctl /\ nice'[q] = nice[q] /\ (StartDtls(p) \/ UNCHANGED <<hs, net>>)
      BY <1>0, <1>6 DEF OnNiceStateChanged, TypeOK
  <2>2. nice[p] # "gone"
      BY <2>1
  <2>3. CASE UNCHANGED <<hs, net>>
    <3>1. hs'[p] >= hs[p] /\ hs'[p] \in Turns(p)
        BY <1>9, <2>3
    <3> QED BY <2>1, <2>2, <2>3, <3>1, Forward, Zenon
  <2>4. CASE StartDtls(p) /\ ~UNCHANGED <<hs, net>>
    <3>1. PICK n : n = IF p = "o" THEN 1 ELSE 0
        OBVIOUS
    <3>2. /\ hs[p] = -1 /\ hs'[p] = n /\ hs'[q] = hs[q] /\ net'[p] = net[p]
          /\ \A r \in net'[q] : r \in net[q] \/ (r = 1 /\ p = "o")
        BY <1>0, <2>4, <3>1 DEF StartDtls, Send, TypeOK
    <3>3. n \in Turns(p) /\ n >= -1 /\ n # 4 /\ (p = "o" => 1 \in Mine(p) /\ n >= 1)
        BY <3>1 DEF Turns, Mine
    <3>4. \A r \in net'[q] : r \in net[q] \/ (r \in Mine(p) /\ hs'[p] >= r)
        BY <3>2, <3>3
    <3>5. hs'[p] >= hs[p] /\ hs'[p] \in Turns(p) /\ hs'[p] # 4
        BY <3>2, <3>3
    <3> QED BY <2>1, <2>2, <3>2, <3>4, <3>5, Forward, Zenon
  <2> QED BY <2>1, <2>3, <2>4
<1> QED BY <1>1, <1>2, <1>3, <1>4, <1>5, <1>6 DEF Actions

HandshakeInv == \A p \in Peers : Handshake(p)

\* The records of SSL_do_handshake: neither end gets ahead of the other by more
\* than its own flight, through losses, early records and teardown.
THEOREM HandshakeInvariance == Spec => []HandshakeInv
<1>1. ASSUME Init PROVE HandshakeInv
  <2> SUFFICES ASSUME NEW p \in Peers PROVE Handshake(p)
      BY DEF HandshakeInv
  <2>1. Other(p) \in Peers
      BY OthersAre
  <2>2. hs[p] = -1 /\ net[Other(p)] = {} /\ ctl[p].dtls_ready = FALSE
      BY <1>1, <2>1 DEF Init
  <2> QED BY <2>2 DEF Handshake, Turns
<1>2. ASSUME IInv, IInv', HandshakeInv, [Next]_vars PROVE HandshakeInv'
  <2>1. ASSUME NEW p \in Peers, Actions(p) PROVE HandshakeInv'
    <3>1. PICK q : q = Other(p) /\ q \in Peers
        BY OthersAre
    <3>2. Handshake(p) /\ Handshake(q) /\ TypeOK /\ TypeOK' /\ KeysAreEarned(p)
        BY <1>2, <3>1 DEF HandshakeInv, IInv, PeerInv
    <3>3. Handshake(p)' /\ Handshake(q)'
        BY <2>1, <3>1, <3>2, HandshakeStep
    <3> QED BY <3>1, <3>3, OthersAre DEF HandshakeInv
  <2>2. CASE UNCHANGED vars
      BY <1>2, <2>2 DEF vars, agents, HandshakeInv, Handshake, Reached
  <2> QED BY <1>2, <2>1, <2>2, NextIsActions
<1> QED BY <1>1, <1>2, Invariance, PTL DEF Spec

\* No media before the handshake with the announced certificate is done
\* (UpdateMediaTransportState, OnDtlsHandshakeDone), nor before the other end
\* has come within one flight of its end.
THEOREM KeyedMedia == Spec => []MediaIsKeyed
<1>1. IInv /\ HandshakeInv => MediaIsKeyed
  <2> SUFFICES ASSUME IInv, HandshakeInv, NEW p \in Peers, ctl[p].media_ready, Srtp(p)
               PROVE  /\ trusted
                      /\ hs[p] = 4 \/ nice[p] = "gone"
                      /\ hs[Other(p)] >= 3 \/ nice[Other(p)] = "gone"
      BY DEF MediaIsKeyed
  <2>1. KeysAreEarned(p) /\ Handshake(p)
      BY DEF IInv, PeerInv, HandshakeInv
  <2>2. ctl[p].dtls_ready
      BY <2>1, Zenon DEF KeysAreEarned, Ready
  <2>3. Reached(Other(p), 3)
      BY <2>1, <2>2, Zenon DEF Handshake
  <2> QED BY <2>1, <2>2, <2>3, Zenon DEF KeysAreEarned, Reached
<1> QED BY <1>1, Invariance, HandshakeInvariance, PTL

\* Once the tasks have run, SetTransportReady of the pacer and the network
\* availability of congestion control agree with media_ready and with the
\* component state.
THEOREM Agreement == Spec => []ControllersAgree
<1>1. IInv => ControllersAgree
  <2> SUFFICES ASSUME IInv, NEW p \in Peers, Quiet(p)
               PROVE  /\ transport_ready[p] = ctl[p].media_ready
                      /\ network_available[p] = ctl[p].media_ready
                      /\ ctl[p].media_ready => ice[p] # "lost"
                      /\ ice[p] = "ready" /\ ~Srtp(p) => ctl[p].media_ready
      BY DEF ControllersAgree
  <2>1. Served(p) /\ nice[p] # "state" /\ ~IsClosed(p)
      BY DEF Quiet, Served, IsClosed
  <2>2. PeerInv(p) /\ pacer_tasks[p] = <<>> /\ cc_tasks[p] = <<>>
      BY DEF IInv, Quiet
  <2>3. transport_ready[p] = ctl[p].media_ready
      BY <2>1, <2>2, Zenon DEF PeerInv, PacerIsTold
  <2>4. network_available[p] = ctl[p].media_ready
      BY <2>1, <2>2, Zenon DEF PeerInv, CcIsTold
  <2>5. /\ ctl[p].media_ready => ice[p] # "lost"
        /\ ice[p] = "ready" /\ ~Srtp(p) => ctl[p].media_ready
      BY <2>1, <2>2, Zenon DEF PeerInv, PathIsKnown, KeysAreEarned, Ready
  <2> QED BY <2>3, <2>4, <2>5
<1> QED BY <1>1, Invariance, PTL
=============================================================================
