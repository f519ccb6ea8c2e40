---------------------------- MODULE PacedSender ----------------------------
(* PacedSender, PacingController and BitrateProber: when packets, keep-alive *)
(* padding and probes leave.  All of it runs on the pacer queue, one task at *)
(* a time; what is hard is that the pacer must re-arm its own timer, leave   *)
(* its two processing loops, and never let a probe that cannot be sent hold  *)
(* up the rest, whatever the order of rate, congestion and transport events. *)
(*                                                                           *)
(* Time is relative: every instant is kept as its distance to now, ages are  *)
(* capped once they pass every threshold, and Tick advances the clock when   *)
(* the queue is idle.  A task may run up to MaxLate ticks late.  Sizes are   *)
(* in packets.  The drain rule for long queues (a rate computed from the     *)
(* average queue time) is reduced to: more than LongQueue packets double the *)
(* rate.  The key frame flush is in VideoSender.  Clusters are asked for at  *)
(* the present time; the one case in which they are not is in Probing.  Two  *)
(* guards of the send loop are left out: the one against a clock that was    *)
(* set forward (kMaxPaddingReplayDuration) and the limit of 2^16 rounds.     *)
EXTENDS Integers, Sequences

CONSTANTS
    kPausedProcessInterval,   \* also kCongestedPacketInterval
    kProbeClusterTimeout,
    kMaxPendingProbeClusters,
    kMaxEarlyProbeProcessing,
    kMaxDebtInTime,
    kMaxElapsedTime,
    HoldBack,                 \* hold_back_window
    Burst,                    \* send_burst_interval_
    ProbeDelta, ProbeSize,    \* min_probe_delta, RecommendedMinProbeSize
    ProbeBytes, ProbeCount,   \* what completes a cluster
    AllowedProbeDelay,        \* schedule delay that aborts a cluster
    PacingRate,
    PaddingRates,             \* padding rates SetPacingRates may be given
    LongQueue,
    MaxLate,                  \* bound: ticks a due task may be late
    MaxQueue,                 \* bound: packets in the pacer queue
    MaxBatch                  \* bound: packets of one EnqueuePackets

Least(s, t) == IF s <= t THEN s ELSE t
Most(s, t) == IF s >= t THEN s ELSE t

\* What a cluster sends at most, and how long that takes at its rate.
ClusterBytes == Most(ProbeBytes - 1, (ProbeCount - 1) * ProbeSize) + ProbeSize
ClusterSpan == (ClusterBytes * ProbeDelta) \div ProbeSize

\* In the code 500 ms, 5 s, 5 clusters, 1 ms, 500 ms, 2 s; a hold back of some
\* milliseconds; clusters of 5 probes or 15 to 100 ms, 2 or 20 ms apart.
ASSUME PacerAssumption ==
    /\ {kPausedProcessInterval, kProbeClusterTimeout, kMaxPendingProbeClusters,
        kMaxEarlyProbeProcessing, kMaxDebtInTime, kMaxElapsedTime, HoldBack, Burst,
        ProbeDelta, ProbeSize, ProbeBytes, ProbeCount, AllowedProbeDelay, PacingRate,
        LongQueue, MaxLate, MaxQueue, MaxBatch} \subseteq Nat
    /\ PaddingRates \subseteq Nat
    /\ kPausedProcessInterval > HoldBack /\ HoldBack > 0
    /\ kMaxElapsedTime > kPausedProcessInterval
    /\ kMaxPendingProbeClusters > 0 /\ ProbeCount > 0 /\ ProbeSize > 0 /\ PacingRate > 0
    /\ ProbeDelta > kMaxEarlyProbeProcessing

\* A cluster is over before the next keep-alive.
ASSUME ClusterAssumption ==
    ClusterSpan <= kPausedProcessInterval + kMaxEarlyProbeProcessing

\* Beyond every instant that occurs.
MinusInfinity == -(2 + AllowedProbeDelay + MaxLate)
PlusInfinity == 1 + kPausedProcessInterval + kMaxEarlyProbeProcessing + kProbeClusterTimeout
IsFinite(t) == t \notin {MinusInfinity, PlusInfinity}

VARIABLES
    is_started, transport_ready,
    next_process_time,   \* distance to it, MinusInfinity when no task is valid
    delayed_tasks,       \* distances of the delayed tasks in the task queue
    controller,          \* the PacingController, its prober included
    pc,                  \* "idle", or where MaybeProcessPackets is
    loop,                \* locals of the send loop
    then,                \* what the running closure does after processing
    can_pad,             \* GeneratePadding has a stream to pad
    silence              \* history variable: ticks since a packet really left,
                         \* counted while a keep-alive would have one to send

pacer_vars == <<is_started, transport_ready, next_process_time, delayed_tasks,
                controller, pc, loop, then, can_pad, silence>>
-----------------------------------------------------------------------------
(* BitrateProber                                                             *)

Cluster == [age |-> 0, bytes |-> 0, probes |-> 0, started |-> 0]

Inactive(b) == [b EXCEPT !.active = FALSE]

AbortProbing(b) ==
    [b EXCEPT !.clusters = <<>>, !.next = PlusInfinity, !.active = FALSE]

\* A waiting cluster starts at once when padding may stand in for media, else
\* with the first large enough packet.
MaybeSetActiveState(b, large) ==
    IF b.clusters # <<>> /\ ~b.active /\ (b.allow \/ large)
    THEN [b EXCEPT !.next = MinusInfinity, !.active = TRUE]
    ELSE b

FrontExpired(b) == b.clusters # <<>> /\ b.clusters[1].age >= kProbeClusterTimeout

Live(q) == {i \in DOMAIN q : q[i].age < kProbeClusterTimeout}
FirstLive(q) == CHOOSE i \in Live(q) : \A j \in Live(q) : i <= j

\* Clusters leave at the front until one is found that has not expired.
RemoveExpiredClusters(b) ==
    IF ~FrontExpired(b) THEN b
    ELSE IF Live(b.clusters) = {} THEN AbortProbing(b)
    ELSE [b EXCEPT !.clusters = SubSeq(@, FirstLive(@), Len(@)),
                   !.next = IF b.active THEN MinusInfinity ELSE b.next]

CreateProbeCluster(b) ==
    LET e == RemoveExpiredClusters(b)
        kept == IF Len(e.clusters) < kMaxPendingProbeClusters THEN e.clusters
                ELSE Tail(e.clusters)
    IN  MaybeSetActiveState([e EXCEPT !.clusters = Append(kept, Cluster)], FALSE)

NextClusterExpiration(b) ==
    IF b.clusters = <<>> THEN PlusInfinity
    ELSE kProbeClusterTimeout - b.clusters[1].age

\* A probe that is overdue by more than the allowed delay is given up.
CurrentCluster(b) ==
    IF IsFinite(b.next) /\ -b.next > AllowedProbeDelay
    THEN LET d == [b EXCEPT !.clusters = Tail(b.clusters)]
         IN  IF d.clusters = <<>> THEN Inactive(d) ELSE d
    ELSE b

BookProbe(b, data) ==
    LET k == b.clusters[1]
        s == [k EXCEPT !.bytes = k.bytes + data, !.probes = k.probes + 1,
                       !.started = IF k.probes = 0 THEN 0 ELSE k.started]
        done == s.bytes >= ProbeBytes /\ s.probes >= ProbeCount
        calc == (s.bytes * ProbeDelta) \div ProbeSize - s.started
    IN  [b EXCEPT !.next = Most(calc, ProbeDelta),
                  !.clusters = IF done THEN Tail(b.clusters)
                               ELSE [b.clusters EXCEPT ![1] = s]]

ProbeSent(b, data) ==
    LET n == BookProbe(b, data)
    IN  IF n.clusters = <<>> THEN Inactive(n) ELSE n
-----------------------------------------------------------------------------
(* PacingController: pure operations                                         *)

NoPacket == -1
Unpaced(d) == d.rtx # NoPacket
Empty(d) == d.queue = 0 /\ ~Unpaced(d)

\* Mutant: a debt smaller than a tick counts as none.
PaddingDrainTimeFloors(d) ==
    Most(d.media_debt \div d.rate, d.padding_debt \div d.padding_rate)

\* Time to wait before the debts are paid off; never zero while there is one.
PaddingDrainTime(d) ==
    LET t == Most(d.media_debt \div d.rate, d.padding_debt \div d.padding_rate)
    IN  IF t = 0 /\ d.media_debt + d.padding_debt > 0 THEN 1 ELSE t

\* Mutant: the interval runs from the last time packets were processed.
KeepaliveTimeProcessed(d) == kPausedProcessInterval - d.since_process
KeepaliveTime(d) == kPausedProcessInterval - d.since_send

ProbeTime(d) == IF d.prober.next = MinusInfinity THEN 0 ELSE d.prober.next

ProbeFirst(d) == d.prober.active /\ ~d.probing_send_failure

PacedTime(d) ==
    LET drain == d.media_debt \div d.rate
    IN  Least(KeepaliveTime(d),
              (IF d.queue > 0 THEN (IF Burst > drain THEN 0 ELSE drain)
               ELSE IF d.padding_rate > 0 THEN PaddingDrainTime(d)
               ELSE kPausedProcessInterval) - d.since_process)

NextSendTime(d) ==
    Least(NextClusterExpiration(d.prober),
          IF d.paused THEN KeepaliveTime(d)
          ELSE IF ProbeFirst(d) THEN ProbeTime(d)
          ELSE IF Unpaced(d) THEN -d.rtx
          ELSE IF d.congested \/ ~d.seen_first_packet THEN KeepaliveTime(d)
          ELSE PacedTime(d))

\* UpdateTimeAndGetElapsed and UpdateBudgetWithElapsedTime, up to time t.
Elapse(d, t) ==
    IF t + d.since_process < 0 THEN d
    ELSE LET e == Least(t + d.since_process, kMaxElapsedTime)
         IN  [d EXCEPT !.since_process = -t,
                       !.media_debt = Most(0, @ - d.rate * e),
                       !.padding_debt = Most(0, @ - d.padding_rate * e)]

UpdatePaddingBudgetWithSentData(d, size) ==
    [d EXCEPT !.padding_debt = Least(@ + size, d.padding_rate * kMaxDebtInTime)]

OnPacketSent(d, size) ==
    LET sent == [d EXCEPT !.since_send = 0]
    IN  IF size = 0 THEN sent
        ELSE UpdatePaddingBudgetWithSentData(
                 [sent EXCEPT !.media_debt = Least(@ + size, d.rate * kMaxDebtInTime)],
                 size)

MaybeUpdateMediaRateDueToLongQueue(d) ==
    [d EXCEPT !.rate = IF d.queue > LongQueue THEN 2 * PacingRate ELSE PacingRate]

ClearProbingSendFailure(d) == [d EXCEPT !.probing_send_failure = FALSE]

\* Mutant: new packets do not wake a blocked probe.
EnqueueProbesBlocked(d, large) ==
    [d EXCEPT !.prober = MaybeSetActiveState(d.prober, large)]

EnqueueProbes(d, large) ==
    LET b == MaybeSetActiveState(d.prober, large)
    IN  [d EXCEPT !.prober = b,
                  !.probing_send_failure = @ /\ ~b.active]

\* An empty queue fast-forwards the accounting to now, or to the planned send.
EnqueuePacket(d, kind) ==
    LET p == EnqueueProbes(d, kind # "padding")
        e == IF Empty(p) THEN Elapse(p, Least(0, NextSendTime(p))) ELSE p
        q == IF kind = "rtx" THEN [e EXCEPT !.rtx = 0] ELSE [e EXCEPT !.queue = @ + 1]
    IN  MaybeUpdateMediaRateDueToLongQueue([q EXCEPT !.seen_first_packet = TRUE])

\* n packets of one kind, one after the other: what the first one wakes is awake
\* for the others, which find a queue that is not empty.
EnqueueBatch(d, kind, n) ==
    MaybeUpdateMediaRateDueToLongQueue([EnqueuePacket(d, kind) EXCEPT !.queue = @ + (n - 1)])

SetCongested(d, congested) ==
    LET cleared == d.congested /\ ~congested
        e == IF cleared THEN Elapse(d, 0) ELSE d
    IN  [e EXCEPT !.congested = congested,
                  !.probing_send_failure = @ /\ ~cleared]

SetAllowProbeWithoutMediaPacket(d, allow) ==
    LET b == MaybeSetActiveState([d.prober EXCEPT !.allow = allow], FALSE)
    IN  [d EXCEPT !.prober = b,
                  !.probing_send_failure = @ /\ ~(allow /\ b.active)]

Resume(d) ==
    [d EXCEPT !.paused = FALSE,
              !.since_process = IF d.paused THEN 0 ELSE d.since_process]

\* ShouldSendKeepalive, and whether there is a packet to send: not before the
\* first one, nor without a stream that pads.
KeepaliveDue(d) == d.since_send >= kPausedProcessInterval
KeepalivePacket(d) == d.seen_first_packet /\ can_pad

\* Sent every interval even when nothing else is.  It counts as a send for the
\* code, which starts a new interval, even when no packet could be made.
SendKeepalive(d) ==
    IF KeepaliveDue(d) THEN OnPacketSent(d, IF KeepalivePacket(d) THEN 1 ELSE 0) ELSE d

PaddingToAdd(d, rec, data) ==
    IF ~Empty(d) \/ d.congested THEN 0
    ELSE IF rec > 0 THEN Most(0, rec - data)
    ELSE IF d.padding_rate > 0 /\ d.padding_debt = 0 THEN d.padding_rate ELSE 0
-----------------------------------------------------------------------------
(* PacedSender::MaybeProcessPackets                                          *)

Margin(d) == IF d.prober.active THEN kMaxEarlyProbeProcessing ELSE 0
NoLoop == [is_probing |-> FALSE, rec |-> 0, data |-> 0, bytes |-> 0]

\* The call with no scheduled time, at the end of most closures.
MaybeProcess(started, ready) ==
    IF started /\ ready THEN pc' = "schedule" ELSE pc' = "idle"

WithoutExpired(d) ==
    [d EXCEPT !.prober = RemoveExpiredClusters(@),
              !.probing_send_failure = @ /\ ~FrontExpired(d.prober)]

TakeCurrentCluster(d) ==
    IF d.prober.active THEN [d EXCEPT !.prober = CurrentCluster(@)] ELSE d

\* One round of the while loop: keep-alive, expired clusters, then either too
\* early or into the send loop.
ProcessPackets ==
    /\ pc = "schedule" /\ NextSendTime(controller) <= Margin(controller)
    /\ \E d \in {SendKeepalive(WithoutExpired(controller))} : \E t \in {NextSendTime(d)} :
         IF Margin(d) < t
         THEN /\ controller' = Elapse(d, 0)
              /\ UNCHANGED <<pc, loop>>
         ELSE \E e \in {TakeCurrentCluster(Elapse(d, t))} :
                /\ controller' = e
                /\ pc' = "send"
                /\ loop' = IF e.prober.active
                           THEN [is_probing |-> TRUE, rec |-> ProbeSize, data |-> 0,
                                 bytes |-> e.prober.clusters[1].bytes]
                           ELSE NoLoop
    /\ silence' = IF KeepaliveDue(controller) /\ KeepalivePacket(controller) THEN 0 ELSE silence
    /\ UNCHANGED <<is_started, transport_ready, next_process_time, delayed_tasks,
                   then, can_pad>>

\* After the send loop: an unsendable probe is marked, a sent one booked.
LeaveSendLoop(d, l) ==
    MaybeUpdateMediaRateDueToLongQueue(
        IF ~l.is_probing THEN d
        ELSE IF l.data = 0 THEN [d EXCEPT !.probing_send_failure = TRUE]
        ELSE [d EXCEPT !.probing_send_failure = FALSE,
                       !.prober = ProbeSent(@, l.data)])

\* GetPendingPacket: the small padding that opens a probe, a packet exempt
\* from pacing, a packet of the queue, or none.
Pending(d, l) ==
    IF l.is_probing /\ l.bytes = 0 /\ can_pad THEN "opener"
    ELSE IF Unpaced(d) THEN "rtx"
    ELSE IF d.queue > 0 /\ (l.is_probing \/ ~d.congested) THEN "paced"
    ELSE "none"

Taken(d, l) ==
    CASE Pending(d, l) = "rtx" -> [d EXCEPT !.rtx = NoPacket]
      [] Pending(d, l) = "paced" -> [d EXCEPT !.queue = @ - 1]
      [] OTHER -> d

\* One round of the send loop that finds a packet.
SendPacket ==
    /\ pc = "send" /\ Pending(controller, loop) # "none"
    /\ \E d \in {OnPacketSent(Taken(controller, loop), 1)} : \E t \in {NextSendTime(d)} :
         LET l == [loop EXCEPT !.data = @ + 1,
                               !.bytes = IF loop.is_probing THEN 1 ELSE @]
             break == IF l.is_probing THEN l.data >= l.rec ELSE t > 0
         IN  /\ controller' = IF break THEN LeaveSendLoop(d, l) ELSE Elapse(d, Least(t, 0))
             /\ pc' = IF break THEN "schedule" ELSE "send"
             /\ loop' = IF break THEN NoLoop ELSE l
    /\ silence' = 0
    /\ UNCHANGED <<is_started, transport_ready, next_process_time, delayed_tasks,
                   then, can_pad>>

\* One that finds none: padding is generated, or the loop ends.
GeneratePadding ==
    /\ pc = "send" /\ Pending(controller, loop) = "none"
    /\ LET n == PaddingToAdd(controller, loop.rec, loop.data)
       IN  IF n > 0 /\ can_pad
           THEN /\ controller' = EnqueueBatch(controller, "padding", n)
                /\ UNCHANGED <<pc, loop>>
           ELSE /\ controller' = LeaveSendLoop(UpdatePaddingBudgetWithSentData(controller, n), loop)
                /\ pc' = "schedule"
                /\ loop' = NoLoop
    /\ UNCHANGED <<is_started, transport_ready, next_process_time, delayed_tasks,
                   then, can_pad, silence>>

\* Mutant: an armed timer is left as it is.
RearmNever(t) == next_process_time = MinusInfinity

RearmNeeded(t) == next_process_time = MinusInfinity \/ next_process_time > t

\* The loop is left: arm the timer unless an earlier one is armed, then go on
\* with the closure.  The task of a later one would find its time changed and
\* return; it is taken out here.
Reschedule ==
    /\ pc = "schedule" /\ NextSendTime(controller) > Margin(controller)
    /\ LET t == Most(IF controller.prober.active THEN 0 ELSE HoldBack,
                     NextSendTime(controller) - Margin(controller))
       IN  IF RearmNeeded(t)
           THEN /\ next_process_time' = t
                /\ delayed_tasks' = (delayed_tasks \ {next_process_time}) \cup {t}
           ELSE UNCHANGED <<next_process_time, delayed_tasks>>
    /\ pc' = IF then = "nothing" THEN "idle" ELSE "then"
    /\ UNCHANGED <<is_started, transport_ready, controller, loop, then, can_pad, silence>>

\* A delayed task runs: only the one the pacer waits for does anything.
DelayedTask ==
    /\ pc = "idle"
    /\ \E t \in delayed_tasks :
         /\ t <= 0
         /\ delayed_tasks' = delayed_tasks \ {t}
         /\ IF is_started /\ transport_ready /\ t = next_process_time
            THEN /\ next_process_time' = MinusInfinity
                 /\ pc' = "schedule"
            ELSE UNCHANGED <<next_process_time, pc>>
    /\ UNCHANGED <<is_started, transport_ready, controller, loop, then, can_pad, silence>>
-----------------------------------------------------------------------------
(* Closures posted to the pacer queue                                        *)

EnqueuePackets ==
    /\ pc = "idle"
    /\ \/ \E n \in 1 .. MaxBatch : /\ controller.queue + n <= MaxQueue
                                   /\ controller' = EnqueueBatch(controller, "media", n)
       \/ /\ ~Unpaced(controller)
          /\ controller' = EnqueuePacket(controller, "rtx")
    /\ MaybeProcess(is_started, transport_ready)
    /\ UNCHANGED <<is_started, transport_ready, next_process_time, delayed_tasks,
                   loop, then, can_pad, silence>>

\* Discarded while the transport is not ready.
CreateProbeClusters ==
    /\ pc = "idle" /\ transport_ready
    /\ controller' = ClearProbingSendFailure([controller EXCEPT !.prober = CreateProbeCluster(@)])
    /\ MaybeProcess(is_started, transport_ready)
    /\ UNCHANGED <<is_started, transport_ready, next_process_time, delayed_tasks,
                   loop, then, can_pad, silence>>

CongestionChanges ==
    /\ pc = "idle"
    /\ controller' = SetCongested(controller, ~controller.congested)
    /\ MaybeProcess(is_started, transport_ready)
    /\ UNCHANGED <<is_started, transport_ready, next_process_time, delayed_tasks,
                   loop, then, can_pad, silence>>

SetPacingRates ==
    /\ pc = "idle"
    /\ \E r \in PaddingRates :
         controller' = MaybeUpdateMediaRateDueToLongQueue([controller EXCEPT !.padding_rate = Least(r, PacingRate)])
    /\ MaybeProcess(is_started, transport_ready)
    /\ UNCHANGED <<is_started, transport_ready, next_process_time, delayed_tasks,
                   loop, then, can_pad, silence>>

\* The closure of UpdateMediaTransportState: SetAllowProbeWithoutMediaPacket,
\* which processes, then SetTransportReady and EnsureStarted.
UpdateMediaTransportState ==
    /\ pc = "idle"
    /\ controller' = SetAllowProbeWithoutMediaPacket(controller, ~transport_ready /\ can_pad)
    /\ then' = IF transport_ready THEN "not ready" ELSE "ready"
    /\ pc' = IF is_started /\ transport_ready THEN "schedule" ELSE "then"
    /\ UNCHANGED <<is_started, transport_ready, next_process_time, delayed_tasks,
                   loop, can_pad, silence>>

TransportNotReady ==
    /\ transport_ready' = FALSE
    /\ controller' = [controller EXCEPT !.prober = AbortProbing(@), !.probing_send_failure = FALSE,
                      !.paused = TRUE]
    /\ next_process_time' = MinusInfinity
    /\ pc' = "idle"
    /\ UNCHANGED is_started

TransportReady ==
    /\ transport_ready' = TRUE
    /\ is_started' = TRUE
    /\ controller' = Resume(controller)
    /\ pc' = "schedule"
    /\ UNCHANGED next_process_time

SetTransportReady ==
    /\ pc = "then"
    /\ \/ then = "ready" /\ TransportReady
       \/ then = "not ready" /\ TransportNotReady
    /\ then' = "nothing"
    /\ UNCHANGED <<delayed_tasks, loop, can_pad, silence>>

\* The clock: nothing in the queue is overdue by more than MaxLate.
Tick ==
    /\ pc = "idle"
    /\ \A t \in delayed_tasks : t > -MaxLate
    /\ delayed_tasks' = {t - 1 : t \in delayed_tasks}
    /\ next_process_time' = IF next_process_time = MinusInfinity
                            THEN MinusInfinity ELSE next_process_time - 1
    /\ LET older(k) == [k EXCEPT !.age = Least(@ + 1, kProbeClusterTimeout + MaxLate + HoldBack),
                                 !.started = Least(@ + 1, kProbeClusterTimeout)]
           b == [controller.prober EXCEPT !.clusters = [i \in DOMAIN @ |-> older(@[i])],
                                 !.next = IF IsFinite(@)
                                          THEN Most(@ - 1, -AllowedProbeDelay - 1)
                                          ELSE @]
           top == kPausedProcessInterval + HoldBack + MaxLate + 1
       IN  /\ controller' = [controller EXCEPT !.prober = b,
                             !.since_send = Least(@ + 1, top),
                             !.since_process = Least(@ + 1, kMaxElapsedTime),
                             !.rtx = IF @ = NoPacket THEN @
                                     ELSE 1]
           /\ silence' = IF KeepalivePacket(controller) THEN Least(silence + 1, top) ELSE 0
    /\ UNCHANGED <<is_started, transport_ready, pc, loop, then, can_pad>>
-----------------------------------------------------------------------------
PacerInit ==
    /\ is_started = FALSE /\ transport_ready = FALSE
    /\ next_process_time = MinusInfinity /\ delayed_tasks = {}
    /\ controller = [media_debt |-> 0, padding_debt |-> 0, rate |-> PacingRate,
            padding_rate |-> 0, since_send |-> 0, since_process |-> 0,
            queue |-> 0, rtx |-> NoPacket, seen_first_packet |-> FALSE,
            congested |-> FALSE, paused |-> FALSE, probing_send_failure |-> FALSE,
            prober |-> [clusters |-> <<>>, active |-> FALSE,
                        next |-> PlusInfinity, allow |-> FALSE]]
    /\ pc = "idle" /\ loop = NoLoop /\ then = "nothing"
    /\ can_pad \in BOOLEAN /\ silence = 0

Processing == ProcessPackets \/ SendPacket \/ GeneratePadding \/ Reschedule
              \/ SetTransportReady

PacerNext == \/ Processing \/ DelayedTask \/ Tick
        \/ EnqueuePackets \/ CreateProbeClusters \/ CongestionChanges
        \/ SetPacingRates \/ UpdateMediaTransportState

\* A task that runs goes on; nothing else has to happen.
PacerSpec == PacerInit /\ [][PacerNext]_pacer_vars /\ WF_pacer_vars(Processing)
-----------------------------------------------------------------------------
(* Properties                                                                *)

Times == -MaxLate .. PlusInfinity

\* Every variable has its type: debts within kMaxDebtInTime, no more clusters
\* than the queue of the prober takes, and none while nothing is ready.
PacerTypeOK ==
    /\ {is_started, transport_ready, can_pad} \subseteq BOOLEAN
    /\ next_process_time \in Times \cup {MinusInfinity}
    /\ delayed_tasks \subseteq Times /\ silence \in Nat
    /\ controller.media_debt \in 0 .. 2 * PacingRate * kMaxDebtInTime
    /\ controller.padding_debt \in Nat /\ controller.queue \in 0 .. MaxQueue + ProbeSize + PacingRate
    /\ Len(controller.prober.clusters) <= kMaxPendingProbeClusters
    /\ controller.prober.active => controller.prober.clusters # <<>>
    /\ pc \in {"idle", "schedule", "send", "then"}
    /\ then \in {"nothing", "ready", "not ready"}

Working == pc = "idle" /\ is_started /\ transport_ready

\* The pacer never loses its timer: between tasks, as long as the transport is
\* ready, the task it waits for is in the queue, through lost and recovered
\* transports and retired timers.
TimerIsArmed == Working => next_process_time \in delayed_tasks

\* The peer hears from a ready transport that has a stream to pad: from the
\* first packet on, a packet really leaves at least every 500 ms, congested,
\* blocked on a probe or not, so that feedback can end the congestion.  It is
\* not what the code measures: last_send_time_ moves with every keep-alive
\* that was due, and without such a stream no packet leaves with it.
KeepsAlive ==
    Working /\ can_pad => silence <= kPausedProcessInterval + HoldBack + MaxLate

\* No probe cluster outlives its timeout, sendable or not, and none survives
\* the transport.
ClustersExpire ==
    Working => \A i \in DOMAIN controller.prober.clusters :
                  controller.prober.clusters[i].age < kProbeClusterTimeout + HoldBack + MaxLate

\* A probe is held back only while there is nothing to send it with: a packet,
\* the end of congestion and a stream that can pad each wake it up.
BlockedProbeIsHopeless ==
    pc = "idle" /\ controller.prober.active /\ controller.probing_send_failure =>
        Empty(controller) /\ (controller.congested \/ ~can_pad)

\* Nothing that becomes sendable waits for a timer armed for something later:
\* after every rate, congestion, queue or probe change the armed task is due
\* no later than the next packet, padding, probe or keep-alive.
TimerIsTimely ==
    Working => next_process_time <= Most(HoldBack, NextSendTime(controller) - Margin(controller))

\* The pacer is woken when it has something to do.
TimerIsRight == PacerTypeOK /\ TimerIsArmed /\ TimerIsTimely

\* Probes neither stay for ever nor are held back for ever.
ProbesMoveOn == ClustersExpire /\ BlockedProbeIsHopeless

\* Both processing loops end with the clock standing still, or else wait for
\* it no longer than kMaxEarlyProbeProcessing: a probe that is held back widens
\* the loop's margin for everything that is due.
WaitsForClock == NextSendTime(controller) > 0
ProcessingEnds == pc # "idle" ~> (pc = "idle" \/ WaitsForClock)
=============================================================================
