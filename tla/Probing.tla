------------------------------- MODULE Probing -------------------------------
(* CongestionControl with its ProbeController: when the sender asks for      *)
(* bandwidth probes, and how fast.  Both run on the congestion control queue *)
(* of IceTransportController; what is hard is the order of the tasks that    *)
(* libnice, the feedback queue and the 25 ms timer post there: the network   *)
(* comes and goes, the path moves between direct and relay, and estimates    *)
(* arrive in the middle of all that.                                         *)
(*                                                                           *)
(* Time is in ticks and relative: instants are kept as ages, which stop at   *)
(* Old, past every threshold.  The initial constraints carry the time        *)
(* PlusInfinity; a probing that is started with it has the age Timeless.     *)
(* The estimators are external: they choose the target rate and what limits  *)
(* it.  Allocation probes, network state estimates and a change of the       *)
(* maximum rate have no caller and are left out.                             *)
EXTENDS Integers, Sequences, FiniteSets

CONSTANTS
    kMaxWaitingTimeForProbingResult,
    kBitrateDropTimeout, kAlrEndedTimeout, kMinTimeBetweenAlrProbes,
    DirectRepeatPeriod, RelayRepeatPeriod,   \* repeated_initial_probing_time_period
    DirectAlrInterval, RelayAlrInterval,     \* alr_probing_interval
    DirectStart, RelayStart,                 \* starting rates
    MaxRate,                                 \* kDefaultMaxNetworkBitrateBps
    Rates,                                   \* rates an estimate may have
    MaxChanges                               \* bound: events from outside

Least(s, t) == IF s <= t THEN s ELSE t
Most(s, t) == IF s >= t THEN s ELSE t

Old == 1 + Most(Most(Most(kBitrateDropTimeout, kAlrEndedTimeout),
                     Most(kMinTimeBetweenAlrProbes, kMaxWaitingTimeForProbingResult)),
                Most(DirectAlrInterval, RelayAlrInterval))
Timeless == -1      \* age of PlusInfinity, and of no time at all
Forever == Old + 1  \* PlusInfinity as time left
Unlimited == 100 * MaxRate   \* DataRate::PlusInfinity

ASSUME ProbingAssumption ==
    /\ {kMaxWaitingTimeForProbingResult, kBitrateDropTimeout, kAlrEndedTimeout,
        kMinTimeBetweenAlrProbes, DirectRepeatPeriod, RelayRepeatPeriod,
        DirectAlrInterval, RelayAlrInterval, DirectStart, RelayStart, MaxRate} \subseteq Nat
    /\ DirectStart > 0 /\ RelayStart > 0 /\ RelayStart <= DirectStart
    /\ Rates \subseteq 1 .. MaxRate
    /\ DirectRepeatPeriod <= Old /\ RelayRepeatPeriod <= Old
    /\ MaxChanges \in Nat

VARIABLES
    network_available, relay_path,
    initial_config,   \* not yet applied
    probe_controller, \* the ProbeController
    bwe,              \* the estimators: target rate and cause
    last_target, moved,   \* last reported target; something else has changed
    detector,         \* AlrDetector: age of the region, or Timeless
    previously_in_alr,
    processed,        \* OnProcessInterval has run in this tick
    changes

probing_vars == <<network_available, relay_path, initial_config, probe_controller, bwe,
                  last_target, moved, detector, previously_in_alr, processed, changes>>

Causes == {"DelayBasedLimited", "LossLimitedBweIncreasing", "Limited"}

\* The profiles of the paths; scales in per cent.
DirectConfig ==
    [first |-> 300, second |-> 600, further |-> 200, threshold |-> 70, alr |-> 200,
     loss_limited |-> 150, start |-> DirectStart, repeat |-> DirectRepeatPeriod,
     interval |-> DirectAlrInterval]

RelayConfig ==
    [first |-> 200, second |-> 400, further |-> 150, threshold |-> 85, alr |-> 150,
     loss_limited |-> 125, start |-> RelayStart, repeat |-> RelayRepeatPeriod,
     interval |-> RelayAlrInterval]

Config(relay) == IF relay THEN RelayConfig ELSE DirectConfig

Scaled(rate, percent) == (rate * percent) \div 100
-----------------------------------------------------------------------------
(* ProbeController.  cfg is Config(relay) of the handler that is running.    *)

\* Nothing is sent, and nothing changes, in a bandwidth limited state.  age is
\* 0, or Timeless.
InitiateProbing(p, cfg, age, rates, probe_further, why) ==
    LET top == IF p.cause = "LossLimitedBweIncreasing"
               THEN Least(MaxRate, Scaled(p.estimated, cfg.loss_limited))
               ELSE MaxRate
        capped == [i \in DOMAIN rates |-> Least(rates[i], top)]
        further == probe_further /\ \A i \in DOMAIN rates : rates[i] < top
    IN  IF p.cause = "Limited" THEN p
        ELSE [p EXCEPT !.sent = @ \cup {[rate |-> capped[i], why |-> why,
                                         of |-> p.estimated] : i \in DOMAIN rates},
                       !.age = age,
                       !.state = IF further THEN "waiting" ELSE "complete",
                       !.min_further = IF further
                                       THEN Scaled(capped[Len(rates)], cfg.threshold)
                                       ELSE Unlimited]

InitiateExponentialProbing(p, cfg, age) ==
    InitiateProbing(
        [p EXCEPT !.last_allowed = IF ~p.repeated THEN @
                                   ELSE IF age = Timeless THEN Forever ELSE cfg.repeat],
        cfg, age, <<Scaled(p.start, cfg.first), Scaled(p.start, cfg.second)>>, TRUE,
        "initial")

SetBitrates(p, cfg, start, age) ==
    LET q == [p EXCEPT !.start = start, !.estimated = start]
    IN  IF q.state = "init" /\ q.available
        THEN InitiateExponentialProbing(q, cfg, age) ELSE q

ProbeOnNetworkAvailability(p, cfg, available) ==
    LET q == [p EXCEPT !.available = available]
    IN  IF ~available
        THEN [q EXCEPT !.state = "init", !.min_further = Unlimited, !.last_allowed = 0]
        ELSE IF ~p.available /\ q.state = "init" /\ q.start # 0
             THEN InitiateExponentialProbing(q, cfg, 0)
             ELSE q

EnableRepeatedInitialProbing(p, enable) ==
    [p EXCEPT !.repeated = enable, !.last_allowed = IF enable THEN @ ELSE 0]

SetEstimatedBitrate(p, cfg, rate, cause) ==
    LET drop == rate * 100 < 66 * p.estimated
        q == [p EXCEPT !.cause = cause, !.estimated = rate,
                       !.since_drop = IF drop THEN 0 ELSE @,
                       !.before_drop = IF drop THEN p.estimated ELSE @]
    IN  IF q.state = "waiting" /\ rate > q.min_further
        THEN InitiateProbing(q, cfg, 0, <<Scaled(rate, cfg.further)>>, TRUE, "further")
        ELSE q

\* After a drop that came in an application limited region.
RequestProbe(p, cfg) ==
    LET suggested == Scaled(p.before_drop, 85)
    IN  IF /\ p.alr # Timeless \/ p.alr_end < kAlrEndedTimeout
           /\ p.state = "complete"
           /\ Scaled(suggested, 95) > p.estimated
           /\ p.since_drop < kBitrateDropTimeout
           /\ p.since_request > kMinTimeBetweenAlrProbes
        THEN InitiateProbing([p EXCEPT !.since_request = 0], cfg, 0, <<suggested>>,
                             FALSE, "recovery")
        ELSE p

TimeForAlrProbe(p, cfg) ==
    p.periodic /\ p.alr # Timeless /\ Least(p.alr, p.age) >= cfg.interval

TimeForNextRepeatedInitialProbe(p) ==
    p.repeated /\ p.last_allowed > 0 /\ p.age >= kMaxWaitingTimeForProbingResult

\* Mutant: a wait ends only by a result.
TimedOutNever(p) == p

TimedOut(p) ==
    IF p.state = "waiting" /\ p.age > kMaxWaitingTimeForProbingResult
    THEN [p EXCEPT !.state = "complete", !.min_further = Unlimited] ELSE p

Process(p, cfg) ==
    LET q == TimedOut(p)
    IN  IF q.estimated = 0 \/ q.state # "complete" THEN q
        ELSE IF TimeForNextRepeatedInitialProbe(q)
        THEN InitiateProbing(q, cfg, 0, <<Scaled(q.estimated, cfg.first)>>, TRUE, "initial")
        ELSE IF TimeForAlrProbe(q, cfg)
        THEN InitiateProbing(q, cfg, 0, <<Scaled(q.estimated, cfg.alr)>>, TRUE, "alr")
        ELSE q
-----------------------------------------------------------------------------
(* CongestionControl                                                         *)

Fresh(p) == [p EXCEPT !.sent = {}]

\* MaybeTriggerOnNetworkChanged: the cause is passed on only when the target,
\* the loss or the round trip time has changed.
Changed(b, other) == b.target # last_target \/ other

MaybeTriggerOnNetworkChanged(p, cfg, b, other) ==
    /\ last_target' = b.target
    /\ moved' = FALSE
    /\ \E q \in {p} :
         probe_controller' = IF Changed(b, other)
                             THEN SetEstimatedBitrate(q, cfg, b.target, b.cause) ELSE q

\* One task of UpdateMediaTransportState.
OnNetworkAvailability ==
    /\ changes < MaxChanges /\ changes' = changes + 1
    /\ \E ready, allow \in BOOLEAN :
         LET p == EnableRepeatedInitialProbing(Fresh(probe_controller), allow)
         IN  /\ allow => ready
             /\ network_available' = ready
             /\ probe_controller' =
                  IF ready # network_available
                  THEN ProbeOnNetworkAvailability(p, Config(relay_path), ready)
                  ELSE p
    /\ UNCHANGED <<relay_path, initial_config, bwe, last_target, moved, detector,
                   previously_in_alr, processed>>

\* Mutant: a connection that is up keeps its rates.
AppliesStartNever(relay) == ~network_available

\* A relay lowers the rates of an established controller at once; a direct path
\* does not raise them.
AppliesStart(relay) == relay \/ ~network_available

SetRelayPath ==
    /\ changes < MaxChanges /\ changes' = changes + 1
    /\ relay_path' = ~relay_path
    /\ LET cfg == Config(relay_path')
       IN  IF ~initial_config /\ AppliesStart(relay_path')
           THEN /\ bwe' = [bwe EXCEPT !.target = cfg.start]
                /\ MaybeTriggerOnNetworkChanged(
                       SetBitrates(Fresh(probe_controller), cfg, cfg.start, 0), cfg, bwe', moved)
           ELSE probe_controller' = Fresh(probe_controller) /\ UNCHANGED <<bwe, last_target, moved>>
    /\ UNCHANGED <<network_available, initial_config, detector, previously_in_alr,
                   processed>>

\* The first one applies the initial constraints, and their time.
OnProcessInterval ==
    LET cfg == Config(relay_path)
        p == IF initial_config
             THEN [SetBitrates(Fresh(probe_controller), cfg, cfg.start, Timeless)
                       EXCEPT !.periodic = TRUE]
             ELSE Fresh(probe_controller)
    IN  /\ initial_config' = FALSE
        /\ bwe' = IF initial_config THEN [bwe EXCEPT !.target = cfg.start] ELSE bwe
        /\ MaybeTriggerOnNetworkChanged(Process([p EXCEPT !.alr = detector], cfg),
                                        cfg, bwe', moved)
        /\ processed' = TRUE
        /\ UNCHANGED <<network_available, relay_path, detector, previously_in_alr, changes>>

\* A report moves the estimators; updated and recovered are results of
\* DelayBasedBwe.  What UpdateEstimate changes in a process interval comes as a
\* report that updates nothing.
OnTransportPacketsFeedback ==
    /\ changes < MaxChanges /\ changes' = changes + 1
    /\ \E rate \in Rates, cause \in Causes, updated, recovered, other \in BOOLEAN :
         LET cfg == Config(relay_path)
             ended == previously_in_alr /\ detector = Timeless
             p == IF ended THEN [Fresh(probe_controller) EXCEPT !.alr_end = 0]
                  ELSE Fresh(probe_controller)
         IN  /\ bwe' = [target |-> rate, cause |-> cause]
             /\ last_target' = IF updated THEN rate ELSE last_target
             /\ moved' = (~updated /\ (moved \/ other))
             /\ \E e \in {IF updated /\ Changed(bwe', moved \/ other)
                          THEN SetEstimatedBitrate(p, cfg, rate, cause) ELSE p} :
                  probe_controller' =
                      IF recovered THEN RequestProbe([e EXCEPT !.alr = detector], cfg) ELSE e
    /\ previously_in_alr' = (detector # Timeless)
    /\ UNCHANGED <<network_available, relay_path, initial_config, detector, processed>>

\* AlrDetector: the application starts or stops to send less than it may.
OnBytesSent ==
    /\ changes < MaxChanges /\ changes' = changes + 1
    /\ detector' = IF detector = Timeless THEN 0 ELSE Timeless
    /\ probe_controller' = Fresh(probe_controller)
    /\ UNCHANGED <<network_available, relay_path, initial_config, bwe, last_target,
                   moved, previously_in_alr, processed>>

Older(age) == IF age = Timeless THEN age ELSE Least(age + 1, Old)

\* The timer of the controller runs many times in a tick.
Tick ==
    /\ processed
    /\ processed' = FALSE
    /\ detector' = Older(detector)
    /\ probe_controller' =
         [Fresh(probe_controller) EXCEPT
              !.age = Older(@), !.alr = Older(@), !.alr_end = Older(@),
              !.since_drop = Older(@), !.since_request = Older(@),
              !.last_allowed = IF @ = Forever THEN @ ELSE Most(@ - 1, 0)]
    /\ UNCHANGED <<network_available, relay_path, initial_config, bwe, last_target,
                   moved, previously_in_alr, changes>>
-----------------------------------------------------------------------------
\* The path may be known before the controller is created.
ProbingInit ==
    /\ network_available = FALSE /\ relay_path \in BOOLEAN
    /\ initial_config = TRUE
    /\ probe_controller = [state |-> "init", available |-> FALSE, repeated |-> FALSE,
            periodic |-> FALSE, age |-> Old, last_allowed |-> 0,
            min_further |-> Unlimited, estimated |-> 0, start |-> 0,
            cause |-> "DelayBasedLimited", alr |-> Timeless, alr_end |-> Old,
            since_drop |-> Old, before_drop |-> 0, since_request |-> Old, sent |-> {}]
    /\ bwe = [target |-> 0, cause |-> "DelayBasedLimited"]
    /\ last_target = 0 /\ moved = FALSE
    /\ detector = Timeless /\ previously_in_alr = FALSE
    /\ processed = FALSE /\ changes = 0

ProbingNext ==
    \/ OnNetworkAvailability \/ SetRelayPath \/ OnProcessInterval
    \/ OnTransportPacketsFeedback \/ OnBytesSent \/ Tick

\* The controller's thread posts its task every 25 ms, and time passes.
ProbingSpec ==
    /\ ProbingInit /\ [][ProbingNext]_probing_vars
    /\ WF_probing_vars(OnProcessInterval /\ ~processed) /\ WF_probing_vars(Tick)
-----------------------------------------------------------------------------
(* Properties                                                                *)

\* Whatever the order of path, network and estimate events, no probe is asked
\* for without a network or above the maximum; and on a relay, though it may
\* have been a direct path until now, a probe is at most four times the relay's
\* starting rate or twice the estimate, but for the one that returns to the
\* rate before a drop.
ProbesAreRestrained ==
    \A s \in probe_controller.sent :
        /\ network_available /\ s.rate <= MaxRate
        /\ relay_path => \/ s.rate <= Most(4 * RelayStart, 2 * s.of)
                         \/ s.why = "recovery" /\ s.rate <= probe_controller.before_drop

\* Probing was refused when the network came; nothing tries again.
Refused == probe_controller.state = "init" /\ network_available /\ ~initial_config

Due == /\ network_available
       /\ detector # Timeless \/ probe_controller.state = "init"
       /\ probe_controller.cause # "Limited" /\ ~Refused /\ probe_controller.age # Timeless

\* A sender that has a network and sends less than it may goes on probing: a
\* wait for a result ends, whatever is estimated, and the next probe comes.
\* Excused are a controller that was limited when the network came, and one
\* whose first probing was started by the first process interval.
ProbingGoesOn == Due ~> (~Due \/ probe_controller.sent # {})

\* The wait for a result of probing has a maximum; refuted when the network is
\* available before the first process interval.
WaitIsBounded == probe_controller.state = "waiting" => probe_controller.age \in 0 .. kMaxWaitingTimeForProbingResult + 1
=============================================================================
