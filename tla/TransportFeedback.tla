-------------------------- MODULE TransportFeedback --------------------------
(* Per-packet feedback for congestion control.  The pacer numbers packets    *)
(* for the transport when they are queued and for RTP when they leave; the   *)
(* controller registers each with TransportFeedbackAdapter before it sends   *)
(* it and takes the registration back when that fails; the receiver's        *)
(* trackers report which RTP numbers arrived; the adapter turns a report     *)
(* back into the packets it is about and the bytes still in flight.          *)
(*                                                                           *)
(* The pacer thread sends, the feedback queue processes reports; the adapter *)
(* has a lock.  Packets all have one size, so bytes in flight are a count.   *)
(* Retransmitted packets, and packets of frames given up, arrive without     *)
(* being shown to the trackers: here they are lost.  Duplicate detection     *)
(* only feeds the log and is left out.                                       *)
EXTENDS Integers, Sequences, FiniteSets, SequencesExt, FiniteSetsExt, TLC

CONSTANTS
    Ssrcs,             \* media, and padding with RTX
    SeqSpan,           \* 2^16 in the code: RTP and transport numbers wrap here
    FirstSeq,          \* the number the next packet of each stream gets
    kMaxHistorySize,   \* arrivals a tracker remembers
    MaxPackets,        \* bound: packets queued
    MaxFails,          \* bound: sends that fail
    MaxReports         \* bound: different reports

\* No two packets under way are half the span apart.
ASSUME SpanAssumption ==
    /\ IsFiniteSet(Ssrcs)
    /\ SeqSpan \in Nat /\ SeqSpan % 2 = 0
    /\ MaxPackets \in Nat /\ 2 * MaxPackets < SeqSpan
    /\ FirstSeq \in 0 .. SeqSpan - 1
    /\ kMaxHistorySize \in Nat \ {0}

VARIABLES
    transport_seq,     \* next transport number
    queue, queued,     \* packets the pacer holds, how many it ever held
    ssrc_seq,          \* ssrc_seq[s]: next RTP number of stream s
    sends, sending,    \* sends so far; <<p>> while the pacer thread hands p to the agent
    unwrapper,         \* last transport number the adapter unwrapped, as <<n>>
    history,           \* adapter: transport number -> packet
    rtp_to_transport,  \* adapter: SSRC and RTP number -> transport number
    in_flight, last_ack,
    net,               \* packets that left: they may arrive late, twice, never
    trackers, reports, \* the receiver, and the reports that left it
    fails,
    sent,              \* history variables: numbers sent and not forgotten
    arrived,           \* those shown to the trackers
    credited, twice,   \* those reported received to the estimator
    shadowed,          \* those whose RTP number was used again
    misrolled          \* a failed send was taken back at another's expense

pacer_vars == <<transport_seq, queue, queued, ssrc_seq, sends, sending, fails>>
adapter_vars == <<unwrapper, history, rtp_to_transport, in_flight, last_ack>>
receiver_vars == <<trackers, reports, arrived>>
ghosts == <<sent, credited, twice, shadowed, misrolled>>
vars == <<pacer_vars, adapter_vars, net, receiver_vars, ghosts>>

Without(f, S) == [x \in DOMAIN f \ S |-> f[x]]

\* A std::map insertion: an entry that is there stays.
Emplaced(f, x, v) == [y \in DOMAIN f \cup {x} |-> IF y \in DOMAIN f THEN f[y] ELSE v]
-----------------------------------------------------------------------------
(* SeqNumUnwrapper                                                           *)

AheadOrAt(a, b) ==
    IF (a - b) % SeqSpan = SeqSpan \div 2 THEN b < a
    ELSE (a - b) % SeqSpan < SeqSpan \div 2

Delta(last, new) ==
    IF AheadOrAt(new, last) THEN (new - last) % SeqSpan
    ELSE ((new - last) % SeqSpan) - SeqSpan

Unwrap(last, v) ==
    IF last = <<>> THEN v ELSE last[1] + Delta(last[1] % SeqSpan, v)
-----------------------------------------------------------------------------
(* TransportFeedbackAdapter                                                  *)

Removed(bytes, n) == IF n > bytes THEN 0 ELSE bytes - n

\* Mutant: a forgotten packet stays in flight.
ExpireLeaks(c) ==
    LET old == {t \in DOMAIN history :
                   \A u \in DOMAIN history : u <= t => history[u].created <= c}
    IN  [history |-> Without(history, old),
         keys |-> Without(rtp_to_transport, {history[t].key : t \in old}),
         in_flight |-> in_flight, old |-> old]

\* The oldest transport numbers go, as long as they were created by c.
Expire(c) ==
    LET old == {t \in DOMAIN history :
                   \A u \in DOMAIN history : u <= t => history[u].created <= c}
    IN  [history |-> Without(history, old),
         keys |-> Without(rtp_to_transport, {history[t].key : t \in old}),
         in_flight |-> Removed(in_flight, Cardinality({t \in old : t > last_ack})),
         old |-> old]

\* AddPacket and ProcessSentPacket under one lock.  A key that is still mapped
\* keeps its mapping; a number that was overtaken by an acknowledgement is not
\* in flight.
RegisterPacketForFeedback(p, c) ==
    LET t == Unwrap(unwrapper, p.tsn % SeqSpan)
        e == Expire(c)
    IN  /\ unwrapper' = <<t>>
        /\ history' = Emplaced(e.history, t, [key |-> p.key, created |-> p.created])
        /\ rtp_to_transport' = Emplaced(e.keys, p.key, t)
        /\ in_flight' = IF t > last_ack THEN e.in_flight + 1 ELSE e.in_flight
        /\ sent' = (sent \ e.old) \cup {p.tsn}
        /\ shadowed' = IF p.key \in DOMAIN e.keys
                       THEN shadowed \cup {e.keys[p.key]} ELSE shadowed
        /\ UNCHANGED <<last_ack, credited, twice, misrolled>>

RemovePacket(key) ==
    IF key \notin DOMAIN rtp_to_transport
    THEN UNCHANGED <<history, rtp_to_transport, in_flight>>
    ELSE LET t == rtp_to_transport[key]
         IN  /\ history' = Without(history, {t})
             /\ rtp_to_transport' = Without(rtp_to_transport, {key})
             /\ in_flight' = IF t \in DOMAIN history THEN Removed(in_flight, 1)
                             ELSE in_flight

\* Mutant: a packet reported received stays in the history.
RetrieveKeeps(info) ==
    LET found == DOMAIN info \cap DOMAIN rtp_to_transport
        tsns == {rtp_to_transport[k] : k \in found}
        top == Max(tsns \cup {last_ack})
    IN  [results |-> {t \in tsns : info[history[t].key]}, last_ack |-> top,
         in_flight |-> Removed(in_flight, Cardinality(
                           {t \in DOMAIN history : last_ack < t /\ t <= top})),
         history |-> history, keys |-> rtp_to_transport]

\* RetrievePacketFeedback for each entry.  Every packet up to the newest one
\* that is reported on, received or not, is no longer in flight; one reported
\* lost stays, since a later report may say otherwise.
Retrieve(info) ==
    LET found == DOMAIN info \cap DOMAIN rtp_to_transport
        tsns == {rtp_to_transport[k] : k \in found}
        top == Max(tsns \cup {last_ack})
        received == {t \in tsns : info[history[t].key]}
    IN  [results |-> received, last_ack |-> top,
         in_flight |-> Removed(in_flight, Cardinality(
                           {t \in DOMAIN history : last_ack < t /\ t <= top})),
         history |-> Without(history, received),
         keys |-> Without(rtp_to_transport, {history[t].key : t \in received})]

\* A report may come late, again, or after a newer one.
ProcessCongestionControlFeedback ==
    /\ \E info \in reports :
         LET r == Retrieve(info)
         IN  /\ last_ack' = r.last_ack
             /\ in_flight' = r.in_flight
             /\ history' = r.history
             /\ rtp_to_transport' = r.keys
             /\ twice' = twice \cup (credited \cap r.results)
             /\ credited' = credited \cup r.results
    /\ UNCHANGED <<pacer_vars, unwrapper, net, receiver_vars, sent, shadowed,
                   misrolled>>
-----------------------------------------------------------------------------
(* Pacer thread                                                              *)

\* The transport number is given here, so priorities reorder it.
EnqueuePacket(s) ==
    /\ queued < MaxPackets
    /\ queued' = queued + 1
    /\ transport_seq' = transport_seq + 1
    /\ queue' = queue \cup {[tsn |-> transport_seq, ssrc |-> s]}
    /\ UNCHANGED <<ssrc_seq, sends, sending, fails, adapter_vars, net,
                   receiver_vars, ghosts>>

\* SendPacket up to the call of the agent, with the RTP number given only now.
\* What was created up to c is older than the history window by now.
SendPacket ==
    /\ sending = <<>>
    /\ \E p \in queue, c \in -1 .. sends :
         LET pkt == [tsn |-> p.tsn, created |-> sends + 1,
                     key |-> <<p.ssrc, ssrc_seq[p.ssrc]>>]
         IN  /\ queue' = queue \ {p}
             /\ ssrc_seq' = [ssrc_seq EXCEPT ![p.ssrc] = (@ + 1) % SeqSpan]
             /\ sending' = <<pkt>>
             /\ RegisterPacketForFeedback(pkt, c)
    /\ sends' = sends + 1
    /\ UNCHANGED <<transport_seq, queued, fails, net, receiver_vars>>

OnSentPacket ==
    /\ sending # <<>>
    /\ net' = net \cup {[tsn |-> sending[1].tsn, key |-> sending[1].key]}
    /\ sending' = <<>>
    /\ UNCHANGED <<transport_seq, queue, queued, ssrc_seq, sends, fails,
                   adapter_vars, receiver_vars, ghosts>>

RollbackPacketFeedback ==
    /\ sending # <<>> /\ fails < MaxFails
    /\ fails' = fails + 1
    /\ RemovePacket(sending[1].key)
    /\ sent' = sent \ {sending[1].tsn}
    /\ misrolled' = (misrolled \/ sending[1].tsn <= last_ack
                      \/ sending[1].key \notin DOMAIN rtp_to_transport
                      \/ rtp_to_transport[sending[1].key] # sending[1].tsn)
    /\ sending' = <<>>
    /\ UNCHANGED <<transport_seq, queue, queued, ssrc_seq, sends, unwrapper,
                   last_ack, net, receiver_vars, credited, twice, shadowed>>
-----------------------------------------------------------------------------
(* CongestionControlFeedbackTracker and -Generator                           *)

\* Mutant: the range of the next report is not moved back for a late packet.
ReceivedPacketOnlyForward(k, v) ==
    LET u == Unwrap(k.unwrapper, v)
    IN  [k EXCEPT !.unwrapper = <<u>>, !.packets = @ \cup {u},
                  !.history = IF Contains(@, u) THEN @ ELSE Append(@, u)]

\* Tracker k with the packet of RTP number v.
ReceivedPacket(k, v) ==
    LET u == Unwrap(k.unwrapper, v)
        longer == IF Contains(k.history, u) THEN k.history ELSE Append(k.history, u)
    IN  [unwrapper |-> <<u>>,
         last |-> IF k.last # <<>> /\ u <= k.last[1] THEN <<u - 1>> ELSE k.last,
         history |-> IF Len(longer) > kMaxHistorySize THEN Tail(longer) ELSE longer,
         packets |-> k.packets \cup {u}]

\* The range a tracker reports on: from its last report to its newest packet.
Reported(k) ==
    IF k.packets = {} THEN {}
    ELSE (IF k.last = <<>> THEN Min(k.packets) ELSE k.last[1] + 1) .. Max(k.packets)

\* What was received in that range, by SSRC and number on the wire.
AddPacketsToFeedback(ks) ==
    LET has(s, u) == u \in ks[s].packets \/ Contains(ks[s].history, u)
    IN  [key \in UNION {{<<s, u % SeqSpan>> : u \in Reported(ks[s])} : s \in Ssrcs} |->
            \E u \in Reported(ks[key[1]]) : u % SeqSpan = key[2] /\ has(key[1], u)]

Cleared(k) ==
    IF k.packets = {} THEN k
    ELSE [k EXCEPT !.last = <<Max(k.packets)>>, !.packets = {}]

\* A packet arrives and, when one is due by the clock, a report leaves.  Nothing
\* else sends one: Process, which would, has no caller.
OnReceivedPacket ==
    /\ \E p \in net, due \in BOOLEAN :
         \E ks \in {[trackers EXCEPT ![p.key[1]] = ReceivedPacket(@, p.key[2])]} :
           /\ arrived' = arrived \cup {p}
           /\ due => Cardinality(reports) < MaxReports
           /\ reports' = IF due THEN reports \cup {AddPacketsToFeedback(ks)} ELSE reports
           /\ trackers' = IF due THEN [s \in Ssrcs |-> Cleared(ks[s])] ELSE ks
    /\ UNCHANGED <<pacer_vars, adapter_vars, net, ghosts>>
-----------------------------------------------------------------------------
\* A new connection; or one that has been up for long, in which a packet that
\* was lost a whole span ago may still be in the history.
Init ==
    /\ \E steady \in BOOLEAN, left \in SUBSET Ssrcs :
         LET seq == IF steady THEN FirstSeq ELSE 1
             tsn == IF steady THEN SeqSpan + FirstSeq ELSE 0
             at(n) == IF steady THEN <<n>> ELSE <<>>
         IN  /\ Cardinality(left) <= IF steady THEN 1 ELSE 0
             /\ transport_seq = tsn /\ unwrapper = at(tsn - 1) /\ last_ack = tsn - 1
             /\ ssrc_seq = [s \in Ssrcs |-> seq]
             /\ history = [t \in {FirstSeq : s \in left} |->
                              [key |-> <<CHOOSE s \in left : TRUE, seq>>, created |-> 0]]
             /\ rtp_to_transport = [k \in left \X {seq} |-> FirstSeq]
             /\ sent = DOMAIN history
             /\ trackers = [s \in Ssrcs |-> [unwrapper |-> at(seq - 1), history |-> <<>>,
                                             last |-> at(seq - 1), packets |-> {}]]
    /\ queue = {} /\ queued = 0 /\ sends = 0 /\ sending = <<>> /\ fails = 0
    /\ in_flight = 0 /\ net = {} /\ reports = {} /\ arrived = {}
    /\ credited = {} /\ twice = {} /\ shadowed = {} /\ misrolled = FALSE

Next ==
    \/ \E s \in Ssrcs : EnqueuePacket(s)
    \/ SendPacket \/ OnSentPacket \/ RollbackPacketFeedback
    \/ OnReceivedPacket
    \/ ProcessCongestionControlFeedback

Spec == Init /\ [][Next]_vars
-----------------------------------------------------------------------------
(* Properties                                                                *)

\* The bytes in flight are those of the packets that were sent, or are being
\* sent, after the newest one reported on: not of one whose send failed, nor of
\* one that expired, and none is taken off twice, in whatever order packets are
\* sent and reports come.  Rolling back a packet that reports had already passed,
\* or whose RTP number is still mapped to another, breaks the count (misrolled).
InFlightIsExact ==
    ~misrolled => in_flight = Cardinality({t \in sent : t > last_ack})

\* A packet is reported received to the estimator at most once, and only if it
\* arrived; a packet whose RTP number was used again within the history window
\* can be credited with the arrival of its successor.
CreditsAreTrue ==
    /\ twice = {}
    /\ credited \subseteq {p.tsn : p \in arrived} \cup shadowed

\* Every arrival, however late or often, is reported as such with the next
\* feedback, and nothing that did not arrive is.
ArrivalsAreReported ==
    /\ \A p \in arrived :
         \/ \E r \in reports : p.key \in DOMAIN r /\ r[p.key]
         \/ \E u \in trackers[p.key[1]].packets : u % SeqSpan = p.key[2]
    /\ \A r \in reports : \A k \in DOMAIN r : r[k] => \E p \in arrived : p.key = k
=============================================================================
