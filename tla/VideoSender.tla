----------------------------- MODULE VideoSender -----------------------------
(* The sending side of one video stream: the controller admits captured      *)
(* frames to the encode queue and turns FIRs into forced key frames; the     *)
(* pacer queues packets by priority, flushes stale deltas before a key frame *)
(* and numbers packets as they leave; VideoChannelSend keeps what left in a  *)
(* packet history and answers NACKs from it with RTX packets.                *)
(*                                                                           *)
(* Threads: capture, encode queue, pacer queue, history queue, network (NACK,*)
(* FIR, RTT), and the thread that destroys the transport.  One action is one *)
(* task, or one critical section of a task that takes a lock more than once. *)
(* Pacing decides when a packet leaves and is left open here (module         *)
(* PacedSender models it); so are the clock readings: how old a stored       *)
(* packet is, and whether an RTT has passed since it was last resent.        *)
EXTENDS Integers, Sequences, FiniteSets, SequencesExt

CONSTANTS
    SeqSpan,        \* 2^16 in the code: sequence numbers wrap here
    kMaxCapacity,   \* slots of RtpPacketHistory
    kMaxNacksPerTask,
    FirstSeqs,      \* values ssrc_seq_ may have when the model starts
    PktsPerFrame,
    MaxFrames,      \* bound: frames captured
    MaxNacks,       \* bound: NACK messages
    MaxFirs,        \* bound: FIR messages
    MaxNackList,    \* bound: numbers in a NACK message
    MaxFaults       \* bound: failed conversions, ForceIdr calls and sends,
                    \* frames the encoder swallows, and RTT updates

\* As in the code (10001 and 2^16), the history is shorter than half the span.
ASSUME SpanAssumption ==
    /\ SeqSpan \in Nat /\ SeqSpan % 2 = 0
    /\ kMaxCapacity \in 1 .. (SeqSpan \div 2 - 1)
    /\ kMaxNacksPerTask \in Nat \ {0}
    /\ PktsPerFrame \in Nat \ {0}
    /\ FirstSeqs \subseteq 0 .. SeqSpan - 1
    /\ {MaxFrames, MaxNacks, MaxFirs, MaxNackList, MaxFaults} \subseteq Nat

Hole == [hole |-> TRUE]

VARIABLES
    rtx_enabled,        \* negotiated before the channel is initialised
    b_force_i_frame,    \* the request made before any stream existed
    force_i_frame,      \* the stream is in force_i_frame_streams_
    encode_queue,       \* waiting encode tasks: their force_i_frame argument
    encoding,           \* the task the encode thread is running, <<>> if none
    idr,                \* the encoder was told to make its next frame an IDR
    captured,           \* frames admitted so far
    frame,              \* number of the last encoded frame
    pacer_tasks,        \* closures posted to the pacer queue
    video_queue,        \* PrioritizedPacketQueue, media SSRC
    rtx_queue,          \* PrioritizedPacketQueue, RTX SSRC, higher priority
    ssrc_seq,           \* next media sequence number
    packet_history,     \* the deque of stored packets
    history_tasks,      \* tasks of the history queue
    in_nack_task,       \* the history thread is inside ProcessPendingNacks
    batch,              \* what it has yet to resend
    pending_nacks,      \* pending_nack_sequence_numbers_
    nack_task_scheduled,
    nack_post,          \* OnReceiveNack is between its unlock and its PostTask
    pacer_shutdown, history_shutdown, history_stopped,
    destroy,            \* how far Destroy has come
    faults, nacks, firs,  \* uses of the bounds
    out,                \* history variable: media packets in sending order
    owed                \* history variable: where the newest FIR has to be

capture_vars == <<b_force_i_frame, force_i_frame, encode_queue, encoding, idr,
                  captured, frame, owed, firs>>
pacer_vars == <<pacer_tasks, video_queue, rtx_queue, ssrc_seq, out>>
history_vars == <<packet_history, in_nack_task, batch>>
nack_vars == <<pending_nacks, nack_task_scheduled, nack_post, nacks>>
destroy_vars == <<pacer_shutdown, history_shutdown, history_stopped, destroy>>
vars == <<rtx_enabled, capture_vars, pacer_vars, history_vars, history_tasks,
          nack_vars, destroy_vars, faults>>

Seqs == 0 .. SeqSpan - 1

\* The controller is running and its sender map still holds the stream.
Running == destroy = "no"
Attached == destroy \in {"no", "joining"}
-----------------------------------------------------------------------------
(* RtpPacketHistory: pure operations on the deque                            *)

IsNewer(s, t) ==
    LET half == SeqSpan \div 2 IN
      IF s - t = half THEN s > t
      ELSE s # t /\ (s - t) % SeqSpan < half

\* Offset of s from the first stored packet, over the wrap in both directions.
GetPacketIndex(h, s) ==
    IF h = <<>> THEN 0
    ELSE IF IsNewer(s, h[1].seq) \/ s = h[1].seq
         THEN (s - h[1].seq) % SeqSpan
         ELSE -((h[1].seq - s) % SeqSpan)

\* Position of the stored packet s in the deque, 0 when there is none.
GetStoredPacket(h, s) ==
    LET i == GetPacketIndex(h, s) + 1
    IN  IF i \in 1 .. Len(h) /\ h[i] # Hole THEN i ELSE 0

\* Taking out the first packet pops the holes behind it too.
RemovePacket(h, i) ==
    IF i > 1 THEN [h EXCEPT ![i] = Hole]
    ELSE LET real == {j \in 2 .. Len(h) : h[j] # Hole}
         IN  IF real = {} THEN <<>>
             ELSE SubSeq(h, CHOOSE j \in real : \A k \in real : j <= k, Len(h))

\* What may be left of the deque: packets go from the front, a pending one
\* only to keep the capacity, any other when it is old enough.
RemoveDeadPackets(h) ==
    {c \in {SubSeq(h, k + 1, Len(h)) : k \in 0 .. Len(h)} :
        /\ c = <<>> \/ c[1] # Hole
        /\ Len(c) <= kMaxCapacity
        /\ \A i \in 1 .. Len(h) - Len(c) :
             h[i] # Hole => (~h[i].pending \/ Len(h) - i + 1 > kMaxCapacity)}

Stored(s, p) == [seq |-> s, pkt |-> p, pending |-> FALSE, resent |-> FALSE]

\* The deque grown at the front or at the back until index i exists.
Expanded(h, i) ==
    LET holes(n) == [k \in 1 .. n |-> Hole]
    IN  IF i < 0 THEN holes(-i) \o h
        ELSE IF i >= Len(h) THEN h \o holes(i + 1 - Len(h)) ELSE h

WithoutDuplicate(h, s) ==
    IF GetStoredPacket(h, s) > 0 THEN RemovePacket(h, GetStoredPacket(h, s)) ELSE h

Placed(h, s, p) ==
    LET i == GetPacketIndex(h, s)
    IN  [Expanded(h, i) EXCEPT ![IF i < 0 THEN 1 ELSE i + 1] = Stored(s, p)]

\* Cull, drop a packet of the same number, grow, store, cull again.
PutRtpPacket(h, s, p) ==
    UNION {RemoveDeadPackets(g) :
             g \in {Placed(e, s, p) :
                      e \in {WithoutDuplicate(c, s) : c \in RemoveDeadPackets(h)}}}

MarkPacketAsSent(h, s) ==
    LET i == GetStoredPacket(h, s)
    IN  IF i = 0 THEN h
        ELSE [h EXCEPT ![i].pending = FALSE, ![i].resent = TRUE]

\* Mutant: an aborted retransmission is not taken back.
MarkPacketAsAbortedForgets(h, s) == h

MarkPacketAsAborted(h, s) ==
    LET i == GetStoredPacket(h, s)
    IN  IF i = 0 THEN h ELSE [h EXCEPT ![i].pending = FALSE]
-----------------------------------------------------------------------------
(* Controller: capture, key frame requests, encoding                         *)

\* A frame met by a waiting encode task, or by a long pacer queue, is dropped
\* before it takes the request; those frames change nothing modelled here.
SendVideo ==
    /\ Running /\ captured < MaxFrames
    /\ encode_queue = <<>>
    /\ encode_queue' = <<b_force_i_frame \/ force_i_frame>>
    /\ captured' = captured + 1
    /\ b_force_i_frame' = FALSE
    /\ force_i_frame' = FALSE
    /\ owed' = IF owed = "asked" THEN "admitted" ELSE owed
    /\ UNCHANGED <<rtx_enabled, encoding, idr, frame, firs, pacer_vars,
                   history_vars, history_tasks, nack_vars, destroy_vars, faults>>

FullIntraRequest ==
    /\ Attached /\ firs < MaxFirs
    /\ firs' = firs + 1
    /\ force_i_frame' = TRUE
    /\ owed' = "asked"
    /\ UNCHANGED <<rtx_enabled, b_force_i_frame, encode_queue, encoding, idr,
                   captured, frame, pacer_vars, history_vars, history_tasks,
                   nack_vars, destroy_vars, faults>>

EncodeTaskStarts ==
    /\ encoding = <<>> /\ encode_queue # <<>>
    /\ encoding' = <<Head(encode_queue)>>
    /\ encode_queue' = Tail(encode_queue)
    /\ owed' = IF owed = "admitted" THEN "encoding" ELSE owed
    /\ UNCHANGED <<rtx_enabled, b_force_i_frame, force_i_frame, idr, captured,
                   frame, firs, pacer_vars, history_vars, history_tasks,
                   nack_vars, destroy_vars, faults>>

\* The native frame cannot be materialized or scaled: the task returns, and
\* the request it took goes with it.  Or the transport is being destroyed.
EncodeTaskGivesUp ==
    /\ encoding # <<>>
    /\ \/ ~Running /\ UNCHANGED faults
       \/ Running /\ faults < MaxFaults /\ faults' = faults + 1
    /\ owed' = IF owed = "encoding" THEN "lost" ELSE owed
    /\ encoding' = <<>>
    /\ UNCHANGED <<rtx_enabled, b_force_i_frame, force_i_frame, encode_queue,
                   idr, captured, frame, firs, pacer_vars, history_vars,
                   history_tasks, nack_vars, destroy_vars>>

\* Mutant: a failed ForceIdr is only logged.
RequestAfterForceIdrLogged(failed) == force_i_frame

\* A failed ForceIdr puts the request back.
RequestAfterForceIdr(failed) == force_i_frame \/ failed

\* Where the newest FIR is after the encoder was called.
OwedAfterEncode(failed, kept, key) ==
    IF owed = "encoding" /\ failed THEN "asked"
    ELSE IF owed \notin {"encoding", "told"} THEN owed
    ELSE IF key THEN "no" ELSE IF kept THEN "told" ELSE "lost"

\* ForceIdr when asked, then Encode, whose result nobody looks at.
\* OnVideoEncoded packetizes what comes out of the encoder and hands it to the
\* pacer; nothing may come out.  The next frame is then still to be an IDR with
\* an encoder that restores its mark (AOM) and not with one that has cleared
\* it before it could fail (SVT-AV1, NVENC).
EncodeTask ==
    /\ encoding # <<>> /\ Running
    /\ \E failed \in BOOLEAN, kept \in BOOLEAN, output \in {"none", "delta", "key"} :
         LET told == idr \/ (encoding[1] /\ ~failed)
             key  == output = "key"
         IN /\ failed => encoding[1] /\ faults < MaxFaults
            /\ output = "delta" => ~told
            /\ kept => told /\ output = "none"
            /\ faults' = faults + Cardinality({x \in {1} : failed})
                                + Cardinality({x \in {1} : output = "none"})
            /\ faults' <= MaxFaults
            /\ force_i_frame' = RequestAfterForceIdr(failed)
            /\ idr' = kept
            /\ owed' = OwedAfterEncode(failed, kept, key)
            /\ IF output = "none"
               THEN UNCHANGED <<frame, pacer_tasks>>
               ELSE /\ frame' = frame + 1
                    /\ pacer_tasks' =
                         Append(pacer_tasks,
                                [op |-> "frame", f |-> frame + 1, key |-> key])
    /\ encoding' = <<>>
    /\ UNCHANGED <<rtx_enabled, b_force_i_frame, encode_queue, captured, firs,
                   video_queue, rtx_queue, ssrc_seq, out, history_vars,
                   history_tasks, nack_vars, destroy_vars>>
-----------------------------------------------------------------------------
(* Pacer queue                                                               *)

Packets(f, key) == [i \in 1 .. PktsPerFrame |-> [f |-> f, i |-> i, key |-> key]]

HasKeyframePackets(q) == \E i \in DOMAIN q : q[i].key

\* Mutant: every key frame flushes, the rest of another key frame included.
FlushedAlways(q, key) == IF key THEN <<>> ELSE q

\* keyframe_flushing: the first packet of a key frame empties the stream's
\* queue unless packets of a key frame are still in it.
Flushed(q, key) == IF key /\ ~HasKeyframePackets(q) THEN <<>> ELSE q

\* PacedSender::EnqueuePackets, on the pacer queue.
EnqueuePacketsOnQueue ==
    /\ pacer_tasks # <<>>
    /\ LET t == Head(pacer_tasks)
       IN  IF t.op = "frame"
           THEN /\ video_queue' =
                     Flushed(video_queue, t.key) \o Packets(t.f, t.key)
                /\ UNCHANGED rtx_queue
           ELSE /\ rtx_queue' = Append(rtx_queue, [osn |-> t.osn, pkt |-> t.pkt])
                /\ UNCHANGED video_queue
    /\ pacer_tasks' = Tail(pacer_tasks)
    /\ UNCHANGED <<rtx_enabled, capture_vars, ssrc_seq, out, history_vars,
                   history_tasks, nack_vars, destroy_vars, faults>>

\* OnSentRtpPacket and OnRtpPacketSendFailed post while the channel lives.
PostHistory(t) ==
    history_tasks' = IF history_shutdown \/ history_stopped THEN history_tasks
                     ELSE Append(history_tasks, t)

\* Sent or not, a numbered media packet goes to the history.
SentMedia(s, p, sent) == PostHistory([op |-> "put", seq |-> s, pkt |-> p])

SentRtx(r, sent) ==
    PostHistory([op |-> IF sent THEN "sent" ELSE "aborted", seq |-> r.osn])

PopIsMedia == video_queue # <<>> /\ rtx_queue = <<>>

\* The pacer sends the head of the highest level: PacedSender::SendPacket
\* numbers it, the transport accepts it or fails, the channel is told.
SendPacket ==
    /\ ~pacer_shutdown
    /\ \E sent \in BOOLEAN :
         /\ ~sent => faults < MaxFaults
         /\ faults' = IF sent THEN faults ELSE faults + 1
         /\ \/ /\ PopIsMedia
               /\ video_queue' = Tail(video_queue)
               /\ ssrc_seq' = (ssrc_seq + 1) % SeqSpan
               /\ out' = Append(out, [seq |-> ssrc_seq, pkt |-> Head(video_queue)])
               /\ SentMedia(ssrc_seq, Head(video_queue), sent)
               /\ UNCHANGED rtx_queue
            \/ /\ ~PopIsMedia /\ rtx_queue # <<>>
               /\ rtx_queue' = Tail(rtx_queue)
               /\ SentRtx(Head(rtx_queue), sent)
               /\ UNCHANGED <<video_queue, ssrc_seq, out>>
    /\ UNCHANGED <<rtx_enabled, capture_vars, pacer_tasks, history_vars,
                   nack_vars, destroy_vars>>

\* Padding goes out on the RTX SSRC, or on the media SSRC without RTX, where
\* it takes a media sequence number and is not stored.  A keep-alive or the
\* opener of a probe goes past the packets that wait.  One at a time is enough.
SendPadding ==
    /\ ~pacer_shutdown /\ ~rtx_enabled
    /\ out # <<>> /\ Last(out).pkt.f # 0
    /\ ssrc_seq' = (ssrc_seq + 1) % SeqSpan
    /\ out' = Append(out, [seq |-> ssrc_seq, pkt |-> [f |-> 0, i |-> 0, key |-> FALSE]])
    /\ UNCHANGED <<rtx_enabled, capture_vars, pacer_tasks, video_queue, rtx_queue,
                   history_vars, history_tasks, nack_vars, destroy_vars, faults>>
-----------------------------------------------------------------------------
(* History queue                                                             *)

HistoryTask ==
    /\ ~in_nack_task /\ history_tasks # <<>>
    /\ history_tasks' = Tail(history_tasks)
    /\ UNCHANGED <<rtx_enabled, capture_vars, pacer_vars, in_nack_task, batch,
                   nack_vars, destroy_vars, faults>>
    /\ LET t == Head(history_tasks)
       IN  \/ /\ t.op = "put"
              /\ packet_history' \in PutRtpPacket(packet_history, t.seq, t.pkt)
           \/ /\ t.op = "sent"
              /\ packet_history' = MarkPacketAsSent(packet_history, t.seq)
           \/ /\ t.op = "aborted"
              /\ packet_history' = MarkPacketAsAborted(packet_history, t.seq)
           \/ /\ t.op = "rtt"
              /\ packet_history' \in IF history_shutdown THEN {packet_history}
                                     ELSE RemoveDeadPackets(packet_history)

Smallest(S, n) == {s \in S : Cardinality({t \in S : t < s}) < n}

\* Mutant: the batch is copied and not erased.
NotTakenIsAll(S) == S
NotTaken(S) == S \ Smallest(S, kMaxNacksPerTask)

\* ProcessPendingNacks, first lock: take at most kMaxNacksPerTask numbers.
ProcessPendingNacks ==
    /\ ~in_nack_task /\ history_tasks # <<>> /\ Head(history_tasks).op = "nacks"
    /\ history_tasks' = Tail(history_tasks)
    /\ IF history_shutdown
       THEN /\ pending_nacks' = {}
            /\ nack_task_scheduled' = FALSE
            /\ UNCHANGED <<in_nack_task, batch>>
       ELSE /\ in_nack_task' = TRUE
            /\ batch' = Smallest(pending_nacks, kMaxNacksPerTask)
            /\ pending_nacks' = NotTaken(pending_nacks)
            /\ UNCHANGED nack_task_scheduled
    /\ UNCHANGED <<rtx_enabled, capture_vars, pacer_vars, packet_history,
                   nack_post, nacks, destroy_vars, faults>>

\* GetPacketAndMarkAsPending finds s, not pending.
Resendable(s) ==
    LET i == GetStoredPacket(packet_history, s)
    IN  i > 0 /\ ~packet_history[i].pending

\* ReSendPacket of the next number of the batch.  Nothing happens when it is not
\* resendable, was resent within the last RTT (VerifyRtt) or cannot be built as
\* an RTX packet.  Once the pacer is shut down EnqueueRtpPacket refuses, and the
\* mark is taken back; unless the shutdown came after that test, and RunOrPost
\* drops the packet.
ReSendPacket ==
    /\ in_nack_task /\ batch # {} /\ ~history_shutdown
    /\ LET s == CHOOSE x \in batch : \A y \in batch : x <= y
           i == GetStoredPacket(packet_history, s)
       IN  /\ batch' = batch \ {s}
           /\ \/ UNCHANGED <<packet_history, pacer_tasks>>
              \/ /\ Resendable(s)
                 /\ IF pacer_shutdown
                    THEN /\ \E lost \in BOOLEAN : packet_history' =
                              [packet_history EXCEPT ![i].pending = lost]
                         /\ UNCHANGED pacer_tasks
                    ELSE /\ packet_history' =
                              [packet_history EXCEPT ![i].pending = TRUE]
                         /\ pacer_tasks' =
                              Append(pacer_tasks,
                                     [op |-> "rtx", osn |-> packet_history[i].seq,
                                      pkt |-> packet_history[i].pkt])
    /\ UNCHANGED <<rtx_enabled, capture_vars, video_queue, rtx_queue, ssrc_seq,
                   in_nack_task, out, history_tasks, nack_vars, destroy_vars, faults>>

\* ProcessPendingNacks, second lock: hand over to another task when numbers
\* arrived or were left over, else give the flag back.
NacksDone ==
    IF history_shutdown \/ pending_nacks = {}
    THEN /\ pending_nacks' = {}
         /\ nack_task_scheduled' = FALSE
         /\ UNCHANGED history_tasks
    ELSE IF history_stopped
         THEN /\ nack_task_scheduled' = FALSE
              /\ UNCHANGED <<pending_nacks, history_tasks>>
         ELSE /\ history_tasks' = Append(history_tasks, [op |-> "nacks"])
              /\ UNCHANGED <<pending_nacks, nack_task_scheduled>>

FinishPendingNacks ==
    /\ in_nack_task
    /\ batch = {} \/ history_shutdown
    /\ in_nack_task' = FALSE
    /\ batch' = {}
    /\ NacksDone
    /\ UNCHANGED <<rtx_enabled, capture_vars, pacer_vars, packet_history,
                   nack_post, nacks, destroy_vars, faults>>
-----------------------------------------------------------------------------
(* Network thread                                                            *)

\* OnReceiveNack under pending_nacks_mtx_.  The controller holds its sender
\* map locked until the PostTask is done, so Destroy cannot come in between.
OnReceiveNack ==
    /\ Attached /\ ~nack_post /\ nacks < MaxNacks /\ rtx_enabled
    /\ nacks' = nacks + 1
    /\ \E S \in SUBSET {out[i].seq : i \in DOMAIN out} :
         /\ Cardinality(S) \in 1 .. MaxNackList
         /\ pending_nacks' =
              pending_nacks \cup
              Smallest(S, IF kMaxCapacity > Cardinality(pending_nacks)
                          THEN kMaxCapacity - Cardinality(pending_nacks) ELSE 0)
    /\ nack_post' = (~nack_task_scheduled /\ pending_nacks' # {})
    /\ nack_task_scheduled' = (nack_task_scheduled \/ nack_post')
    /\ UNCHANGED <<rtx_enabled, capture_vars, pacer_vars, history_vars,
                   history_tasks, destroy_vars, faults>>

OnReceiveNackPosts ==
    /\ nack_post
    /\ nack_post' = FALSE
    /\ PostHistory([op |-> "nacks"])
    /\ UNCHANGED <<rtx_enabled, capture_vars, pacer_vars, history_vars,
                   pending_nacks, nack_task_scheduled, nacks, destroy_vars,
                   faults>>

\* A receiver report brings a new RTT: SetRtt culls the history.
OnRttUpdate ==
    /\ Attached /\ faults < MaxFaults /\ packet_history # <<>>
    /\ faults' = faults + 1
    /\ PostHistory([op |-> "rtt"])
    /\ UNCHANGED <<rtx_enabled, capture_vars, pacer_vars, history_vars, nack_vars,
                   destroy_vars>>
-----------------------------------------------------------------------------
(* IceTransportController::Destroy and VideoChannelSend::Destroy             *)

DestroyBegins ==
    /\ destroy = "no"
    /\ destroy' = "joining"
    /\ pacer_shutdown' = TRUE
    /\ UNCHANGED <<rtx_enabled, capture_vars, pacer_vars, history_vars,
                   history_tasks, nack_vars, history_shutdown, history_stopped,
                   faults>>

\* The pacer and encode queues have been joined; the map is swapped out under
\* the lock that OnReceiveNack holds.
DestroyDetaches ==
    /\ destroy = "joining"
    /\ pacer_tasks = <<>> /\ encoding = <<>> /\ encode_queue = <<>> /\ ~nack_post
    /\ destroy' = "detached"
    /\ UNCHANGED <<rtx_enabled, capture_vars, pacer_vars, history_vars,
                   history_tasks, nack_vars, pacer_shutdown, history_shutdown,
                   history_stopped, faults>>

\* history_shutdown_, then the pending numbers under their lock.
ChannelShutsDown ==
    /\ destroy = "detached" /\ ~history_shutdown
    /\ history_shutdown' = TRUE
    /\ pending_nacks' = {}
    /\ nack_task_scheduled' = FALSE
    /\ UNCHANGED <<rtx_enabled, capture_vars, pacer_vars, history_vars,
                   history_tasks, nack_post, nacks, pacer_shutdown,
                   history_stopped, destroy, faults>>

\* ClearTasks, then Stop, which waits for the running task.
ChannelStops ==
    /\ history_shutdown /\ ~history_stopped
    /\ history_stopped' = TRUE
    /\ history_tasks' = <<>>
    /\ UNCHANGED <<rtx_enabled, capture_vars, pacer_vars, history_vars, nack_vars,
                   pacer_shutdown, history_shutdown, destroy, faults>>

ChannelJoined ==
    /\ history_stopped /\ ~in_nack_task /\ history_tasks = <<>>
    /\ destroy = "detached"
    /\ destroy' = "done"
    /\ UNCHANGED <<rtx_enabled, capture_vars, pacer_vars, history_vars,
                   history_tasks, nack_vars, pacer_shutdown, history_shutdown,
                   history_stopped, faults>>

Done ==
    /\ destroy = "done"
    /\ UNCHANGED vars
-----------------------------------------------------------------------------
Init ==
    /\ rtx_enabled \in BOOLEAN
    /\ b_force_i_frame = TRUE /\ force_i_frame = FALSE
    /\ encode_queue = <<>> /\ encoding = <<>> /\ idr = FALSE
    /\ captured = 0 /\ frame = 0
    /\ pacer_tasks = <<>> /\ video_queue = <<>> /\ rtx_queue = <<>>
    /\ ssrc_seq \in FirstSeqs
    /\ packet_history = <<>> /\ history_tasks = <<>>
    /\ in_nack_task = FALSE /\ batch = {}
    /\ pending_nacks = {} /\ nack_task_scheduled = FALSE /\ nack_post = FALSE
    /\ pacer_shutdown = FALSE /\ history_shutdown = FALSE
    /\ history_stopped = FALSE /\ destroy = "no"
    /\ faults = 0 /\ nacks = 0 /\ firs = 0
    /\ out = <<>> /\ owed = "no"

EncodeThread == EncodeTaskStarts \/ EncodeTaskGivesUp \/ EncodeTask
PacerThread == EnqueuePacketsOnQueue \/ SendPacket
HistoryThread == HistoryTask \/ ProcessPendingNacks \/ ReSendPacket
                 \/ FinishPendingNacks
DestroyThread == DestroyDetaches \/ ChannelShutsDown \/ ChannelStops
                 \/ ChannelJoined

Next == \/ SendVideo \/ FullIntraRequest \/ EncodeThread
        \/ PacerThread \/ SendPadding \/ HistoryThread
        \/ OnReceiveNack \/ OnReceiveNackPosts \/ OnRttUpdate
        \/ DestroyBegins \/ DestroyThread \/ Done

\* The history queue's thread runs what is posted, and the network thread
\* finishes the call it is in.  Nothing else needs to move for the NACKs.
Fairness == WF_vars(HistoryThread) /\ WF_vars(OnReceiveNackPosts)

Spec == Init /\ [][Next]_vars /\ Fairness
-----------------------------------------------------------------------------
(* Properties                                                                *)

VideoPackets == [f : 0 .. MaxFrames, i : 0 .. PktsPerFrame, key : BOOLEAN]
Slots == {Hole} \cup [seq : Seqs, pkt : VideoPackets, pending : BOOLEAN,
                      resent : BOOLEAN]
SentPackets == [seq : Seqs, pkt : VideoPackets]
RtxPackets(S) == [osn : S, pkt : VideoPackets]
FrameTasks == [op : {"frame"}, f : 1 .. MaxFrames, key : BOOLEAN]
RtxTasks(S) == [op : {"rtx"}, osn : S, pkt : VideoPackets]
Puts == [op : {"put"}, seq : Seqs, pkt : VideoPackets]
Outcomes(S) == [op : {"sent", "aborted"}, seq : S]
NackTasks == [op : {"nacks"}]
HistoryTasks == Puts \cup Outcomes(Seqs) \cup NackTasks \cup [op : {"rtt"}]

Places == {"no", "asked", "admitted", "encoding", "told", "lost"}

\* How many elements of q, from position i on, are in S.
Count(q, i, S) == Cardinality({j \in i .. Len(q) : q[j] \in S})

\* Every variable has its type, one task at most waits behind the encoder, and
\* the history and the set of pending NACKs keep within kMaxCapacity.
TypeOK ==
    /\ {rtx_enabled, b_force_i_frame, force_i_frame, idr, in_nack_task,
        nack_task_scheduled, nack_post, pacer_shutdown, history_shutdown,
        history_stopped} \subseteq BOOLEAN
    /\ owed \in Places
    /\ encode_queue \in Seq(BOOLEAN) /\ Len(encode_queue) <= 1
    /\ encoding \in Seq(BOOLEAN) /\ Len(encoding) <= 1
    /\ captured \in 0 .. MaxFrames /\ frame \in 0 .. captured
    /\ pacer_tasks \in Seq(FrameTasks \cup RtxTasks(Seqs))
    /\ video_queue \in Seq(VideoPackets) /\ rtx_queue \in Seq(RtxPackets(Seqs))
    /\ ssrc_seq \in Seqs /\ out \in Seq(SentPackets)
    /\ packet_history \in Seq(Slots) /\ Len(packet_history) <= kMaxCapacity
    /\ history_tasks \in Seq(HistoryTasks)
    /\ batch \subseteq Seqs /\ Cardinality(batch) <= kMaxNacksPerTask
    /\ pending_nacks \subseteq Seqs
    /\ Cardinality(pending_nacks) <= kMaxCapacity
    /\ destroy \in {"no", "joining", "detached", "done"}
    /\ faults \in 0 .. MaxFaults /\ nacks \in 0 .. MaxNacks
    /\ firs \in 0 .. MaxFirs

\* The deque can be indexed by distance from its front: the front is a real
\* packet, and slot i holds the packet i - 1 numbers after it, over the wrap.
\* Without it GetStoredPacket would resend a packet nobody asked for.
HistoryAligned ==
    /\ packet_history # <<>> => packet_history[1] # Hole
    /\ \A i \in DOMAIN packet_history :
         packet_history[i] # Hole =>
            packet_history[i].seq = (packet_history[1].seq + i - 1) % SeqSpan

\* Every number a receiver can miss is repairable: what the history holds, and
\* then what it is about to be given, is an unbroken tail of what was numbered,
\* packets the transport refused to send included ("still owns a valid media
\* sequence number", video_channel_send.cpp:155).
HistoryIsTailOfOut ==
    LET n == Len(out) - Count(history_tasks, 1, Puts)
        h == Len(packet_history)
        same(p, q) == p.seq = q.seq /\ p.pkt = q.pkt
    IN  rtx_enabled /\ ~history_shutdown =>
          /\ h <= n
          /\ \A i \in 1 .. h : packet_history[i] # Hole
                               /\ same(packet_history[i], out[n - h + i])
          /\ \A i \in DOMAIN history_tasks : history_tasks[i] \in Puts =>
                same(history_tasks[i], out[Len(out) - Count(history_tasks, i + 1, Puts)])

\* Retransmissions of packet s that were not yet reported back to the history.
InFlight(s) ==
    Count(pacer_tasks, 1, RtxTasks({s})) + Count(rtx_queue, 1, RtxPackets({s}))
    + Count(history_tasks, 1, Outcomes({s}))

\* A stored packet is marked pending exactly while one retransmission of it is
\* in the pacer or its outcome is queued: it is never resent twice at a time,
\* and no mark outlives its retransmission, which would end the packet's
\* retransmissions for good.
PendingIsInFlight ==
    ~pacer_shutdown =>
        \A i \in DOMAIN packet_history :
            packet_history[i] # Hole =>
                InFlight(packet_history[i].seq)
                  = IF packet_history[i].pending THEN 1 ELSE 0

\* The flag nack_task_scheduled_ is right: it stands for exactly one task, one
\* that is about to be posted, queued or running, and no NACK waits without it.
NacksHaveTask ==
    ~history_shutdown =>
      /\ pending_nacks # {} => nack_task_scheduled
      /\ (IF nack_task_scheduled THEN 1 ELSE 0)
           = Count(history_tasks, 1, NackTasks)
             + (IF nack_post THEN 1 ELSE 0) + (IF in_nack_task THEN 1 ELSE 0)

\* Every packet a receiver can miss can be repaired, once at a time, and every
\* request for it has a task that will look at it.
RepairIsSound ==
    /\ TypeOK
    /\ HistoryAligned
    /\ HistoryIsTailOfOut
    /\ PendingIsInFlight
    /\ NacksHaveTask

\* The stream as it leaves: what was sent, then what waits in the pacer.
Stream == [i \in DOMAIN out |-> out[i].pkt] \o video_queue

\* The flush before a key frame cuts nothing a decoder needs: packets leave in
\* the encoder's order, each one follows its predecessor, but for padding,
\* directly or is the first of a key frame, and a key frame is never cut short
\* by the next one.
SkipsOnlyToKeyFrames ==
    \A m, n \in DOMAIN Stream :
        LET a == Stream[m]
            b == Stream[n]
        IN  m < n /\ a.f # 0 /\ b.f # 0 /\ (\A k \in m + 1 .. n - 1 : Stream[k].f = 0) =>
              \/ b.f = a.f /\ b.i = a.i + 1
              \/ b.i = 1 /\ b.f = a.f + 1 /\ a.i = PktsPerFrame
              \/ b.i = 1 /\ b.f > a.f /\ b.key /\ (a.key => a.i = PktsPerFrame)

\* The failure of one frame loses no request but the ones that frame carried.
\* The newest FIR is in force_i_frame_streams_ until a frame is admitted, goes
\* with that frame through the encode queue, back to the set when ForceIdr
\* fails, and into the encoder: wherever it has to be, it is, whatever frames
\* before it did and whichever failed.  A frame that cannot be converted, and an
\* encoder that yields nothing and forgets, lose the request they hold; then
\* owed is "lost" until the receiver asks again.
KeyRequestIsHeld ==
    /\ owed = "asked" => force_i_frame
    /\ owed = "admitted" => encode_queue = <<TRUE>>
    /\ owed = "encoding" => encoding = <<TRUE>>
    /\ owed = "told" => idr

\* The pending NACKs are all served, or dropped with the channel, whatever the
\* batches, the numbers that arrive meanwhile and the shutdown do.
NacksAreServed == pending_nacks # {} ~> pending_nacks = {}
=============================================================================
