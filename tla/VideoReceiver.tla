---------------------------- MODULE VideoReceiver ----------------------------
(***************************************************************************)
(* Loss recovery in the video receiver: RtpVideoReceiver and the           *)
(* NackRequester it owns (transport/channel/rtp_video_receiver.cpp,        *)
(* qos/nack_requester.cc).                                                 *)
(*                                                                         *)
(* Three threads share the state:                                          *)
(*   "net"     the transport's receive thread, in InsertRtpPacket;         *)
(*   "process" the receiver's own thread, which calls Process() forever;   *)
(*   "decode"  the decode queue, which asks for a key frame when a frame   *)
(*             it was given cannot be decoded.                             *)
(* An action is what a thread does under one acquisition of nack_mtx_,     *)
(* pending_frames_mtx_ or rtcp_sender_mtx_ (Process takes the first two    *)
(* together); frame_assembly_mtx_ is held by "net" from TrackPacket to     *)
(* CommitFrame, which is why DropFrameAssembly waits for pc "commit".      *)
(*                                                                         *)
(* Sequence numbers and RTP timestamps are naturals that do not wrap; a    *)
(* frame's timestamp is its number.  Time is not modelled: which NACKs are *)
(* due and how old the head frame is are choices made when they are read.  *)
(***************************************************************************)
EXTENDS Naturals, FiniteSets

CONSTANTS
    MaxFrames,       \* the sender's frames are 1..MaxFrames
    LastPacket,      \* LastPacket[f] is the last sequence number of frame f
    MaxNackPackets,  \* kMaxNackPackets
    MaxFaults        \* bound on corrupt payloads and decoder failures

Frames == 1 .. MaxFrames
FirstPacket(f) == IF f = 1 THEN 1 ELSE LastPacket[f - 1] + 1
Packets(f) == FirstPacket(f) .. LastPacket[f]
AllPackets == UNION { Packets(f) : f \in Frames }
FrameOf(s) == CHOOSE f \in Frames : s \in Packets(f)

ASSUME LayoutAssumption ==
    /\ MaxFrames \in Nat \ {0}
    /\ LastPacket \in [Frames -> Nat \ {0}]
    /\ \A f \in Frames : FirstPacket(f) <= LastPacket[f]
ASSUME BoundsAssumption == MaxNackPackets \in Nat /\ MaxFaults \in Nat

Threads == {"net", "process", "decode"}

VARIABLES
    \* the sending side and the network, as far as the receiver can tell
    keys,        \* the frames that are key frames
    flight,      \* media packets that have not arrived (some never will)
    rtx,         \* retransmissions that have not arrived
    \* NackRequester, under nack_mtx_
    newest,      \* newest_seq_num_, 0 before the first packet
    nacks,       \* the sequence numbers in nack_list_
    sending,     \* those whose send_pending is set
    \* RtpVideoReceiver
    pending,     \* pending_frames_
    parts,       \* fragments in incomplete_{h264,av1}_frame_list_
    awaiting,    \* awaiting_keyframe_
    lastDone,    \* last_complete_frame_ts_, 0 when unset
    lastDropped, \* last_discarded_frame_ts_, 0 when unset
    firWait,     \* now is before next_keyframe_request_ms_
    \* the threads
    pc,          \* what each thread does next
    after,       \* where it goes once its RTCP packet is sent
    batch,       \* the NACK batch it is sending
    pkt,         \* the packet "net" is inserting (NoPacket when there is none)
    dropping,    \* the frame "process" is dropping, and whether it timed out
    faults,      \* faults so far, at most MaxFaults
    \* history, read by the properties only
    skipped,     \* frames dropped to wait for a key frame, not marked discarded
    writtenOff,  \* lost packets the receiver will not ask for (again)
    revived      \* frames given an entry after they had become obsolete

network == <<keys, flight, rtx>>
nackState == <<newest, nacks, sending>>
frameState == <<pending, parts, awaiting, lastDone, lastDropped>>
threadState == <<pc, after, batch, pkt, dropping>>
history == <<skipped, writtenOff, revived>>
vars == <<network, nackState, frameState, firWait, threadState, faults, history>>

-----------------------------------------------------------------------------
(* An entry of pending_frames_; "none" when the map has no such timestamp.   *)
NoFrame == [state |-> "none", last |-> 0, escalated |-> FALSE, softFir |-> FALSE]
PendingFrame ==
    [state : {"none", "partial", "complete"}, last : AllPackets \cup {0},
     escalated : BOOLEAN, softFir : BOOLEAN]

Present == { f \in Frames : pending[f].state # "none" }
Complete(f) == pending[f].state = "complete"
Head(f) == f \in Present /\ \A g \in Present : f <= g
Obsolete(f) == f <= lastDone \/ f <= lastDropped
CompleteKey(f) == Complete(f) /\ f \in keys
UpTo(s) == { n \in nacks : n <= s }

\* Mutant: only the frame's own losses hold it back.
BlockedByOwn(f) == UpTo(pending[f].last) \cap Packets(f) # {}

Blocked(f) == UpTo(pending[f].last) # {}

GoTo(t, place) == pc' = [pc EXCEPT ![t] = place]

(* "net" is done with its packet.                                            *)
NoPacket == 0
NoDrop == [frame |-> 0, timedOut |-> FALSE]
ReturnToSocket == GoTo("net", "idle") /\ pkt' = NoPacket

(* A thread sends an RTCP packet, step by step from pc[t] = how, and then    *)
(* goes to next.                                                             *)
Send(t, how, next) ==
    /\ GoTo(t, how)
    /\ after' = [after EXCEPT ![t] = next]
Return(t) ==
    /\ GoTo(t, after[t])
    /\ after' = [after EXCEPT ![t] = "idle"]
    /\ pkt' = IF t = "net" /\ after[t] = "idle" THEN NoPacket ELSE pkt

Init ==
    /\ keys \in { k \in SUBSET Frames : 1 \in k }
    /\ flight = AllPackets /\ rtx = {}
    /\ newest = 0 /\ nacks = {} /\ sending = {}
    /\ pending = [f \in Frames |-> NoFrame] /\ parts = {}
    /\ awaiting = FALSE /\ lastDone = 0 /\ lastDropped = 0
    /\ firWait = FALSE
    /\ pc = [net |-> "idle", process |-> "nacks", decode |-> "idle"]
    /\ after = [t \in Threads |-> "idle"]
    /\ batch = [t \in Threads |-> {}]
    /\ pkt = NoPacket
    /\ dropping = NoDrop
    /\ faults = 0
    /\ skipped = {} /\ writtenOff = {} /\ revived = {}

-----------------------------------------------------------------------------
(* The sender and the network.  The stream is there from the start, a packet *)
(* not yet sent being one that has not arrived; the first frame is a key     *)
(* frame (b_force_i_frame_) and any other may be one.  Packets arrive in any *)
(* order and need not arrive at all.                                         *)

(* The clock reaches next_keyframe_request_ms_.                              *)
FirTimer ==
    /\ firWait
    /\ firWait' = FALSE
    /\ UNCHANGED <<network, nackState, frameState, threadState, faults, history>>

-----------------------------------------------------------------------------
(* Sending RTCP, on the thread that decided to.                              *)

(* SendNack: the datagram may be refused, lost, or answered in part by a     *)
(* retransmission of what the sender still has; a refused one only delays    *)
(* the next attempt.                                                         *)
SendNack(t) ==
    /\ pc[t] = "send"
    /\ \E answered \in SUBSET batch[t] : rtx' = rtx \cup answered
    /\ GoTo(t, "sent")
    /\ UNCHANGED <<keys, flight, nackState, frameState,
                   firWait, after, batch, pkt, dropping, faults, history>>

(* OnNackBatchSent, under nack_mtx_ again.                                   *)
OnNackBatchSent(t) ==
    /\ pc[t] = "sent"
    /\ sending' = sending \ batch[t]
    /\ batch' = [batch EXCEPT ![t] = {}]
    /\ Return(t)
    /\ UNCHANGED <<network, newest, nacks, frameState, firWait, dropping, faults,
                   history>>

(* The first half of RequestKeyFrame: enter the awaiting state.              *)
EnterAwaiting(t) ==
    /\ pc[t] = "await"
    /\ awaiting' = TRUE
    /\ GoTo(t, "fir")
    /\ UNCHANGED <<network, nackState, pending, parts, lastDone, lastDropped,
                   firWait, after, batch, pkt, dropping, faults, history>>

(* SendKeyFrameRequest under rtcp_sender_mtx_: suppressed inside the retry   *)
(* interval; a FIR that is sent and one the transport refuses both start an  *)
(* interval (kFirRetryIntervalMs, kFailedFirRetryIntervalMs).                *)
SendKeyFrameRequest(t) ==
    /\ pc[t] = "fir"
    /\ Return(t)
    /\ \/ /\ firWait
          /\ UNCHANGED firWait
       \/ /\ ~firWait
          /\ firWait' = TRUE
    /\ UNCHANGED <<network, nackState, frameState, batch, dropping, faults,
                   history>>

-----------------------------------------------------------------------------
(* The receive thread: InsertRtpPacket.                                      *)

(* A packet arrives and its frame is compared, under pending_frames_mtx_,    *)
(* with the frames already delivered or abandoned.  An obsolete packet goes  *)
(* no further, except that a retransmission still retires its NACK.          *)
Receive(s, isRtx) ==
    /\ pc["net"] = "idle"
    /\ IF isRtx THEN /\ s \in rtx
                     /\ rtx' = rtx \ {s}
                     /\ UNCHANGED flight
                ELSE /\ s \in flight
                     /\ flight' = flight \ {s}
                     /\ UNCHANGED rtx
    /\ IF Obsolete(FrameOf(s)) /\ ~isRtx
       THEN UNCHANGED <<pc, pkt>>
       ELSE /\ pkt' = s
            /\ GoTo("net", IF Obsolete(FrameOf(s)) THEN "late" ELSE "insert")
    /\ UNCHANGED <<keys, nackState, frameState, firWait,
                   after, batch, dropping, faults, history>>

(* NackRequester::OnReceivedPacket for a packet that is not ahead of the     *)
(* newest one: retire its NACK.                                              *)
Retire(s) ==
    /\ nacks' = nacks \ {s}
    /\ sending' = sending \ {s}
    /\ UNCHANGED newest

LateRtx ==
    /\ pc["net"] = "late"
    /\ Retire(pkt)
    /\ ReturnToSocket
    /\ UNCHANGED <<network, frameState, firWait, after, batch, dropping,
                   faults, history>>

FirstEver ==
    /\ pc["net"] = "insert" /\ newest = 0
    /\ newest' = pkt
    \* nothing before the first packet is ever asked for
    /\ writtenOff' = { s \in AllPackets : s < pkt }
    /\ GoTo("net", "unpack")
    /\ UNCHANGED <<network, nacks, sending, frameState, firWait, after, batch,
                   pkt, dropping, faults, skipped, revived>>

OutOfOrder ==
    /\ pc["net"] = "insert" /\ newest # 0 /\ pkt <= newest
    /\ Retire(pkt)
    /\ GoTo("net", "unpack")
    /\ UNCHANGED <<network, frameState, firWait, after, batch, pkt, dropping,
                   faults, history>>

(* AddPacketsToNack followed by GetNackBatch(kSeqNumOnly), which leaves the  *)
(* entries just made alone (kDefaultSendNackDelay).                          *)
Gap == (newest + 1) .. (pkt - 1)
Overflows == Cardinality(nacks) + Cardinality(Gap) > MaxNackPackets

InOrder ==
    /\ pc["net"] = "insert" /\ newest # 0 /\ pkt > newest /\ ~Overflows
    /\ newest' = pkt
    /\ nacks' = nacks \cup Gap
    /\ \E due \in SUBSET (nacks \ sending) :
         /\ sending' = sending \cup due
         /\ batch' = [batch EXCEPT !["net"] = due]
         /\ IF due = {} THEN GoTo("net", "unpack") /\ UNCHANGED after
                        ELSE Send("net", "send", "unpack")
    /\ UNCHANGED <<network, frameState, firWait, pkt, dropping, faults, history>>

(* The list is full: forget every loss and ask for a key frame.              *)
Overflow ==
    /\ pc["net"] = "insert" /\ newest # 0 /\ pkt > newest /\ Overflows
    /\ newest' = pkt
    /\ nacks' = {} /\ sending' = {}
    /\ writtenOff' = writtenOff \cup nacks \cup Gap
    /\ Send("net", "await", "unpack")
    /\ UNCHANGED <<network, frameState, firWait, batch, pkt, dropping, faults,
                   skipped, revived>>

(* The codec cannot parse the payload: ask for a key frame and return.       *)
Corrupt ==
    /\ pc["net"] = "unpack" /\ faults < MaxFaults
    /\ faults' = faults + 1
    /\ writtenOff' = writtenOff \cup {pkt}
    /\ Send("net", "await", "idle")
    /\ UNCHANGED <<network, nackState, frameState, firWait, batch, pkt,
                   dropping, skipped, revived>>

Committed(f) == [state |-> "complete", last |-> LastPacket[f],
                 escalated |-> FALSE, softFir |-> FALSE]

(* A frame of one packet is a single NALU: it is committed at once, whether  *)
(* or not the frame has an entry.                                            *)
InsertNalu ==
    LET f == FrameOf(pkt) IN
    /\ pc["net"] = "unpack" /\ Packets(f) = {pkt}
    /\ pending' = [pending EXCEPT ![f] = Committed(f)]
    /\ revived' = IF Obsolete(f) THEN revived \cup {f} ELSE revived
    /\ ReturnToSocket
    /\ UNCHANGED <<network, nackState, parts, awaiting, lastDone, lastDropped,
                   firWait, after, batch, dropping, faults, skipped,
                   writtenOff>>

Tracked(f) ==
    [pending[f] EXCEPT !.state = IF @ = "none" THEN "partial" ELSE @,
                       !.last = IF pkt > @ THEN pkt ELSE @]

(* A fragment is stored and TrackPendingFramePacket makes or moves on the    *)
(* frame's entry.                                                            *)
TrackPacket ==
    LET f == FrameOf(pkt) IN
    /\ pc["net"] = "unpack" /\ Packets(f) # {pkt}
    /\ parts' = parts \cup {pkt}
    /\ pending' = [pending EXCEPT ![f] = Tracked(f)]
    /\ revived' = IF Obsolete(f) THEN revived \cup {f} ELSE revived
    /\ GoTo("net", "commit")
    /\ UNCHANGED <<network, nackState, awaiting, lastDone, lastDropped, firWait,
                   after, batch, pkt, dropping, faults, skipped, writtenOff>>

(* Check...FrameCompleted: when all fragments are there they are taken out,  *)
(* and CommitPendingFrame keeps the frame if it still has an entry.          *)
CommitFrame ==
    LET f == FrameOf(pkt)
        whole == Packets(f) \subseteq parts
    IN
    /\ pc["net"] = "commit"
    /\ parts' = IF whole THEN parts \ Packets(f) ELSE parts
    /\ pending' = IF whole /\ f \in Present
                  THEN [pending EXCEPT ![f] = Committed(f)] ELSE pending
    /\ ReturnToSocket
    /\ UNCHANGED <<network, nackState, awaiting, lastDone, lastDropped, firWait,
                   after, batch, dropping, faults, history>>

-----------------------------------------------------------------------------
(* The receiver's thread: Process.                                           *)

(* Process asks for a key frame only outside the retry interval.             *)
MaybeFir(next) ==
    IF firWait THEN GoTo("process", next) /\ UNCHANGED after
    ELSE Send("process", "fir", next)

\* Mutant: entries another thread is sending are taken again.
ProcessNacksAgain ==
    /\ pc["process"] = "nacks"
    /\ \E due \in SUBSET nacks :
         /\ sending' = sending \cup due
         /\ batch' = [batch EXCEPT !["process"] = due]
         /\ IF due = {} THEN GoTo("process", "retry") /\ UNCHANGED after
                        ELSE Send("process", "send", "retry")
    /\ UNCHANGED <<network, newest, nacks, frameState, firWait, pkt, dropping,
                   faults, history>>

(* ProcessPendingNacks: GetNackBatch(kTimeOnly).                             *)
ProcessNacks ==
    /\ pc["process"] = "nacks"
    /\ \E due \in SUBSET (nacks \ sending) :
         /\ sending' = sending \cup due
         /\ batch' = [batch EXCEPT !["process"] = due]
         /\ IF due = {} THEN GoTo("process", "retry") /\ UNCHANGED after
                        ELSE Send("process", "send", "retry")
    /\ UNCHANGED <<network, newest, nacks, frameState, firWait, pkt, dropping,
                   faults, history>>

\* Mutant: the request is not repeated.
NeverRetry ==
    /\ pc["process"] = "retry"
    /\ GoTo("process", "head")
    /\ UNCHANGED <<network, nackState, frameState, firWait, after, batch, pkt,
                   dropping, faults, history>>

(* MaybeRetryKeyFrameRequest: not while a complete key frame is waiting to   *)
(* be consumed, and not inside the retry interval.                           *)
MaybeRetryKeyFrameRequest ==
    /\ pc["process"] = "retry"
    /\ IF awaiting /\ \A f \in Frames : ~CompleteKey(f)
       THEN MaybeFir("head")
       ELSE GoTo("process", "head") /\ UNCHANGED after
    /\ UNCHANGED <<network, nackState, frameState, firWait, batch, pkt, dropping,
                   faults, history>>

(* What one turn of the loop decides about the head of pending_frames_, in   *)
(* the order of the code's branches.                                         *)
Older(f) == Head(f) /\ f <= lastDone
KeyBehind(f) ==
    /\ awaiting \/ pending[f].escalated
    /\ ~CompleteKey(f)
    /\ \E g \in Frames : g > f /\ CompleteKey(g)
Superseded(f) == Head(f) /\ ~Older(f) /\ KeyBehind(f)
Settled(f) == Older(f) \/ KeyBehind(f)
Deliverable(f) == Complete(f) /\ (awaiting \/ ~Blocked(f))
Stalled(f) == Head(f) /\ ~Settled(f) /\ ~Deliverable(f)

Erase(f) == pending' = [pending EXCEPT ![f] = NoFrame]
AtHead == pc["process"] = "head"

NoFrames ==
    /\ AtHead /\ Present = {}
    /\ GoTo("process", "nacks")
    /\ UNCHANGED <<network, nackState, frameState, firWait, after, batch, pkt,
                   dropping, faults, history>>

(* A frame older than the last delivered one, or one that a complete key     *)
(* frame behind it makes useless, is dropped.                                *)
DropUseless(f) ==
    /\ AtHead
    /\ \/ Older(f) /\ UNCHANGED <<awaiting, skipped>>
       \/ Superseded(f) /\ awaiting' = TRUE /\ skipped' = skipped \cup {f}
    /\ Erase(f)
    /\ dropping' = [frame |-> f, timedOut |-> FALSE]
    /\ GoTo("process", "drop")
    /\ UNCHANGED <<network, nackState, parts, lastDone, lastDropped, firWait,
                   after, batch, pkt, faults, writtenOff,
                   revived>>

(* The awaited key frame: losses up to its end no longer matter.             *)
DeliverAwaitedKey(f) ==
    /\ AtHead /\ Head(f) /\ ~Settled(f)
    /\ awaiting /\ CompleteKey(f)
    /\ awaiting' = FALSE
    /\ nacks' = nacks \ UpTo(pending[f].last)
    /\ sending' = sending \ UpTo(pending[f].last)
    /\ lastDone' = f
    /\ Erase(f)
    /\ UNCHANGED <<network, newest, parts, lastDropped, firWait, threadState,
                   faults, history>>

(* A complete delta frame is useless while a key frame is awaited.           *)
SkipDelta(f) ==
    /\ AtHead /\ Head(f) /\ ~Settled(f)
    /\ awaiting /\ Complete(f) /\ ~CompleteKey(f)
    /\ Erase(f)
    /\ skipped' = skipped \cup {f}
    /\ dropping' = [frame |-> f, timedOut |-> FALSE]
    /\ GoTo("process", "drop")
    /\ UNCHANGED <<network, nackState, parts, awaiting, lastDone, lastDropped,
                   firWait, after, batch, pkt, faults, writtenOff,
                   revived>>

(* A complete frame with no loss outstanding up to its end.                  *)
Deliver(f) ==
    /\ AtHead /\ Head(f) /\ ~Settled(f)
    /\ ~awaiting /\ Complete(f) /\ ~Blocked(f)
    /\ lastDone' = f
    /\ Erase(f)
    /\ UNCHANGED <<network, nackState, parts, awaiting, lastDropped, firWait,
                   threadState, faults, history>>

(* Give the frame and its losses up for a key frame.                         *)
Abandon(f) ==
    /\ awaiting' = TRUE
    /\ nacks' = nacks \ UpTo(pending[f].last)
    /\ sending' = sending \ UpTo(pending[f].last)
    /\ lastDropped' = IF f > lastDropped THEN f ELSE lastDropped
    /\ Erase(f)
    /\ dropping' = [frame |-> f, timedOut |-> TRUE]
    /\ GoTo("process", "drop")
    /\ UNCHANGED <<network, newest, parts, lastDone, firWait, after, batch, pkt,
                   faults, history>>

\* Mutant: only an incomplete frame has a hard deadline.
HardTimeoutPartial(f) == AtHead /\ Stalled(f) /\ ~Complete(f) /\ Abandon(f)

(* The head frame is past its hard deadline.                                 *)
HardTimeout(f) == AtHead /\ Stalled(f) /\ Abandon(f)

(* The soft deadline is a warning first ...                                  *)
Escalate(f) ==
    /\ AtHead /\ Stalled(f) /\ ~pending[f].escalated
    /\ pending' = [pending EXCEPT ![f].escalated = TRUE]
    /\ GoTo("process", "nacks")
    /\ UNCHANGED <<network, nackState, parts, awaiting, lastDone, lastDropped,
                   firWait, after, batch, pkt, dropping, faults, history>>

(* ... and a key frame request after the confirmation delay.                 *)
RequestSoftFir(f) ==
    /\ AtHead /\ Stalled(f) /\ pending[f].escalated /\ ~pending[f].softFir
    /\ pending' = [pending EXCEPT ![f].softFir = TRUE]
    /\ MaybeFir("nacks")
    /\ UNCHANGED <<network, nackState, parts, awaiting, lastDone, lastDropped,
                   firWait, batch, pkt, dropping, faults, history>>

(* No deadline has passed: leave the head where it is.                       *)
LeaveHead(f) ==
    /\ AtHead /\ Stalled(f)
    /\ GoTo("process", "nacks")
    /\ UNCHANGED <<network, nackState, frameState, firWait, after, batch, pkt,
                   dropping, faults, history>>

\* Mutant: the fragments of a dropped frame are left in the lists.
LeaveFragments ==
    /\ pc["process"] = "drop" /\ pc["net"] # "commit"
    /\ dropping' = NoDrop
    /\ IF dropping.timedOut THEN MaybeFir("nacks")
       ELSE GoTo("process", "head") /\ UNCHANGED after
    /\ UNCHANGED <<network, nackState, frameState, firWait, batch, pkt, faults,
                   history>>

(* DropFrameAssembly, then on with the loop, or after a hard timeout the     *)
(* request for a key frame.                                                  *)
DropFrameAssembly ==
    /\ pc["process"] = "drop" /\ pc["net"] # "commit"
    /\ parts' = parts \ Packets(dropping.frame)
    /\ dropping' = NoDrop
    /\ IF dropping.timedOut THEN MaybeFir("nacks")
       ELSE GoTo("process", "head") /\ UNCHANGED after
    /\ UNCHANGED <<network, nackState, pending, awaiting, lastDone, lastDropped,
                   firWait, batch, pkt, faults, history>>

-----------------------------------------------------------------------------
(* The decode queue: a delivered frame fails to decode (RequestKeyFrame).    *)
DecoderFails ==
    /\ pc["decode"] = "idle" /\ lastDone # 0 /\ faults < MaxFaults
    /\ faults' = faults + 1
    /\ GoTo("decode", "await")
    /\ UNCHANGED <<network, nackState, frameState, firWait, after, batch, pkt,
                   dropping, history>>

-----------------------------------------------------------------------------
Rtcp(t) ==
    \/ SendNack(t) \/ OnNackBatchSent(t)
    \/ EnterAwaiting(t) \/ SendKeyFrameRequest(t)

NetStep ==
    \/ LateRtx \/ FirstEver \/ OutOfOrder \/ InOrder \/ Overflow
    \/ Corrupt \/ InsertNalu \/ TrackPacket \/ CommitFrame

HeadStep(f) ==
    \/ DropUseless(f) \/ DeliverAwaitedKey(f) \/ SkipDelta(f) \/ Deliver(f)
    \/ HardTimeout(f) \/ Escalate(f) \/ RequestSoftFir(f) \/ LeaveHead(f)

ProcessStep ==
    \/ ProcessNacks \/ MaybeRetryKeyFrameRequest \/ NoFrames
    \/ DropFrameAssembly
    \/ \E f \in Frames : HeadStep(f)

Next ==
    \/ FirTimer
    \/ \E s \in AllPackets, isRtx \in BOOLEAN : Receive(s, isRtx)
    \/ NetStep \/ ProcessStep \/ DecoderFails
    \/ \E t \in Threads : Rtcp(t)

(* Every thread that has something to do goes on doing it, and time passes:  *)
(* the retry interval ends, and a frame that Process keeps finding stalled   *)
(* at the head is one day found older than its hard deadline.  Nothing is    *)
(* assumed of the network: a packet may never arrive.                        *)
Fairness ==
    /\ WF_vars(NetStep \/ Rtcp("net"))
    /\ WF_vars(ProcessStep \/ Rtcp("process"))
    /\ WF_vars(Rtcp("decode"))
    /\ WF_vars(FirTimer)
    /\ SF_vars(\E f \in Frames : HardTimeout(f))

Spec == Init /\ [][Next]_vars /\ Fairness

-----------------------------------------------------------------------------
(* The types of the state.                                                   *)
TypeOK ==
    /\ keys \subseteq Frames
    /\ firWait \in BOOLEAN
    /\ flight \subseteq AllPackets /\ rtx \subseteq AllPackets
    /\ newest \in AllPackets \cup {0}
    /\ nacks \subseteq AllPackets /\ sending \subseteq nacks
    /\ pending \in [Frames -> PendingFrame] /\ parts \subseteq AllPackets
    /\ awaiting \in BOOLEAN
    /\ lastDone \in Frames \cup {0} /\ lastDropped \in Frames \cup {0}
    /\ pc \in [Threads -> {"idle", "late", "insert", "unpack", "commit", "nacks",
                           "send", "sent", "retry", "head", "drop", "await",
                           "fir"}]
    /\ after \in [Threads -> {"idle", "unpack", "retry", "head", "nacks"}]
    /\ batch \in [Threads -> SUBSET AllPackets]
    /\ pkt \in AllPackets \cup {NoPacket}
    /\ dropping \in [frame : Frames \cup {0}, timedOut : BOOLEAN]
    /\ faults \in 0 .. MaxFaults
    /\ skipped \subseteq Frames /\ writtenOff \subseteq AllPackets
    /\ revived \subseteq Frames

(* GetNackBatch passes over an entry whose send_pending is set, so a flag    *)
(* left behind would end the retries of that packet.  Every such entry is    *)
(* in exactly one batch whose sender has still to report on it, whatever     *)
(* retires, clears and batches happen while that thread is sending.          *)
SendPendingIsOwned ==
    \A s \in sending :
      Cardinality({ t \in Threads : pc[t] \in {"send", "sent"} /\ s \in batch[t] }) = 1

(* Packets of frames already handed to the decoder are never asked for: once *)
(* InsertRtpPacket and Process have gone over a frame in either order, none  *)
(* of its packets is in the NACK list.                                       *)
NacksAreUseful == \A s \in nacks : FrameOf(s) > lastDone

(* A fragment that stays in the assembly lists belongs to a frame Process    *)
(* will still look at, to one it is about to clear, or to one that was       *)
(* delivered: dropping a frame while its packets keep arriving leaves        *)
(* nothing behind.                                                           *)
FragmentsAreReachable ==
    \A s \in parts :
      LET f == FrameOf(s) IN
      \/ f \in Present
      \/ f <= lastDone
      \/ pc["process"] = "drop" /\ dropping.frame = f

(* From the hard timeout of a frame until a later one is delivered, the      *)
(* receiver is waiting for a key frame, whatever the other threads do; only  *)
(* a key frame that InsertRtpPacket had found current just before the        *)
(* timeout can end the wait early.                                           *)
AbandonedNeedsKey == lastDropped > lastDone => awaiting \/ lastDone \in revived

(* The NACK list holds what is still worth asking for, and each entry can be *)
(* asked for again.                                                          *)
NackListIsSound == TypeOK /\ SendPendingIsOwned /\ NacksAreUseful

(* Frames that are given up leave neither fragments nor a decoder that goes  *)
(* on without its key frame.                                                 *)
AssemblyIsSound == FragmentsAreReachable /\ AbandonedNeedsKey

(* A frame between the last one delivered and delta frame g may be missing   *)
(* only for a reason the code knows about: it was dropped in favour of a key *)
(* frame, or one of its packets preceded the first one received, was         *)
(* forgotten when the NACK list overflowed, was corrupt, or is in the hands  *)
(* of InsertRtpPacket, which retires the NACK before it stores the packet;   *)
(* or it was abandoned and then an older key frame was revived.              *)
Excused(f) ==
    \/ f \in skipped
    \/ f <= lastDropped /\ lastDone \in revived
    \/ \E s \in Packets(f) :
         s \in writtenOff \/ (pc["net"] # "idle" /\ pkt = s)

(* The decoder never gets a delta frame whose predecessor is missing without *)
(* one of those reasons, and never a frame out of order.                     *)
GapsAreAccountedFor ==
    [][lastDone' # lastDone =>
         /\ lastDone' > lastDone
         /\ \/ lastDone' \in keys
            \/ \A f \in (lastDone + 1) .. (lastDone' - 1) : Excused(f)]_vars

(* Whatever the network loses, no frame stays tracked for ever: Process      *)
(* delivers or drops each, and pending_frames_ drains.                       *)
PendingFramesDrain == []<>(Present = {})

(* A receiver that waits for a key frame keeps asking: it gets one, or it    *)
(* sends a FIR and so starts another retry interval, although requests are   *)
(* suppressed, and skipped while a complete key frame is queued.             *)
KeyFrameIsRequested == awaiting ~> (~awaiting \/ firWait)

(* What the comment on MarkFrameDiscardedLocked in Process says: a late      *)
(* fragment cannot recreate an abandoned frame and time out a second time.   *)
TimesOutOnce ==
    [][\A f \in Frames :
         (dropping' # dropping /\ dropping'.timedOut /\ dropping'.frame = f)
           => f # lastDropped]_vars

(* A complete key frame is a synchronization point and is not thrown away.   *)
CompleteKeysSurvive ==
    [][\A f \in Frames :
         (lastDropped' # lastDropped /\ lastDropped' = f) => ~CompleteKey(f)]_vars
=============================================================================
