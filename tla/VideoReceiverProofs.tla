------------------------- MODULE VideoReceiverProofs -------------------------
(* The NACK list, the assembly lists and the order of delivery of the video  *)
(* receiver are sound for every layout of frames into packets, every limit   *)
(* of the NACK list and any number of faults.                                *)
(*                                                                           *)
(* The argument: a packet up to newest_seq_num_ is never simply forgotten.   *)
(* It is in the NACK list, in the hands of InsertRtpPacket or written off,   *)
(* or its frame has an entry or was delivered, dropped or skipped.           *)
EXTENDS VideoReceiver, FiniteSetTheorems, TLAPS

\* What InsertRtpPacket knows of the packet it holds, from pc to pc.
InHand ==
    /\ pc["net"] \in {"idle", "late", "insert", "unpack", "commit",
                      "send", "sent", "await", "fir"}
    /\ after["net"] \in {"idle", "unpack"}
    /\ pc["net"] # "idle" => pkt \in AllPackets
    /\ pc["net"] \in {"idle", "late", "insert", "unpack", "commit"} => after["net"] = "idle"
    /\ pc["net"] \in {"unpack", "commit", "send", "sent", "await", "fir"} => pkt <= newest
    /\ pc["net"] = "late" => Obsolete(FrameOf(pkt))

\* Entries of pending_frames_ and fragments are made of packets received.
Entries ==
    /\ \A f \in Frames : pending[f].state = "none" => pending[f].last = 0
    /\ \A f \in Present : pending[f].last \in Packets(f) /\ pending[f].last <= newest
    /\ \A f \in Frames : Complete(f) => pending[f].last = LastPacket[f]
    /\ \A s \in parts : s <= newest
    /\ lastDone # 0 => LastPacket[lastDone] <= newest

\* An entry that is being sent is in the one batch of the thread that sends
\* it; entries that were retired meanwhile may linger in batches.
Batches ==
    /\ \A s \in nacks : s <= newest
    /\ \A t \in Threads : pc[t] \notin {"send", "sent"} => batch[t] = {}
    /\ \A t \in Threads : \A s \in batch[t] : s <= newest /\ (s \in nacks => s \in sending)
    /\ \A t, u \in Threads : \A s \in batch[t] \cap batch[u] : s \in nacks => t = u
    /\ \A s \in sending : \E t \in Threads : s \in batch[t]

\* An entry for an abandoned frame was made after it was abandoned.
LateEntries == \A f \in Present : f <= lastDropped => f \in revived

\* Frame f is or was in the hands of Process.
Known(f) == f \in Present \/ f \in skipped \/ Obsolete(f)

\* Every packet up to the newest is accounted for.
Accounted ==
    /\ \A s \in AllPackets : s <= newest =>
          \/ s \in nacks \/ s \in writtenOff
          \/ pc["net"] # "idle" /\ pkt = s
          \/ Known(FrameOf(s))
    /\ pc["net"] = "commit" => Known(FrameOf(pkt))
    /\ pc["net"] \in {"send", "sent", "await", "fir"} /\ after["net"] = "idle"
          => pkt \in writtenOff

IInv ==
    /\ TypeOK /\ InHand /\ Entries /\ Batches /\ NacksAreUseful
    /\ FragmentsAreReachable /\ LateEntries /\ AbandonedNeedsKey /\ Accounted
-----------------------------------------------------------------------------
(* The layout of frames into packets                                         *)

\* A nonempty set of naturals has a least element.
LEMMA Least ==
    ASSUME NEW T \in SUBSET Nat, T # {}
    PROVE  \E x \in T : \A y \in T : x <= y
<1> DEFINE R == OpToRel(<, Nat)
<1>1. IsWellFoundedOn(R, Nat)
    BY NatLessThanWellFounded
<1>2. \A x, y \in Nat : x < y => <<x, y>> \in R
    BY DEF OpToRel
<1> HIDE DEF R
<1>3. PICK x \in T : \A y \in T : ~(<<y, x>> \in R)
    BY <1>1, WFMin
<1>4. \A y \in T : ~(y < x)
    BY <1>2, <1>3, Zenon
<1> QED BY <1>4

LEMMA FrameNumbers ==
    /\ Frames \subseteq Nat \ {0}
    /\ \A f \in Frames : /\ LastPacket[f] \in Nat \ {0} /\ FirstPacket(f) \in Nat \ {0}
                         /\ FirstPacket(f) <= LastPacket[f]
                         /\ f > 1 => f - 1 \in Frames /\ FirstPacket(f) = LastPacket[f - 1] + 1
BY LayoutAssumption DEF Frames, FirstPacket

\* LastPacket is increasing: a least frame that breaks it would follow one
\* that does not.
LEMMA Increasing ==
    ASSUME NEW f \in Frames, NEW g \in Frames, f < g
    PROVE  LastPacket[f] < LastPacket[g]
<1> DEFINE T == {h \in Frames : f < h /\ ~(LastPacket[f] < LastPacket[h])}
<1>1. SUFFICES T = {}
    OBVIOUS
<1>2. SUFFICES ASSUME T # {} PROVE FALSE
    OBVIOUS
<1>3. T \in SUBSET Nat
    BY FrameNumbers
<1>4. PICK h \in T : \A y \in T : h <= y
    BY <1>2, <1>3, Least
<1>5. h > 1 /\ h - 1 \in Frames /\ LastPacket[h] >= LastPacket[h - 1] + 1
    BY FrameNumbers
<1>6. h - 1 \notin T
    BY <1>4, <1>5, FrameNumbers
<1>7. LastPacket[f] <= LastPacket[h - 1]
  <2>1. CASE h - 1 = f
      BY <2>1, FrameNumbers
  <2>2. CASE h - 1 # f
      BY <2>2, <1>5, <1>6, FrameNumbers
  <2> QED BY <2>1, <2>2
<1> QED BY <1>5, <1>7, FrameNumbers

\* The packets of an earlier frame come before those of a later one.
LEMMA PacketOrder ==
    ASSUME NEW f \in Frames, NEW g \in Frames, f < g
    PROVE  LastPacket[f] < FirstPacket(g)
<1>1. g > 1 /\ g - 1 \in Frames /\ FirstPacket(g) = LastPacket[g - 1] + 1
    BY FrameNumbers
<1>2. LastPacket[f] <= LastPacket[g - 1]
  <2>1. CASE f = g - 1
      BY <2>1, FrameNumbers
  <2>2. CASE f # g - 1
      BY <2>2, <1>1, Increasing, FrameNumbers
  <2> QED BY <2>1, <2>2
<1> QED BY <1>1, <1>2, FrameNumbers

LEMMA PacketsInOrder ==
    ASSUME NEW f \in Frames, NEW g \in Frames, f < g,
           NEW s \in Packets(f), NEW t \in Packets(g)
    PROVE  s < t
<1>1. LastPacket[f] < FirstPacket(g)
    BY PacketOrder
<1> QED BY <1>1, FrameNumbers DEF Packets

LEMMA PacketNumbers ==
    /\ AllPackets \subseteq Nat \ {0}
    /\ \A f \in Frames : /\ Packets(f) \subseteq AllPackets
                         /\ LastPacket[f] \in Packets(f)
                         /\ \A s \in Packets(f) : s <= LastPacket[f]
BY FrameNumbers DEF AllPackets, Packets

LEMMA FrameOfPacket ==
    ASSUME NEW s \in AllPackets
    PROVE  FrameOf(s) \in Frames /\ s \in Packets(FrameOf(s))
<1>1. \E f \in Frames : s \in Packets(f)
    BY DEF AllPackets
<1> QED BY <1>1, Zenon DEF FrameOf

LEMMA FrameIsUnique ==
    ASSUME NEW f \in Frames, NEW s \in Packets(f)
    PROVE  FrameOf(s) = f
<1>1. FrameOf(s) \in Frames /\ s \in Packets(FrameOf(s))
    BY FrameOfPacket, PacketNumbers
<1>2. ASSUME NEW g \in Frames, NEW h \in Frames, s \in Packets(g), s \in Packets(h)
      PROVE  ~(g < h)
  <2>1. g < h => s < s
      BY <1>2, PacketsInOrder
  <2>2. s \in Nat
      BY PacketNumbers
  <2> QED BY <2>1, <2>2
<1>3. ~(FrameOf(s) < f) /\ ~(f < FrameOf(s))
    BY <1>1, <1>2
<1>4. f \in Nat /\ FrameOf(s) \in Nat
    BY <1>1, FrameNumbers
<1> QED BY <1>3, <1>4

\* FrameOf is monotone.
LEMMA FrameOrder ==
    ASSUME NEW s \in AllPackets, NEW t \in AllPackets, s <= t
    PROVE  FrameOf(s) <= FrameOf(t)
<1>1. /\ FrameOf(s) \in Frames /\ s \in Packets(FrameOf(s))
      /\ FrameOf(t) \in Frames /\ t \in Packets(FrameOf(t))
    BY FrameOfPacket
<1>2. FrameOf(t) < FrameOf(s) => t < s
    BY <1>1, PacketsInOrder
<1>3. s \in Nat /\ t \in Nat /\ FrameOf(s) \in Nat /\ FrameOf(t) \in Nat
    BY <1>1, PacketNumbers, FrameNumbers
<1> QED BY <1>2, <1>3

\* A packet after the last one of f is of a later frame.
LEMMA LaterFrame ==
    ASSUME NEW s \in AllPackets, NEW f \in Frames, LastPacket[f] < s
    PROVE  f < FrameOf(s)
<1>1. LastPacket[f] \in Packets(f) /\ LastPacket[f] \in AllPackets
    BY PacketNumbers
<1>2. FrameOf(LastPacket[f]) = f
    BY <1>1, FrameIsUnique
<1>3. f <= FrameOf(s)
  <2>1. LastPacket[f] \in Nat /\ s \in Nat
      BY <1>1, PacketNumbers
  <2> QED BY <1>1, <1>2, <2>1, FrameOrder
<1>4. FrameOf(s) \in Frames /\ s \in Packets(FrameOf(s))
    BY FrameOfPacket
<1>5. f # FrameOf(s)
    BY <1>4, PacketNumbers, FrameNumbers
<1>6. f \in Nat /\ FrameOf(s) \in Nat
    BY <1>4, FrameNumbers
<1> QED BY <1>3, <1>5, <1>6

\* There are no holes between packets.
LEMMA NoHoles ==
    ASSUME NEW s \in AllPackets, NEW n \in Nat \ {0}, n <= s
    PROVE  n \in AllPackets
<1> DEFINE T == {f \in Frames : n <= LastPacket[f]}
<1>1. FrameOf(s) \in T
  <2>1. FrameOf(s) \in Frames /\ s \in Packets(FrameOf(s))
      BY FrameOfPacket
  <2>2. s <= LastPacket[FrameOf(s)] /\ s \in Nat /\ LastPacket[FrameOf(s)] \in Nat
      BY <2>1, PacketNumbers, FrameNumbers
  <2> QED BY <2>1, <2>2
<1>2. T \in SUBSET Nat /\ T # {}
    BY <1>1, FrameNumbers
<1>3. PICK f \in T : \A g \in T : f <= g
    BY <1>2, Least
<1>4. n \in Packets(f)
  <2>1. CASE f = 1
      BY <2>1, FrameNumbers DEF Packets, FirstPacket
  <2>2. CASE f # 1
    <3>1. f - 1 \in Frames /\ FirstPacket(f) = LastPacket[f - 1] + 1
        BY <2>2, FrameNumbers
    <3>2. f - 1 \notin T
        BY <1>3, <3>1, FrameNumbers
    <3>3. LastPacket[f - 1] < n
        BY <3>1, <3>2, FrameNumbers
    <3> QED BY <3>1, <3>3, FrameNumbers DEF Packets
  <2> QED BY <2>1, <2>2
<1> QED BY <1>4, PacketNumbers
-----------------------------------------------------------------------------
(* Types                                                                     *)

LEMMA InitInv == Init => IInv
<1> SUFFICES ASSUME Init PROVE IInv
    OBVIOUS
<1>1. /\ Present = {} /\ parts = {} /\ nacks = {} /\ sending = {} /\ newest = 0
      /\ lastDone = 0 /\ lastDropped = 0 /\ pc["net"] = "idle" /\ after["net"] = "idle"
      /\ \A f \in Frames : ~Complete(f) /\ pending[f].last = 0
      /\ \A t \in Threads : batch[t] = {}
    BY DEF Init, Present, NoFrame, Threads, Complete
<1>2. TypeOK
  <2>1. pc \in [Threads -> {"idle", "late", "insert", "unpack", "commit", "nacks",
                            "send", "sent", "retry", "head", "drop", "await", "fir"}]
      BY DEF Init, Threads
  <2>2. pending \in [Frames -> PendingFrame]
      BY DEF Init, NoFrame, PendingFrame
  <2>3. dropping \in [frame : Frames \cup {0}, timedOut : BOOLEAN]
      BY DEF Init, NoDrop
  <2>4. faults \in 0 .. MaxFaults
      BY BoundsAssumption DEF Init
  <2> QED BY <2>1, <2>2, <2>3, <2>4 DEF Init, TypeOK, NoPacket
<1>3. InHand /\ Entries /\ Batches /\ NacksAreUseful
    BY <1>1 DEF InHand, Entries, Batches, NacksAreUseful
<1>4. FragmentsAreReachable /\ LateEntries /\ AbandonedNeedsKey
    BY <1>1 DEF FragmentsAreReachable, LateEntries, AbandonedNeedsKey
<1>5. Accounted
  <2>1. \A s \in AllPackets : ~(s <= newest)
      BY <1>1, PacketNumbers
  <2> QED BY <1>1, <2>1 DEF Accounted
<1> QED BY <1>2, <1>3, <1>4, <1>5 DEF IInv

\* What a thread goes to.
Places == {"idle", "late", "insert", "unpack", "commit", "nacks", "send", "sent",
           "retry", "head", "drop", "await", "fir"}
Returns == {"idle", "unpack", "retry", "head", "nacks"}

LEMMA GoToType ==
    ASSUME TypeOK, NEW t \in Threads, NEW place \in Places, GoTo(t, place)
    PROVE  /\ pc' \in [Threads -> Places] /\ pc'[t] = place
           /\ \A u \in Threads : u # t => pc'[u] = pc[u]
BY DEF TypeOK, GoTo, Places

LEMMA SendType ==
    ASSUME TypeOK, NEW t \in Threads, NEW how \in Places, NEW next \in Returns,
           Send(t, how, next)
    PROVE  /\ pc' \in [Threads -> Places] /\ pc'[t] = how
           /\ after' \in [Threads -> Returns] /\ after'[t] = next
           /\ \A u \in Threads : u # t => pc'[u] = pc[u] /\ after'[u] = after[u]
<1>1. GoTo(t, how)
    BY DEF Send
<1> QED BY <1>1, GoToType DEF TypeOK, Send, Returns

LEMMA ReturnType ==
    ASSUME TypeOK, NEW t \in Threads, Return(t)
    PROVE  /\ pc' \in [Threads -> Places] /\ pc'[t] = after[t]
           /\ after' \in [Threads -> Returns] /\ after'[t] = "idle"
           /\ \A u \in Threads : u # t => pc'[u] = pc[u] /\ after'[u] = after[u]
           /\ pkt' \in AllPackets \cup {NoPacket}
<1>1. GoTo(t, after[t]) /\ after[t] \in Places
    BY DEF Return, TypeOK, Places
<1> QED BY <1>1, GoToType DEF TypeOK, Return, Returns

LEMMA MaybeFirType ==
    ASSUME TypeOK, NEW next \in Places \cap Returns, MaybeFir(next)
    PROVE  /\ pc' \in [Threads -> Places] /\ pc'["process"] \in {"fir", next}
           /\ after' \in [Threads -> Returns]
           /\ \A u \in Threads : u # "process" => pc'[u] = pc[u] /\ after'[u] = after[u]
<1>1. "process" \in Threads /\ "fir" \in Places
    BY DEF Threads, Places
<1>2. CASE GoTo("process", next) /\ UNCHANGED after
    BY <1>1, <1>2, GoToType DEF TypeOK, Returns
<1>3. CASE Send("process", "fir", next)
    BY <1>1, <1>3, SendType
<1> QED BY <1>2, <1>3 DEF MaybeFir

\* The frames and packets the actions are about.
LEMMA HeadIsFrame == ASSUME NEW f, Head(f) PROVE f \in Frames
BY DEF Head, Present

LEMMA ErasedType ==
    ASSUME TypeOK, NEW f \in Frames, Erase(f)
    PROVE  /\ pending' \in [Frames -> PendingFrame]
           /\ pending'[f].state = "none" /\ pending'[f].last = 0
           /\ \A g \in Frames : g # f => pending'[g] = pending[g]
<1>1. NoFrame \in PendingFrame /\ NoFrame.state = "none" /\ NoFrame.last = 0
    BY DEF NoFrame, PendingFrame
<1> QED BY <1>1 DEF TypeOK, Erase

LEMMA CommittedType ==
    ASSUME NEW f \in Frames
    PROVE  /\ Committed(f) \in PendingFrame
           /\ Committed(f).state = "complete" /\ Committed(f).last = LastPacket[f]
<1>1. LastPacket[f] \in AllPackets
    BY PacketNumbers
<1> QED BY <1>1 DEF Committed, PendingFrame

\* What TrackPacket makes of the entry of its frame.
LEMMA TrackedType ==
    ASSUME TypeOK, NEW f \in Frames, pkt \in AllPackets
    PROVE  /\ Tracked(f) \in PendingFrame
           /\ Tracked(f).state = IF pending[f].state = "none" THEN "partial"
                                 ELSE pending[f].state
           /\ Tracked(f).last = IF pkt > pending[f].last THEN pkt ELSE pending[f].last
<1> DEFINE k == [pending[f] EXCEPT !.state = IF @ = "none" THEN "partial" ELSE @]
<1>1. pending[f] \in PendingFrame
    BY DEF TypeOK
<1>2. /\ k \in PendingFrame /\ k.last = pending[f].last
      /\ k.state = IF pending[f].state = "none" THEN "partial" ELSE pending[f].state
    BY <1>1 DEF PendingFrame
<1>3. Tracked(f) = [k EXCEPT !.last = IF pkt > @ THEN pkt ELSE @]
    BY DEF Tracked
<1> HIDE DEF k
<1> QED BY <1>2, <1>3 DEF PendingFrame

\* The deadlines only set flags of the entry.
LEMMA FlagsType ==
    ASSUME TypeOK, NEW f \in Frames,
           \/ pending' = [pending EXCEPT ![f].escalated = TRUE]
           \/ pending' = [pending EXCEPT ![f].softFir = TRUE]
    PROVE  /\ pending' \in [Frames -> PendingFrame]
           /\ \A g \in Frames : /\ pending'[g].state = pending[g].state
                                /\ pending'[g].last = pending[g].last
<1> DEFINE e == [pending[f] EXCEPT !.escalated = TRUE]
           r == [pending[f] EXCEPT !.softFir = TRUE]
<1>1. pending[f] \in PendingFrame
    BY DEF TypeOK
<1>2. /\ e \in PendingFrame /\ e.state = pending[f].state /\ e.last = pending[f].last
      /\ r \in PendingFrame /\ r.state = pending[f].state /\ r.last = pending[f].last
    BY <1>1 DEF PendingFrame
<1>3. pending' = [pending EXCEPT ![f] = e] \/ pending' = [pending EXCEPT ![f] = r]
    OBVIOUS
<1> HIDE DEF e, r
<1> QED BY <1>2, <1>3 DEF TypeOK

\* Types are kept.
LEMMA StepType == ASSUME TypeOK, InHand, Next PROVE TypeOK'
<1> USE DEF TypeOK, network, nackState, frameState, threadState, history
<1>0. /\ Threads = {"net", "process", "decode"} /\ "net" \in Threads /\ "process" \in Threads
      /\ "decode" \in Threads
      /\ Places = {"idle", "late", "insert", "unpack", "commit", "nacks", "send", "sent",
                   "retry", "head", "drop", "await", "fir"}
      /\ Returns = {"idle", "unpack", "retry", "head", "nacks"}
      /\ pc \in [Threads -> Places] /\ after \in [Threads -> Returns]
    BY DEF Threads, Places, Returns
<1>1. CASE FirTimer
    BY <1>1 DEF FirTimer
<1>2. CASE \E s \in AllPackets, isRtx \in BOOLEAN : Receive(s, isRtx)
    BY <1>0, <1>2 DEF Receive, GoTo
<1>3. CASE LateRtx
    BY <1>0, <1>3 DEF LateRtx, Retire, ReturnToSocket, GoTo
<1>4. CASE FirstEver
    BY <1>0, <1>4 DEF FirstEver, InHand, GoTo
<1>5. CASE OutOfOrder
    BY <1>0, <1>5 DEF OutOfOrder, Retire, GoTo
<1>6. CASE InOrder
  <2>1. pkt \in AllPackets /\ newest \in Nat
      BY <1>6, PacketNumbers DEF InOrder, InHand
  <2>2. Gap \subseteq AllPackets
      BY <2>1, NoHoles, PacketNumbers DEF Gap
  <2>3. PICK due \in SUBSET (nacks \ sending) :
              /\ sending' = sending \cup due
              /\ batch' = [batch EXCEPT !["net"] = due]
              /\ IF due = {} THEN GoTo("net", "unpack") /\ UNCHANGED after
                             ELSE Send("net", "send", "unpack")
      BY <1>6 DEF InOrder
  <2>4. pc' \in [Threads -> Places] /\ after' \in [Threads -> Returns]
      BY <1>0, <2>3, GoToType, SendType
  <2>5. nacks' \subseteq AllPackets /\ sending' \subseteq nacks'
      BY <1>6, <2>2, <2>3 DEF InOrder
  <2>6. batch' \in [Threads -> SUBSET AllPackets]
      BY <2>3
  <2> QED BY <1>0, <1>6, <2>1, <2>4, <2>5, <2>6 DEF InOrder
<1>7. CASE Overflow
  <2>1. pkt \in AllPackets /\ newest \in Nat
      BY <1>7, PacketNumbers DEF Overflow, InHand
  <2>2. Gap \subseteq AllPackets
      BY <2>1, NoHoles, PacketNumbers DEF Gap
  <2>4. pc' \in [Threads -> Places] /\ after' \in [Threads -> Returns]
      BY <1>0, <1>7, SendType DEF Overflow
  <2> QED BY <1>0, <1>7, <2>1, <2>2, <2>4 DEF Overflow
<1>8. CASE Corrupt
  <2>1. pkt \in AllPackets
      BY <1>8 DEF Corrupt, InHand
  <2>2. faults' \in 0 .. MaxFaults
      BY <1>8, BoundsAssumption DEF Corrupt
  <2>4. pc' \in [Threads -> Places] /\ after' \in [Threads -> Returns]
      BY <1>0, <1>8, SendType DEF Corrupt
  <2> QED BY <1>0, <1>8, <2>1, <2>2, <2>4 DEF Corrupt
<1>9. CASE InsertNalu
  <2>1. FrameOf(pkt) \in Frames
      BY <1>9, FrameOfPacket DEF InsertNalu, InHand
  <2>2. pending' \in [Frames -> PendingFrame]
      BY <1>9, <2>1, CommittedType DEF InsertNalu
  <2>3. revived' \subseteq Frames
      BY <1>9, <2>1 DEF InsertNalu
  <2> QED BY <1>0, <1>9, <2>2, <2>3 DEF InsertNalu, ReturnToSocket, GoTo
<1>10. CASE TrackPacket
  <2>0. pkt \in AllPackets
      BY <1>10 DEF TrackPacket, InHand
  <2>1. FrameOf(pkt) \in Frames
      BY <2>0, FrameOfPacket
  <2>2. pending' \in [Frames -> PendingFrame]
      BY <1>10, <2>0, <2>1, TrackedType DEF TrackPacket
  <2>3. revived' \subseteq Frames /\ parts' \subseteq AllPackets
      BY <1>10, <2>0, <2>1 DEF TrackPacket
  <2> QED BY <1>0, <1>10, <2>2, <2>3 DEF TrackPacket, GoTo
<1>11. CASE CommitFrame
  <2>1. FrameOf(pkt) \in Frames
      BY <1>11, FrameOfPacket DEF CommitFrame, InHand
  <2>2. pending' \in [Frames -> PendingFrame]
      BY <1>11, <2>1, CommittedType DEF CommitFrame
  <2>3. parts' \subseteq AllPackets
      BY <1>11 DEF CommitFrame
  <2> QED BY <1>0, <1>11, <2>2, <2>3 DEF CommitFrame, ReturnToSocket, GoTo
<1>12. CASE ProcessNacks
  <2>3. PICK due \in SUBSET (nacks \ sending) :
              /\ sending' = sending \cup due
              /\ batch' = [batch EXCEPT !["process"] = due]
              /\ IF due = {} THEN GoTo("process", "retry") /\ UNCHANGED after
                             ELSE Send("process", "send", "retry")
      BY <1>12 DEF ProcessNacks
  <2>4. pc' \in [Threads -> Places] /\ after' \in [Threads -> Returns]
      BY <1>0, <2>3, GoToType, SendType
  <2>5. sending' \subseteq nacks'
      BY <1>12, <2>3 DEF ProcessNacks
  <2>6. batch' \in [Threads -> SUBSET AllPackets]
      BY <2>3
  <2> QED BY <1>0, <1>12, <2>4, <2>5, <2>6 DEF ProcessNacks
<1>13. CASE MaybeRetryKeyFrameRequest
  <2>1. pc' \in [Threads -> Places] /\ after' \in [Threads -> Returns]
      BY <1>0, <1>13, GoToType, MaybeFirType DEF MaybeRetryKeyFrameRequest
  <2> QED BY <1>0, <1>13, <2>1 DEF MaybeRetryKeyFrameRequest
<1>14. CASE NoFrames
    BY <1>0, <1>14 DEF NoFrames, GoTo
<1>15. CASE DropFrameAssembly
  <2>1. pc' \in [Threads -> Places] /\ after' \in [Threads -> Returns]
      BY <1>0, <1>15, GoToType, MaybeFirType DEF DropFrameAssembly
  <2>2. dropping' \in [frame : Frames \cup {0}, timedOut : BOOLEAN]
      BY <1>15 DEF DropFrameAssembly, NoDrop
  <2> QED BY <1>0, <1>15, <2>1, <2>2 DEF DropFrameAssembly
<1>16. CASE \E f \in Frames : DropUseless(f)
  <2>1. PICK f \in Frames : DropUseless(f)
      BY <1>16
  <2>2. pending' \in [Frames -> PendingFrame]
      BY <2>1, ErasedType DEF DropUseless
  <2>3. pc' \in [Threads -> Places]
      BY <1>0, <2>1, GoToType DEF DropUseless
  <2> QED BY <1>0, <2>1, <2>2, <2>3 DEF DropUseless
<1>17. CASE \E f \in Frames : DeliverAwaitedKey(f)
  <2>1. PICK f \in Frames : DeliverAwaitedKey(f)
      BY <1>17
  <2>2. pending' \in [Frames -> PendingFrame]
      BY <2>1, ErasedType DEF DeliverAwaitedKey
  <2> QED BY <2>1, <2>2 DEF DeliverAwaitedKey
<1>18. CASE \E f \in Frames : SkipDelta(f)
  <2>1. PICK f \in Frames : SkipDelta(f)
      BY <1>18
  <2>2. pending' \in [Frames -> PendingFrame]
      BY <2>1, ErasedType DEF SkipDelta
  <2>3. pc' \in [Threads -> Places]
      BY <1>0, <2>1, GoToType DEF SkipDelta
  <2> QED BY <1>0, <2>1, <2>2, <2>3 DEF SkipDelta
<1>19. CASE \E f \in Frames : Deliver(f)
  <2>1. PICK f \in Frames : Deliver(f)
      BY <1>19
  <2>2. pending' \in [Frames -> PendingFrame]
      BY <2>1, ErasedType DEF Deliver
  <2> QED BY <2>1, <2>2 DEF Deliver
<1>20. CASE \E f \in Frames : HardTimeout(f)
  <2>1. PICK f \in Frames : Abandon(f)
      BY <1>20 DEF HardTimeout
  <2>2. pending' \in [Frames -> PendingFrame]
      BY <2>1, ErasedType DEF Abandon
  <2>3. pc' \in [Threads -> Places]
      BY <1>0, <2>1, GoToType DEF Abandon
  <2> QED BY <1>0, <2>1, <2>2, <2>3 DEF Abandon
<1>21. CASE \E f \in Frames : Escalate(f)
  <2>1. PICK f \in Frames : Escalate(f)
      BY <1>21
  <2>2. pending' \in [Frames -> PendingFrame]
      BY <2>1, FlagsType DEF Escalate
  <2> QED BY <1>0, <2>1, <2>2 DEF Escalate, GoTo
<1>22. CASE \E f \in Frames : RequestSoftFir(f)
  <2>1. PICK f \in Frames : RequestSoftFir(f)
      BY <1>22
  <2>2. pending' \in [Frames -> PendingFrame]
      BY <2>1, FlagsType DEF RequestSoftFir
  <2>3. pc' \in [Threads -> Places] /\ after' \in [Threads -> Returns]
      BY <1>0, <2>1, MaybeFirType DEF RequestSoftFir
  <2> QED BY <1>0, <2>1, <2>2, <2>3 DEF RequestSoftFir
<1>23. CASE \E f \in Frames : LeaveHead(f)
    BY <1>0, <1>23 DEF LeaveHead, GoTo
<1>24. CASE DecoderFails
  <2>1. faults' \in 0 .. MaxFaults
      BY <1>24, BoundsAssumption DEF DecoderFails
  <2> QED BY <1>0, <1>24, <2>1 DEF DecoderFails, GoTo
<1>25. CASE \E t \in Threads : SendNack(t)
  <2>1. PICK t \in Threads : SendNack(t)
      BY <1>25
  <2>2. rtx' \subseteq AllPackets
      BY <2>1 DEF SendNack
  <2> QED BY <1>0, <2>1, <2>2 DEF SendNack, GoTo
<1>26. CASE \E t \in Threads : OnNackBatchSent(t)
  <2>1. PICK t \in Threads : OnNackBatchSent(t)
      BY <1>26
  <2>2. /\ pc' \in [Threads -> Places] /\ after' \in [Threads -> Returns]
        /\ pkt' \in AllPackets \cup {NoPacket}
      BY <2>1, ReturnType DEF OnNackBatchSent
  <2> QED BY <1>0, <2>1, <2>2 DEF OnNackBatchSent
<1>27. CASE \E t \in Threads : EnterAwaiting(t)
    BY <1>0, <1>27 DEF EnterAwaiting, GoTo
<1>28. CASE \E t \in Threads : SendKeyFrameRequest(t)
  <2>1. PICK t \in Threads : SendKeyFrameRequest(t)
      BY <1>28
  <2>2. /\ pc' \in [Threads -> Places] /\ after' \in [Threads -> Returns]
        /\ pkt' \in AllPackets \cup {NoPacket}
      BY <2>1, ReturnType DEF SendKeyFrameRequest
  <2> QED BY <1>0, <2>1, <2>2 DEF SendKeyFrameRequest
<1> QED BY <1>1, <1>2, <1>3, <1>4, <1>5, <1>6, <1>7, <1>8, <1>9, <1>10, <1>11, <1>12,
           <1>13, <1>14, <1>15, <1>16, <1>17, <1>18, <1>19, <1>20, <1>21, <1>22, <1>23,
           <1>24, <1>25, <1>26, <1>27, <1>28
        DEF Next, NetStep, ProcessStep, HeadStep, Rtcp

-----------------------------------------------------------------------------
(* What each thread leaves alone                                             *)

NetActs ==
    \/ \E s \in AllPackets, isRtx \in BOOLEAN : Receive(s, isRtx)
    \/ NetStep \/ Rtcp("net")
OtherActs == FirTimer \/ ProcessStep \/ DecoderFails \/ Rtcp("process") \/ Rtcp("decode")

LEMMA NextIsThreads == Next <=> NetActs \/ OtherActs
BY DEF Next, NetActs, OtherActs, Threads

\* Sending RTCP changes neither the frames nor, but for the batch that is
\* reported, the NACK list.
LEMMA RtcpFrame ==
    ASSUME TypeOK, NEW t \in Threads, Rtcp(t)
    PROVE  /\ UNCHANGED <<newest, nacks, pending, parts, lastDone, lastDropped, dropping,
                          skipped, writtenOff, revived>>
           /\ awaiting => awaiting'
           /\ \A u \in Threads : u # t => pc'[u] = pc[u] /\ after'[u] = after[u]
           /\ t # "net" => pkt' = pkt
           /\ pc[t] \in {"send", "sent", "await", "fir"}
<1> USE DEF TypeOK, network, nackState, frameState, threadState, history
<1>1. CASE SendNack(t)
    BY <1>1 DEF SendNack, GoTo
<1>2. CASE OnNackBatchSent(t)
    BY <1>2 DEF OnNackBatchSent, Return, GoTo
<1>3. CASE EnterAwaiting(t)
    BY <1>3 DEF EnterAwaiting, GoTo
<1>4. CASE SendKeyFrameRequest(t)
    BY <1>4 DEF SendKeyFrameRequest, Return, GoTo
<1> QED BY <1>1, <1>2, <1>3, <1>4 DEF Rtcp

\* Process and the decode queue leave the packet in hand alone.
LEMMA OtherFrame ==
    ASSUME TypeOK, OtherActs
    PROVE  /\ pc'["net"] = pc["net"] /\ after'["net"] = after["net"]
           /\ UNCHANGED <<pkt, newest, writtenOff, revived>>
<1> USE DEF TypeOK, network, nackState, frameState, threadState, history
<1>0. "net" \in Threads /\ "process" \in Threads /\ "decode" \in Threads
    BY DEF Threads
<1>1. CASE FirTimer
    BY <1>1 DEF FirTimer
<1>2. CASE ProcessNacks
    BY <1>0, <1>2 DEF ProcessNacks, Send, GoTo
<1>3. CASE MaybeRetryKeyFrameRequest
    BY <1>0, <1>3 DEF MaybeRetryKeyFrameRequest, MaybeFir, Send, GoTo
<1>4. CASE NoFrames
    BY <1>0, <1>4 DEF NoFrames, GoTo
<1>5. CASE DropFrameAssembly
    BY <1>0, <1>5 DEF DropFrameAssembly, MaybeFir, Send, GoTo
<1>6. ASSUME NEW f \in Frames, HeadStep(f)
      PROVE  /\ pc'["net"] = pc["net"] /\ after'["net"] = after["net"]
             /\ UNCHANGED <<pkt, newest, writtenOff, revived>>
  <2>1. CASE DropUseless(f) \/ SkipDelta(f) \/ LeaveHead(f)
      BY <1>0, <2>1 DEF DropUseless, SkipDelta, LeaveHead, GoTo
  <2>2. CASE DeliverAwaitedKey(f) \/ Deliver(f)
      BY <2>2 DEF DeliverAwaitedKey, Deliver
  <2>3. CASE HardTimeout(f)
      BY <1>0, <2>3 DEF HardTimeout, Abandon, GoTo
  <2>4. CASE Escalate(f)
      BY <1>0, <2>4 DEF Escalate, GoTo
  <2>5. CASE RequestSoftFir(f)
      BY <1>0, <2>5 DEF RequestSoftFir, MaybeFir, Send, GoTo
  <2> QED BY <1>6, <2>1, <2>2, <2>3, <2>4, <2>5 DEF HeadStep
<1>7. CASE DecoderFails
    BY <1>0, <1>7 DEF DecoderFails, GoTo
<1>8. CASE Rtcp("process") \/ Rtcp("decode")
    BY <1>0, <1>8, RtcpFrame
<1> QED BY <1>1, <1>2, <1>3, <1>4, <1>5, <1>6, <1>7, <1>8 DEF OtherActs, ProcessStep

\* InsertRtpPacket leaves what Process has decided alone.
LEMMA NetFrame ==
    ASSUME TypeOK, InHand, NetActs
    PROVE  /\ pc'["process"] = pc["process"]
           /\ UNCHANGED <<dropping, lastDone, lastDropped, skipped>>
           /\ awaiting => awaiting'
           /\ revived \subseteq revived'
           /\ newest <= newest'
           /\ newest = 0 \/ writtenOff \subseteq writtenOff'
<1> USE DEF TypeOK, network, nackState, frameState, threadState, history
<1>0. "net" \in Threads /\ "process" \in Threads /\ newest \in Nat
    BY PacketNumbers DEF Threads
<1>1. CASE \E s \in AllPackets, isRtx \in BOOLEAN : Receive(s, isRtx)
    BY <1>0, <1>1 DEF Receive, GoTo
<1>2. CASE LateRtx
    BY <1>0, <1>2 DEF LateRtx, Retire, ReturnToSocket, GoTo
<1>3. CASE FirstEver
  <2>1. pkt \in Nat
      BY <1>3, PacketNumbers DEF FirstEver, InHand
  <2> QED BY <1>0, <1>3, <2>1 DEF FirstEver, GoTo
<1>4. CASE OutOfOrder
    BY <1>0, <1>4 DEF OutOfOrder, Retire, GoTo
<1>5. CASE InOrder
  <2>1. pkt \in Nat
      BY <1>5, PacketNumbers DEF InOrder, InHand
  <2>2. newest <= newest'
      BY <1>0, <1>5, <2>1 DEF InOrder
  <2> QED BY <1>0, <1>5, <2>2 DEF InOrder, Send, GoTo
<1>6. CASE Overflow
  <2>1. pkt \in Nat
      BY <1>6, PacketNumbers DEF Overflow, InHand
  <2>2. newest <= newest'
      BY <1>0, <1>6, <2>1 DEF Overflow
  <2> QED BY <1>0, <1>6, <2>2 DEF Overflow, Send, GoTo
<1>7. CASE Corrupt
    BY <1>0, <1>7 DEF Corrupt, Send, GoTo
<1>8. CASE InsertNalu
    BY <1>0, <1>8 DEF InsertNalu, ReturnToSocket, GoTo
<1>9. CASE TrackPacket
    BY <1>0, <1>9 DEF TrackPacket, GoTo
<1>10. CASE CommitFrame
    BY <1>0, <1>10 DEF CommitFrame, ReturnToSocket, GoTo
<1>11. CASE Rtcp("net")
    BY <1>0, <1>11, RtcpFrame
<1> QED BY <1>1, <1>2, <1>3, <1>4, <1>5, <1>6, <1>7, <1>8, <1>9, <1>10, <1>11
        DEF NetActs, NetStep

\* What Process does to the frames: it takes the head out, flags it or goes on.
Erased(f) ==
    /\ Head(f) /\ Erase(f) /\ pc["process"] = "head"
    /\ UNCHANGED <<parts, revived>>
    /\ \/ /\ lastDone' = f /\ ~(f <= lastDone) /\ Complete(f)
          /\ UNCHANGED <<lastDropped, dropping, skipped>>
          /\ nacks' = nacks \ UpTo(pending[f].last) /\ sending' = sending \ UpTo(pending[f].last)
          /\ (awaiting /\ f \in keys) \/ (~awaiting /\ UpTo(pending[f].last) = {})
       \/ /\ lastDone' = lastDone /\ pc'["process"] = "drop" /\ dropping'.frame = f
          /\ awaiting => awaiting'
          /\ \/ /\ UNCHANGED <<nacks, sending, lastDropped>>
                /\ \/ f <= lastDone /\ UNCHANGED <<skipped, awaiting>>
                   \/ skipped' = skipped \cup {f}
             \/ /\ UNCHANGED skipped /\ awaiting'
                /\ nacks' = nacks \ UpTo(pending[f].last)
                /\ sending' = sending \ UpTo(pending[f].last)
                /\ lastDropped' = IF f > lastDropped THEN f ELSE lastDropped

FramesKept ==
    /\ UNCHANGED <<nacks, lastDone, lastDropped, skipped, revived>>
    /\ awaiting => awaiting'
    /\ \A f \in Frames : pending'[f].state = pending[f].state /\ pending'[f].last = pending[f].last
    /\ \/ /\ UNCHANGED <<parts, dropping>>
          /\ pc["process"] = "drop" => pc'["process"] = "drop"
       \/ parts' = parts \ Packets(dropping.frame)

LEMMA OtherActsFrames ==
    ASSUME TypeOK, OtherActs
    PROVE  FramesKept \/ \E f \in Frames : Erased(f)
<1> USE DEF TypeOK, network, nackState, frameState, threadState, history
<1>0. "net" \in Threads /\ "process" \in Threads /\ "decode" \in Threads
    BY DEF Threads
<1>a. UNCHANGED pending => \A f \in Frames : /\ pending'[f].state = pending[f].state
                                             /\ pending'[f].last = pending[f].last
    OBVIOUS
<1>1. CASE FirTimer
    BY <1>1 DEF FirTimer, FramesKept
<1>2. CASE ProcessNacks
    BY <1>2 DEF ProcessNacks, FramesKept
<1>3. CASE MaybeRetryKeyFrameRequest
    BY <1>3 DEF MaybeRetryKeyFrameRequest, FramesKept
<1>4. CASE NoFrames
    BY <1>4 DEF NoFrames, AtHead, FramesKept
<1>5. CASE DropFrameAssembly
    BY <1>5 DEF DropFrameAssembly, FramesKept
<1>6. ASSUME NEW f \in Frames, HeadStep(f)
      PROVE  FramesKept \/ \E g \in Frames : Erased(g)
  <2>1. CASE DropUseless(f)
      BY <1>0, <2>1 DEF DropUseless, Erased, AtHead, Older, Superseded, GoTo
  <2>2. CASE SkipDelta(f)
      BY <1>0, <2>2 DEF SkipDelta, Erased, AtHead, GoTo
  <2>3. CASE DeliverAwaitedKey(f)
    <3>1. awaiting /\ f \in keys /\ Complete(f) /\ ~(f <= lastDone)
        BY <2>3 DEF DeliverAwaitedKey, Settled, Older, CompleteKey
    <3>2. /\ Head(f) /\ Erase(f) /\ pc["process"] = "head"
          /\ UNCHANGED <<parts, revived, lastDropped, dropping, skipped>>
          /\ lastDone' = f
          /\ nacks' = nacks \ UpTo(pending[f].last)
          /\ sending' = sending \ UpTo(pending[f].last)
        BY <2>3 DEF DeliverAwaitedKey, AtHead
    <3>3. Erased(f)
        BY <3>1, <3>2, Zenon DEF Erased
    <3> QED BY <3>3
  <2>4. CASE Deliver(f)
    <3>1. UpTo(pending[f].last) = {}
        BY <2>4 DEF Deliver, Blocked
    <3>2. nacks = nacks \ UpTo(pending[f].last) /\ sending = sending \ UpTo(pending[f].last)
        BY <3>1
    <3> QED BY <2>4, <3>1, <3>2 DEF Deliver, Erased, AtHead, Settled, Older
  <2>5. CASE HardTimeout(f)
      BY <1>0, <2>5 DEF HardTimeout, Stalled, Abandon, Erased, AtHead, GoTo
  <2>6. CASE Escalate(f)
    <3>1. \A g \in Frames : pending'[g].state = pending[g].state /\ pending'[g].last = pending[g].last
        BY <2>6, FlagsType DEF Escalate
    <3> QED BY <2>6, <3>1 DEF Escalate, AtHead, FramesKept
  <2>7. CASE RequestSoftFir(f)
    <3>1. \A g \in Frames : pending'[g].state = pending[g].state /\ pending'[g].last = pending[g].last
        BY <2>7, FlagsType DEF RequestSoftFir
    <3> QED BY <2>7, <3>1 DEF RequestSoftFir, AtHead, FramesKept
  <2>8. CASE LeaveHead(f)
      BY <2>8 DEF LeaveHead, AtHead, FramesKept
  <2> QED BY <1>6, <2>1, <2>2, <2>3, <2>4, <2>5, <2>6, <2>7, <2>8 DEF HeadStep
<1>7. CASE DecoderFails
    BY <1>0, <1>7 DEF DecoderFails, GoTo, FramesKept
<1>8. CASE Rtcp("process")
  <2>1. pc["process"] # "drop"
      BY <1>0, <1>8, RtcpFrame
  <2> QED BY <1>0, <1>8, <2>1, RtcpFrame DEF FramesKept
<1>9. CASE Rtcp("decode")
    BY <1>0, <1>9, RtcpFrame DEF FramesKept
<1> QED BY <1>1, <1>2, <1>3, <1>4, <1>5, <1>6, <1>7, <1>8, <1>9 DEF OtherActs, ProcessStep

\* Frames are delivered in order, and the newest abandoned one is remembered.
LEMMA Monotone ==
    ASSUME TypeOK, InHand, Next
    PROVE  lastDone <= lastDone' /\ lastDropped <= lastDropped'
<1>0. lastDone \in Nat /\ lastDropped \in Nat
    BY FrameNumbers DEF TypeOK
<1>1. CASE NetActs
    BY <1>0, <1>1, NetFrame
<1>2. CASE OtherActs
  <2>1. CASE FramesKept
      BY <1>0, <2>1 DEF FramesKept
  <2>2. CASE \E f \in Frames : Erased(f)
    <3>1. PICK f \in Frames : Erased(f)
        BY <2>2
    <3>2. f \in Nat
        BY FrameNumbers
    <3> QED BY <1>0, <3>1, <3>2 DEF Erased
  <2> QED BY <1>2, <2>1, <2>2, OtherActsFrames
<1> QED BY <1>1, <1>2, NextIsThreads

LEMMA ErasedPresent ==
    ASSUME TypeOK, NEW f \in Frames, Erased(f)
    PROVE  /\ Present' = Present \ {f} /\ f \in Present
           /\ \A g \in Present : f <= g
           /\ \A g \in Frames : g # f => pending'[g] = pending[g]
<1>1. /\ pending'[f].state = "none"
      /\ \A g \in Frames : g # f => pending'[g] = pending[g]
    BY ErasedType DEF Erased
<1>2. Head(f)
    BY DEF Erased
<1>3. Present' = Present \ {f}
    BY <1>1 DEF Present
<1> QED BY <1>1, <1>2, <1>3 DEF Head

LEMMA KeptPresent == ASSUME FramesKept PROVE Present' = Present
BY DEF FramesKept, Present

\* What InsertRtpPacket does to the frames.
NetFramesKept == UNCHANGED <<pending, parts, revived>>

LEMMA NetActsFrames ==
    ASSUME NetActs, TypeOK
    PROVE  NetFramesKept \/ InsertNalu \/ TrackPacket \/ CommitFrame
<1> USE DEF network, nackState, frameState, history, NetFramesKept
<1>1. CASE \E s \in AllPackets, isRtx \in BOOLEAN : Receive(s, isRtx)
    BY <1>1 DEF Receive
<1>2. CASE LateRtx \/ FirstEver \/ OutOfOrder \/ InOrder \/ Overflow \/ Corrupt
    BY <1>2 DEF LateRtx, FirstEver, OutOfOrder, InOrder, Overflow, Corrupt
<1>3. CASE Rtcp("net")
    BY <1>3, RtcpFrame DEF Threads
<1> QED BY <1>1, <1>2, <1>3 DEF NetActs, NetStep

LEMMA KeptFrames == ASSUME NetFramesKept PROVE Present' = Present
BY DEF NetFramesKept, Present

\* The entry that a packet leaves, and the others.
LEMMA NaluEntry ==
    ASSUME TypeOK, InHand, InsertNalu
    PROVE  LET f == FrameOf(pkt)
           IN  /\ f \in Frames /\ pkt = LastPacket[f] /\ pkt <= newest
               /\ Present' = Present \cup {f} /\ newest' = newest /\ parts' = parts
               /\ pending'[f] = Committed(f)
               /\ \A g \in Frames : g # f => pending'[g] = pending[g]
<1> DEFINE f == FrameOf(pkt)
<1>1. pc["net"] = "unpack" /\ Packets(f) = {pkt} /\ newest' = newest /\ parts' = parts
    BY DEF InsertNalu, nackState
<1>2. pkt \in AllPackets /\ pkt <= newest
    BY <1>1 DEF InHand
<1>3. f \in Frames
    BY <1>2, FrameOfPacket
<1>4. pkt = LastPacket[f]
    BY <1>1, <1>3, PacketNumbers
<1>5. pending' = [pending EXCEPT ![f] = Committed(f)]
    BY DEF InsertNalu
<1> HIDE DEF f
<1>6. pending'[f] = Committed(f) /\ \A g \in Frames : g # f => pending'[g] = pending[g]
    BY <1>3, <1>5 DEF TypeOK
<1>7. Committed(f).state = "complete"
    BY <1>3, CommittedType
<1>8. Present' = Present \cup {f}
    BY <1>3, <1>6, <1>7 DEF Present
<1> QED BY <1>1, <1>2, <1>3, <1>4, <1>6, <1>8 DEF f

LEMMA TrackEntry ==
    ASSUME TypeOK, InHand, TrackPacket
    PROVE  LET f == FrameOf(pkt)
           IN  /\ f \in Frames /\ pkt \in Packets(f) /\ pkt <= newest
               /\ Present' = Present \cup {f} /\ newest' = newest
               /\ parts' = parts \cup {pkt}
               /\ pending'[f].state = "complete" <=> Complete(f)
               /\ pending'[f].last = IF pkt > pending[f].last THEN pkt ELSE pending[f].last
               /\ \A g \in Frames : g # f => pending'[g] = pending[g]
<1> DEFINE f == FrameOf(pkt)
<1>1. pc["net"] = "unpack" /\ newest' = newest /\ parts' = parts \cup {pkt}
    BY DEF TrackPacket, nackState
<1>2. pkt \in AllPackets /\ pkt <= newest
    BY <1>1 DEF InHand
<1>3. f \in Frames /\ pkt \in Packets(f)
    BY <1>2, FrameOfPacket
<1>4. pending' = [pending EXCEPT ![f] = Tracked(f)]
    BY DEF TrackPacket
<1> HIDE DEF f
<1>5. pending'[f] = Tracked(f) /\ \A g \in Frames : g # f => pending'[g] = pending[g]
    BY <1>3, <1>4 DEF TypeOK
<1>6. /\ Tracked(f).state = IF pending[f].state = "none" THEN "partial" ELSE pending[f].state
      /\ Tracked(f).last = IF pkt > pending[f].last THEN pkt ELSE pending[f].last
    BY <1>2, <1>3, TrackedType
<1>7. Present' = Present \cup {f}
    BY <1>3, <1>5, <1>6 DEF Present
<1>8. pending'[f].state = "complete" <=> Complete(f)
    BY <1>5, <1>6 DEF Complete
<1> QED BY <1>1, <1>2, <1>3, <1>5, <1>6, <1>7, <1>8 DEF f

LEMMA CommitEntry ==
    ASSUME TypeOK, InHand, CommitFrame
    PROVE  LET f == FrameOf(pkt)
           IN  /\ f \in Frames /\ Present' = Present /\ newest' = newest
               /\ \A g \in Frames : g # f => pending'[g] = pending[g]
               /\ \/ UNCHANGED <<pending, parts>>
                  \/ /\ Packets(f) \subseteq parts /\ parts' = parts \ Packets(f)
                     /\ pending' = pending \/ (f \in Present /\ pending'[f] = Committed(f))
<1> DEFINE f == FrameOf(pkt)
<1>1. pc["net"] = "commit" /\ newest' = newest
    BY DEF CommitFrame, nackState
<1>2. pkt \in AllPackets
    BY <1>1 DEF InHand
<1>3. f \in Frames
    BY <1>2, FrameOfPacket
<1>4. \/ UNCHANGED <<pending, parts>>
      \/ /\ Packets(f) \subseteq parts /\ parts' = parts \ Packets(f)
         /\ \/ pending' = pending
            \/ f \in Present /\ pending' = [pending EXCEPT ![f] = Committed(f)]
    BY DEF CommitFrame
<1> HIDE DEF f
<1>5. /\ \A g \in Frames : g # f => pending'[g] = pending[g]
      /\ pending' = pending \/ (f \in Present /\ pending'[f] = Committed(f))
    BY <1>3, <1>4 DEF TypeOK
<1>6. Committed(f).state = "complete"
    BY <1>3, CommittedType
<1>7. Present' = Present
    BY <1>5, <1>6 DEF Present
<1> QED BY <1>1, <1>3, <1>4, <1>5, <1>7 DEF f

-----------------------------------------------------------------------------
(* The invariant, part by part                                               *)

LEMMA InHandKept ==
    ASSUME TypeOK, InHand, Next
    PROVE  InHand'
<1> USE DEF network, nackState, frameState, threadState, history
<1>0. /\ "net" \in Threads /\ pc \in [Threads -> Places] /\ after \in [Threads -> Returns]
      /\ newest \in Nat /\ NoPacket = 0
    BY PacketNumbers DEF TypeOK, Threads, Places, Returns, NoPacket
<1>a. \A f : f \in Frames /\ Obsolete(f) => Obsolete(f)'
  <2>0. TypeOK'
      BY StepType
  <2>1. lastDone \in Nat /\ lastDropped \in Nat /\ lastDone' \in Nat /\ lastDropped' \in Nat
      BY <2>0, FrameNumbers DEF TypeOK
  <2> QED BY <2>1, Monotone, FrameNumbers DEF Obsolete
<1>1. CASE \E s \in AllPackets, isRtx \in BOOLEAN : Receive(s, isRtx)
  <2>1. PICK s \in AllPackets, isRtx \in BOOLEAN : Receive(s, isRtx)
      BY <1>1
  <2>2. pc["net"] = "idle" /\ UNCHANGED <<after, lastDone, lastDropped, newest>>
      BY <2>1 DEF Receive
  <2>3. \/ UNCHANGED <<pc, pkt>>
        \/ pkt' = s /\ pc'["net"] = (IF Obsolete(FrameOf(s)) THEN "late" ELSE "insert")
      BY <1>0, <2>1 DEF Receive, GoTo
  <2>4. FrameOf(pkt)' = FrameOf(pkt')
      OBVIOUS
  <2> QED BY <2>2, <2>3, <2>4 DEF InHand, Obsolete
<1>2. CASE LateRtx
    BY <1>0, <1>2 DEF LateRtx, ReturnToSocket, GoTo, InHand
<1>3. CASE FirstEver
  <2>1. pkt \in Nat /\ pkt \in AllPackets
      BY <1>3, PacketNumbers DEF FirstEver, InHand
  <2> QED BY <1>0, <1>3, <2>1 DEF FirstEver, GoTo, InHand
<1>4. CASE OutOfOrder
    BY <1>0, <1>4 DEF OutOfOrder, Retire, GoTo, InHand
<1>5. CASE InOrder
  <2>1. pkt \in Nat /\ pkt \in AllPackets
      BY <1>5, PacketNumbers DEF InOrder, InHand
  <2>2. newest' = pkt /\ pkt' = pkt /\ pc["net"] = "insert" /\ after["net"] = "idle"
      BY <1>5 DEF InOrder, InHand
  <2>3. \/ pc'["net"] = "unpack" /\ after'["net"] = "idle"
        \/ pc'["net"] = "send" /\ after'["net"] = "unpack"
      BY <1>0, <1>5, <2>2 DEF InOrder, Send, GoTo
  <2> QED BY <2>1, <2>2, <2>3 DEF InHand
<1>6. CASE Overflow
  <2>1. pkt \in Nat /\ pkt \in AllPackets
      BY <1>6, PacketNumbers DEF Overflow, InHand
  <2> QED BY <1>0, <1>6, <2>1 DEF Overflow, Send, GoTo, InHand
<1>7. CASE Corrupt
    BY <1>0, <1>7 DEF Corrupt, Send, GoTo, InHand
<1>8. CASE InsertNalu
    BY <1>0, <1>8 DEF InsertNalu, ReturnToSocket, GoTo, InHand
<1>9. CASE TrackPacket
    BY <1>0, <1>9 DEF TrackPacket, GoTo, InHand
<1>10. CASE CommitFrame
    BY <1>0, <1>10 DEF CommitFrame, ReturnToSocket, GoTo, InHand
<1>11. CASE Rtcp("net")
  <2>1. newest' = newest
      BY <1>0, <1>11, RtcpFrame
  <2>2. CASE SendNack("net")
      BY <1>0, <2>1, <2>2 DEF SendNack, GoTo, InHand
  <2>3. CASE EnterAwaiting("net")
      BY <1>0, <2>1, <2>3 DEF EnterAwaiting, GoTo, InHand
  <2>4. CASE OnNackBatchSent("net") \/ SendKeyFrameRequest("net")
    <3>1. Return("net") /\ pc["net"] \in {"sent", "fir"}
        BY <2>4 DEF OnNackBatchSent, SendKeyFrameRequest
    <3>2. /\ pc'["net"] = after["net"] /\ after'["net"] = "idle"
          /\ after["net"] # "idle" => pkt' = pkt
        BY <1>0, <3>1 DEF Return, GoTo
    <3> QED BY <2>1, <3>1, <3>2 DEF InHand
  <2> QED BY <1>11, <2>2, <2>3, <2>4 DEF Rtcp
<1>12. CASE OtherActs
  <2>1. /\ pc'["net"] = pc["net"] /\ after'["net"] = after["net"]
        /\ pkt' = pkt /\ newest' = newest
      BY <1>12, OtherFrame
  <2>2. pc["net"] = "late" => Obsolete(FrameOf(pkt))'
    <3> SUFFICES ASSUME pc["net"] = "late" PROVE Obsolete(FrameOf(pkt))'
        OBVIOUS
    <3>1. FrameOf(pkt) \in Frames /\ Obsolete(FrameOf(pkt)) /\ FrameOf(pkt)' = FrameOf(pkt)
        BY <2>1, FrameOfPacket DEF InHand
    <3> QED BY <1>a, <3>1 DEF Obsolete
  <2> QED BY <2>1, <2>2 DEF InHand
<1> QED BY <1>1, <1>2, <1>3, <1>4, <1>5, <1>6, <1>7, <1>8, <1>9, <1>10, <1>11, <1>12,
           NextIsThreads DEF NetActs, NetStep

LEMMA EntriesKept ==
    ASSUME TypeOK, InHand, Entries, Next
    PROVE  Entries'
<1>0. newest \in Nat /\ newest' \in Nat
  <2>1. TypeOK'
      BY StepType
  <2> QED BY <2>1, PacketNumbers DEF TypeOK
<1>a. \A f \in Frames : /\ LastPacket[f] \in Nat /\ LastPacket[f] \in Packets(f)
                        /\ Packets(f) \subseteq Nat
                        /\ \A s \in Packets(f) : s <= LastPacket[f]
    BY PacketNumbers
<1>b. lastDone \in Frames \cup {0} /\ 0 \notin Frames /\ parts \subseteq Nat
    BY FrameNumbers, PacketNumbers DEF TypeOK
<1>1. CASE NetActs
  <2>0. newest <= newest' /\ lastDone' = lastDone
      BY <1>1, NetFrame
  <2>1. CASE NetFramesKept
    <3>1. pending' = pending /\ parts' = parts
        BY <2>1 DEF NetFramesKept
    <3>2. \A f \in Present : pending[f].last \in Nat
        BY <1>a DEF Entries, Present
    <3> QED BY <1>0, <1>a, <1>b, <2>0, <3>1, <3>2 DEF Entries, Present, Complete
  <2>2. CASE InsertNalu
    <3> DEFINE f == FrameOf(pkt)
    <3>1. /\ f \in Frames /\ pkt = LastPacket[f] /\ pkt <= newest
          /\ Present' = Present \cup {f} /\ newest' = newest /\ parts' = parts
          /\ pending'[f].last = LastPacket[f]
          /\ \A g \in Frames : g # f => pending'[g] = pending[g]
        BY <2>2, NaluEntry, CommittedType
    <3> HIDE DEF f
    <3> QED BY <1>a, <2>0, <3>1 DEF Entries, Present, Complete
  <2>3. CASE TrackPacket
    <3> DEFINE f == FrameOf(pkt)
    <3>1. /\ f \in Frames /\ pkt \in Packets(f) /\ pkt <= newest
          /\ Present' = Present \cup {f} /\ newest' = newest
          /\ parts' = parts \cup {pkt}
          /\ pending'[f].state = "complete" <=> Complete(f)
          /\ pending'[f].last = IF pkt > pending[f].last THEN pkt ELSE pending[f].last
          /\ \A g \in Frames : g # f => pending'[g] = pending[g]
        BY <2>3, TrackEntry
    <3> HIDE DEF f
    <3>2. pending'[f].last \in Packets(f) /\ pending'[f].last <= newest
      <4>1. CASE f \in Present
          BY <3>1, <4>1 DEF Entries
      <4>2. CASE f \notin Present
        <5>1. pending[f].last = 0
            BY <3>1, <4>2 DEF Entries, Present
        <5>2. pkt > 0
          <6>1. pkt \in Nat \ {0}
              BY <3>1, PacketNumbers
          <6> QED BY <6>1
        <5> QED BY <3>1, <5>1, <5>2
      <4> QED BY <4>1, <4>2
    <3>3. pending'[f].state = "complete" => pending'[f].last = LastPacket[f]
      <4> SUFFICES ASSUME Complete(f) PROVE pending'[f].last = LastPacket[f]
          BY <3>1
      <4>1. pending[f].last = LastPacket[f] /\ pkt <= LastPacket[f]
          BY <1>a, <3>1 DEF Entries
      <4>2. pkt \in Nat /\ LastPacket[f] \in Nat
          BY <1>a, <3>1
      <4> QED BY <3>1, <4>1, <4>2
    <3> QED BY <1>b, <2>0, <3>1, <3>2, <3>3 DEF Entries, Present, Complete
  <2>4. CASE CommitFrame
    <3> DEFINE f == FrameOf(pkt)
    <3>1. /\ f \in Frames /\ Present' = Present /\ newest' = newest
          /\ \A g \in Frames : g # f => pending'[g] = pending[g]
          /\ \/ UNCHANGED <<pending, parts>>
             \/ /\ Packets(f) \subseteq parts /\ parts' = parts \ Packets(f)
                /\ pending' = pending \/ (f \in Present /\ pending'[f].last = LastPacket[f])
        BY <2>4, CommitEntry, CommittedType
    <3> HIDE DEF f
    <3>2. Packets(f) \subseteq parts => LastPacket[f] <= newest
        BY <1>a, <3>1 DEF Entries
    <3> QED BY <1>a, <2>0, <3>1, <3>2 DEF Entries, Present, Complete
  <2> QED BY <1>1, <2>1, <2>2, <2>3, <2>4, NetActsFrames
<1>2. CASE OtherActs
  <2>0. newest' = newest
      BY <1>2, OtherFrame
  <2>1. CASE FramesKept
    <3>1. /\ lastDone' = lastDone /\ parts' \subseteq parts
          /\ \A f \in Frames : pending'[f].state = pending[f].state /\ pending'[f].last = pending[f].last
        BY <2>1 DEF FramesKept
    <3> QED BY <2>0, <3>1 DEF Entries, Present, Complete
  <2>2. CASE \E f \in Frames : Erased(f)
    <3>1. PICK f \in Frames : Erased(f)
        BY <2>2
    <3>2. /\ Present' = Present \ {f} /\ f \in Present
          /\ \A g \in Frames : g # f => pending'[g] = pending[g]
        BY <3>1, ErasedPresent
    <3>3. parts' = parts /\ (lastDone' = lastDone \/ (lastDone' = f /\ Complete(f)))
        BY <3>1 DEF Erased
    <3>4. pending'[f].state = "none" /\ pending'[f].last = 0
        BY <3>1, ErasedType DEF Erased
    <3> QED BY <2>0, <3>2, <3>3, <3>4 DEF Entries, Present, Complete
  <2> QED BY <1>2, <2>1, <2>2, OtherActsFrames
<1> QED BY <1>1, <1>2, NextIsThreads

\* Only packets ahead of the newest one are added to the list.
LEMMA NetNacks ==
    ASSUME TypeOK, InHand, NetActs
    PROVE  \A s \in nacks' : s \in nacks \/ newest < s
<1> USE DEF network, nackState, history
<1>1. CASE \E s \in AllPackets, isRtx \in BOOLEAN : Receive(s, isRtx)
    BY <1>1 DEF Receive
<1>2. CASE LateRtx \/ FirstEver \/ OutOfOrder \/ Overflow \/ Corrupt
    BY <1>2 DEF LateRtx, FirstEver, OutOfOrder, Overflow, Corrupt, Retire
<1>3. CASE InOrder
  <2>1. newest \in Nat /\ pkt \in Nat
      BY <1>3, PacketNumbers DEF TypeOK, InHand, InOrder
  <2>2. \A s \in Gap : newest < s
      BY <2>1 DEF Gap
  <2> QED BY <1>3, <2>2 DEF InOrder
<1>4. CASE InsertNalu \/ TrackPacket \/ CommitFrame
    BY <1>4 DEF InsertNalu, TrackPacket, CommitFrame
<1>5. CASE Rtcp("net")
    BY <1>5, RtcpFrame DEF Threads
<1> QED BY <1>1, <1>2, <1>3, <1>4, <1>5 DEF NetActs, NetStep

LEMMA NacksUsefulKept ==
    ASSUME TypeOK, InHand, Entries, NacksAreUseful, Next
    PROVE  NacksAreUseful'
<1>0. TypeOK' /\ TypeOK
    BY StepType
<1>1. nacks' \subseteq AllPackets /\ newest \in Nat /\ lastDone \in Frames \cup {0}
    BY <1>0, PacketNumbers DEF TypeOK
<1>2. ASSUME NEW s \in AllPackets, NEW f \in Frames \cup {0},
             f # 0 => LastPacket[f] < s
      PROVE  f < FrameOf(s)
  <2>1. FrameOf(s) \in Nat \ {0}
      BY FrameOfPacket, FrameNumbers
  <2>2. f # 0 => f < FrameOf(s)
      BY <1>2, LaterFrame
  <2> QED BY <2>1, <2>2
<1>3. SUFFICES ASSUME NEW s \in nacks' PROVE FrameOf(s) > lastDone'
    BY DEF NacksAreUseful
<1>4. s \in AllPackets /\ s \in Nat /\ FrameOf(s) \in Nat
    BY <1>1, FrameOfPacket, PacketNumbers, FrameNumbers
<1>5. CASE NetActs
  <2>1. lastDone' = lastDone /\ (s \in nacks \/ newest < s)
      BY <1>5, NetFrame, NetNacks
  <2>2. CASE s \in nacks
      BY <2>1, <2>2 DEF NacksAreUseful
  <2>3. CASE newest < s
    <3>1. ASSUME lastDone # 0 PROVE LastPacket[lastDone] < s
      <4>1. LastPacket[lastDone] <= newest /\ LastPacket[lastDone] \in Nat
          BY <1>1, <3>1, FrameNumbers DEF Entries
      <4> QED BY <1>1, <1>4, <2>3, <4>1
    <3>2. lastDone < FrameOf(s)
        BY <1>1, <1>2, <1>4, <3>1
    <3>3. lastDone \in Nat
        BY <1>1, FrameNumbers
    <3> QED BY <1>4, <2>1, <3>2, <3>3
  <2> QED BY <2>1, <2>2, <2>3
<1>6. CASE OtherActs
  <2>1. CASE FramesKept
      BY <2>1 DEF FramesKept, NacksAreUseful
  <2>2. CASE \E f \in Frames : Erased(f)
    <3>1. PICK f \in Frames : Erased(f)
        BY <2>2
    <3>2. s \in nacks
        BY <3>1 DEF Erased
    <3>3. CASE lastDone' = lastDone
        BY <3>2, <3>3 DEF NacksAreUseful
    <3>4. CASE lastDone' = f /\ lastDone' # lastDone
      <4>1. Complete(f) /\ s \notin UpTo(pending[f].last)
          BY <3>1, <3>4 DEF Erased
      <4>2. pending[f].last = LastPacket[f] /\ LastPacket[f] \in Nat
          BY <4>1, FrameNumbers DEF Entries
      <4>3. LastPacket[f] < s
          BY <1>4, <3>2, <4>1, <4>2 DEF UpTo
      <4>4. f < FrameOf(s) /\ f \in Nat
          BY <1>4, <4>3, LaterFrame, FrameNumbers
      <4> QED BY <1>4, <3>4, <4>4
    <3> QED BY <3>1, <3>3, <3>4 DEF Erased
  <2> QED BY <1>6, <2>1, <2>2, OtherActsFrames
<1> QED BY <1>5, <1>6, NextIsThreads

LEMMA FragmentsKept ==
    ASSUME TypeOK, InHand, FragmentsAreReachable, Next
    PROVE  FragmentsAreReachable'
<1>0. parts \subseteq AllPackets /\ lastDone \in Nat
    BY FrameNumbers DEF TypeOK
<1>a. \A s \in parts : \/ FrameOf(s) \in Present \/ FrameOf(s) <= lastDone
                       \/ pc["process"] = "drop" /\ dropping.frame = FrameOf(s)
    BY DEF FragmentsAreReachable
<1> SUFFICES \A s \in parts' :
                \/ FrameOf(s) \in Present' \/ FrameOf(s) <= lastDone'
                \/ pc'["process"] = "drop" /\ dropping'.frame = FrameOf(s)
    BY DEF FragmentsAreReachable
<1>1. CASE NetActs
  <2>0. pc'["process"] = pc["process"] /\ dropping' = dropping /\ lastDone' = lastDone
      BY <1>1, NetFrame
  <2>1. CASE NetFramesKept
      BY <1>a, <2>0, <2>1, KeptFrames DEF NetFramesKept
  <2>2. CASE InsertNalu
      BY <1>a, <2>0, <2>2, NaluEntry
  <2>3. CASE TrackPacket
      BY <1>a, <2>0, <2>3, TrackEntry
  <2>4. CASE CommitFrame
      BY <1>a, <2>0, <2>4, CommitEntry
  <2> QED BY <1>1, <2>1, <2>2, <2>3, <2>4, NetActsFrames
<1>2. CASE OtherActs
  <2>1. CASE FramesKept
    <3>1. Present' = Present /\ lastDone' = lastDone
        BY <2>1, KeptPresent DEF FramesKept
    <3>2. CASE /\ UNCHANGED <<parts, dropping>>
               /\ pc["process"] = "drop" => pc'["process"] = "drop"
        BY <1>a, <3>1, <3>2
    <3>3. CASE parts' = parts \ Packets(dropping.frame)
      <4> SUFFICES ASSUME NEW s \in parts'
                   PROVE  FrameOf(s) \in Present' \/ FrameOf(s) <= lastDone'
          OBVIOUS
      <4>1. s \in parts /\ s \notin Packets(dropping.frame) /\ s \in Packets(FrameOf(s))
          BY <1>0, <3>3, FrameOfPacket
      <4>2. dropping.frame # FrameOf(s)
          BY <4>1
      <4> QED BY <1>a, <3>1, <4>1, <4>2
    <3> QED BY <2>1, <3>2, <3>3 DEF FramesKept
  <2>2. CASE \E f \in Frames : Erased(f)
    <3>1. PICK f \in Frames : Erased(f)
        BY <2>2
    <3>2. Present' = Present \ {f} /\ pc["process"] # "drop" /\ parts' = parts
        BY <3>1, ErasedPresent DEF Erased
    <3>3. f \in Nat
        BY FrameNumbers
    <3>4. CASE lastDone' = f /\ ~(f <= lastDone)
      <4> SUFFICES ASSUME NEW s \in parts
                   PROVE  FrameOf(s) \in Present' \/ FrameOf(s) <= lastDone'
          BY <3>2
      <4>1. FrameOf(s) \in Nat
          BY <1>0, FrameOfPacket, FrameNumbers
      <4> QED BY <1>0, <1>a, <3>2, <3>3, <3>4, <4>1
    <3>5. CASE lastDone' = lastDone /\ pc'["process"] = "drop" /\ dropping'.frame = f
        BY <1>a, <3>2, <3>5
    <3> QED BY <3>1, <3>4, <3>5 DEF Erased
  <2> QED BY <1>2, <2>1, <2>2, OtherActsFrames
<1> QED BY <1>1, <1>2, NextIsThreads

LEMMA LateEntriesKept ==
    ASSUME TypeOK, InHand, LateEntries, Next
    PROVE  LateEntries'
<1>0. lastDropped \in Nat /\ lastDropped' \in Nat
  <2>1. TypeOK'
      BY StepType
  <2> QED BY <2>1, FrameNumbers DEF TypeOK
<1> SUFFICES ASSUME NEW g \in Present', g <= lastDropped' PROVE g \in revived'
    BY DEF LateEntries
<1>1. CASE NetActs
  <2>0. lastDropped' = lastDropped /\ revived \subseteq revived'
      BY <1>1, NetFrame
  <2>1. CASE NetFramesKept \/ CommitFrame
    <3>1. Present' = Present
        BY <2>1, KeptFrames, CommitEntry
    <3> QED BY <2>0, <3>1 DEF LateEntries
  <2>2. CASE InsertNalu
    <3>1. g \in Present \/ g = FrameOf(pkt)
        BY <2>2, NaluEntry
    <3>2. Obsolete(FrameOf(pkt)) => FrameOf(pkt) \in revived'
        BY <2>2 DEF InsertNalu
    <3> QED BY <2>0, <3>1, <3>2 DEF LateEntries, Obsolete
  <2>3. CASE TrackPacket
    <3>1. g \in Present \/ g = FrameOf(pkt)
        BY <2>3, TrackEntry
    <3>2. Obsolete(FrameOf(pkt)) => FrameOf(pkt) \in revived'
        BY <2>3 DEF TrackPacket
    <3> QED BY <2>0, <3>1, <3>2 DEF LateEntries, Obsolete
  <2> QED BY <1>1, <2>1, <2>2, <2>3, NetActsFrames
<1>2. CASE OtherActs
  <2>0. revived' = revived
      BY <1>2, OtherFrame
  <2>1. CASE FramesKept
      BY <2>0, <2>1, KeptPresent DEF FramesKept, LateEntries
  <2>2. CASE \E f \in Frames : Erased(f)
    <3>1. PICK f \in Frames : Erased(f)
        BY <2>2
    <3>2. g \in Present /\ g # f /\ f <= g
        BY <3>1, ErasedPresent
    <3>3. f \in Nat /\ g \in Nat
        BY <3>2, FrameNumbers DEF Present
    <3>4. lastDropped' = lastDropped \/ lastDropped' = IF f > lastDropped THEN f ELSE lastDropped
        BY <3>1 DEF Erased
    <3>5. g <= lastDropped
        BY <1>0, <3>2, <3>3, <3>4
    <3> QED BY <2>0, <3>2, <3>5 DEF LateEntries
  <2> QED BY <1>2, <2>1, <2>2, OtherActsFrames
<1> QED BY <1>1, <1>2, NextIsThreads

LEMMA AbandonedKept ==
    ASSUME TypeOK, InHand, LateEntries, AbandonedNeedsKey, Next
    PROVE  AbandonedNeedsKey'
<1>0. lastDropped \in Nat /\ lastDone \in Nat
    BY FrameNumbers DEF TypeOK
<1>1. CASE NetActs
    BY <1>1, NetFrame DEF AbandonedNeedsKey
<1>2. CASE OtherActs
  <2>0. revived' = revived
      BY <1>2, OtherFrame
  <2>1. CASE FramesKept
      BY <2>0, <2>1 DEF FramesKept, AbandonedNeedsKey
  <2>2. CASE \E f \in Frames : Erased(f)
    <3>1. PICK f \in Frames : Erased(f)
        BY <2>2
    <3>2. f \in Present /\ f \in Nat
        BY <3>1, ErasedPresent, FrameNumbers
    <3>3. CASE lastDone' = f /\ lastDropped' = lastDropped
        BY <1>0, <2>0, <3>2, <3>3 DEF AbandonedNeedsKey, LateEntries
    <3>4. CASE lastDone' = lastDone /\ lastDropped' = lastDropped /\ (awaiting => awaiting')
        BY <2>0, <3>4 DEF AbandonedNeedsKey
    <3>5. CASE awaiting'
        BY <3>5 DEF AbandonedNeedsKey
    <3> QED BY <3>1, <3>3, <3>4, <3>5 DEF Erased
  <2> QED BY <1>2, <2>1, <2>2, OtherActsFrames
<1> QED BY <1>1, <1>2, NextIsThreads

\* A frame that Process knows of stays known.
LEMMA KnownKept ==
    ASSUME TypeOK, InHand, Next, NEW f \in Frames, Known(f)
    PROVE  Known(f)'
<1>0. /\ lastDropped \in Nat /\ lastDropped' \in Nat /\ lastDone \in Nat /\ lastDone' \in Nat
      /\ f \in Nat
  <2>1. TypeOK'
      BY StepType
  <2> QED BY <2>1, FrameNumbers DEF TypeOK
<1>1. lastDone <= lastDone' /\ lastDropped <= lastDropped'
    BY Monotone
<1>2. Obsolete(f) => Obsolete(f)'
    BY <1>0, <1>1 DEF Obsolete
<1>3. CASE NetActs
  <2>1. Present \subseteq Present' /\ skipped' = skipped
      BY <1>3, NetFrame, NetActsFrames, KeptFrames, NaluEntry, TrackEntry, CommitEntry
  <2> QED BY <1>2, <2>1 DEF Known
<1>4. CASE OtherActs
  <2>1. CASE FramesKept
      BY <1>2, <2>1, KeptPresent DEF FramesKept, Known
  <2>2. CASE \E g \in Frames : Erased(g)
    <3>1. PICK g \in Frames : Erased(g)
        BY <2>2
    <3>2. Present' = Present \ {g} /\ skipped \subseteq skipped' /\ g \in Nat
        BY <3>1, ErasedPresent, FrameNumbers DEF Erased
    <3>3. CASE f # g
        BY <1>2, <3>2, <3>3 DEF Known
    <3>4. CASE f = g
      <4>1. \/ lastDone' = f \/ (lastDone' = lastDone /\ f <= lastDone)
            \/ f \in skipped'
            \/ lastDropped' = IF f > lastDropped THEN f ELSE lastDropped
          BY <3>1, <3>4 DEF Erased
      <4>2. f <= lastDone' \/ f \in skipped' \/ f <= lastDropped'
          BY <1>0, <4>1
      <4> QED BY <4>2 DEF Known, Obsolete
    <3> QED BY <3>3, <3>4
  <2> QED BY <1>4, <2>1, <2>2, OtherActsFrames
<1> QED BY <1>3, <1>4, NextIsThreads

\* A step of InsertRtpPacket keeps every packet accounted for if it does so
\* for the packet in hand, the ones it drops from the list and new ones.
LEMMA AccountedBy ==
    ASSUME TypeOK, InHand, Accounted, NetActs,
           newest # 0 \/ \A s \in AllPackets : s <= newest' =>
                            s \in writtenOff' \/ (pc'["net"] # "idle" /\ pkt' = s),
           \A s \in AllPackets :
              \/ newest < s /\ s <= newest'
              \/ s \in nacks \ nacks'
              \/ pc["net"] # "idle" /\ s = pkt /\ (pc'["net"] = "idle" \/ pkt' # pkt)
              => \/ s \in nacks' \/ s \in writtenOff'
                 \/ pc'["net"] # "idle" /\ pkt' = s
                 \/ Known(FrameOf(s))'
    PROVE  \A s \in AllPackets : s <= newest' =>
              \/ s \in nacks' \/ s \in writtenOff'
              \/ pc'["net"] # "idle" /\ pkt' = s
              \/ Known(FrameOf(s))'
<1> SUFFICES ASSUME NEW s \in AllPackets, s <= newest'
             PROVE  \/ s \in nacks' \/ s \in writtenOff'
                    \/ pc'["net"] # "idle" /\ pkt' = s
                    \/ Known(FrameOf(s))'
    OBVIOUS
<1>1. Next
    BY NextIsThreads
<1>2. s \in Nat /\ newest \in Nat
    BY PacketNumbers DEF TypeOK
<1>3. newest = 0 \/ writtenOff \subseteq writtenOff'
    BY NetFrame
<1>4. CASE newest = 0
    BY <1>4
<1>5. CASE newest # 0 /\ newest < s
    BY <1>5
<1>6. CASE newest # 0 /\ ~(newest < s)
  <2>1. \/ s \in nacks \/ s \in writtenOff
        \/ pc["net"] # "idle" /\ pkt = s
        \/ Known(FrameOf(s))
      BY <1>2, <1>6 DEF Accounted
  <2>2. Known(FrameOf(s)) => Known(FrameOf(s))'
      BY <1>1, KnownKept, FrameOfPacket
  <2> QED BY <1>3, <1>6, <2>1, <2>2
<1> QED BY <1>4, <1>5, <1>6

LEMMA AccountedKept ==
    ASSUME TypeOK, InHand, Entries, Accounted, Next
    PROVE  Accounted'
<1> USE DEF network, nackState, frameState, threadState, history
<1> DEFINE All == \A s \in AllPackets : s <= newest' =>
                     \/ s \in nacks' \/ s \in writtenOff'
                     \/ pc'["net"] # "idle" /\ pkt' = s
                     \/ Known(FrameOf(s))'
           Commit == pc'["net"] = "commit" => Known(FrameOf(pkt))'
           Off == pc'["net"] \in {"send", "sent", "await", "fir"} /\ after'["net"] = "idle"
                     => pkt' \in writtenOff'
<1> SUFFICES All /\ Commit /\ Off
    BY DEF Accounted
<1>0. /\ "net" \in Threads /\ pc \in [Threads -> Places] /\ after \in [Threads -> Returns]
      /\ newest \in Nat /\ AllPackets \subseteq Nat \ {0}
      /\ pc["net"] # "idle" => pkt \in AllPackets
    BY PacketNumbers DEF TypeOK, Threads, Places, Returns, InHand
<1>1. CASE \E s \in AllPackets, isRtx \in BOOLEAN : Receive(s, isRtx)
  <2>0. NetActs
      BY <1>1 DEF NetActs
  <2>1. /\ pc["net"] = "idle" /\ UNCHANGED <<newest, nacks, writtenOff>>
        /\ pc'["net"] \in {"idle", "late", "insert"}
      BY <1>0, <1>1 DEF Receive, GoTo
  <2>2. All
      BY <1>0, <2>0, <2>1, AccountedBy
  <2> QED BY <2>1, <2>2
<1>2. CASE LateRtx
  <2>0. NetActs
      BY <1>2 DEF NetActs, NetStep
  <2>1. /\ pc["net"] = "late" /\ pc'["net"] = "idle" /\ UNCHANGED <<newest, writtenOff>>
        /\ nacks' = nacks \ {pkt}
      BY <1>0, <1>2 DEF LateRtx, Retire, ReturnToSocket, GoTo
  <2>2. ASSUME NEW s \in AllPackets, s = pkt PROVE Known(FrameOf(s))'
    <3>1. Known(FrameOf(s)) /\ FrameOf(s) \in Frames
        BY <2>1, <2>2, FrameOfPacket DEF InHand, Known
    <3> QED BY <3>1, KnownKept
  <2>3. All
      BY <1>0, <2>0, <2>1, <2>2, AccountedBy
  <2> QED BY <2>1, <2>3
<1>3. CASE FirstEver
  <2>0. NetActs
      BY <1>3 DEF NetActs, NetStep
  <2>1. /\ pc["net"] = "insert" /\ pc'["net"] = "unpack" /\ newest = 0 /\ newest' = pkt
        /\ pkt' = pkt /\ nacks' = nacks
        /\ writtenOff' = { s \in AllPackets : s < pkt }
      BY <1>0, <1>3 DEF FirstEver, GoTo
  <2>2. pkt \in Nat
      BY <1>0, <2>1
  <2>3. All
      BY <1>0, <2>1, <2>2
  <2> QED BY <2>1, <2>3
<1>4. CASE OutOfOrder
  <2>0. NetActs
      BY <1>4 DEF NetActs, NetStep
  <2>1. /\ pc["net"] = "insert" /\ pc'["net"] = "unpack" /\ UNCHANGED <<newest, writtenOff, pkt>>
        /\ nacks' = nacks \ {pkt}
      BY <1>0, <1>4 DEF OutOfOrder, Retire, GoTo
  <2>2. All
      BY <1>0, <2>0, <2>1, AccountedBy
  <2> QED BY <2>1, <2>2
<1>5. CASE InOrder
  <2>0. NetActs
      BY <1>5 DEF NetActs, NetStep
  <2>1. /\ pc["net"] = "insert" /\ newest # 0 /\ newest' = pkt
        /\ nacks' = nacks \cup Gap /\ UNCHANGED <<writtenOff, pkt>>
        /\ \/ pc'["net"] = "unpack"
           \/ pc'["net"] = "send" /\ after'["net"] = "unpack"
      BY <1>0, <1>5 DEF InOrder, Send, GoTo
  <2>2. \A s \in AllPackets : newest < s /\ s <= pkt => s \in Gap \/ s = pkt
    <3>1. pkt \in Nat /\ \A s \in AllPackets : s \in Nat
        BY <1>0, <2>1
    <3> QED BY <1>0, <3>1 DEF Gap
  <2>3. All
      BY <1>0, <2>0, <2>1, <2>2, AccountedBy
  <2> QED BY <2>1, <2>3
<1>6. CASE Overflow
  <2>0. NetActs
      BY <1>6 DEF NetActs, NetStep
  <2>1. /\ pc["net"] = "insert" /\ newest # 0 /\ newest' = pkt /\ pkt' = pkt
        /\ writtenOff' = writtenOff \cup nacks \cup Gap
        /\ pc'["net"] = "await" /\ after'["net"] = "unpack"
      BY <1>0, <1>6 DEF Overflow, Send, GoTo
  <2>2. \A s \in AllPackets : newest < s /\ s <= pkt => s \in Gap \/ s = pkt
    <3>1. pkt \in Nat /\ \A s \in AllPackets : s \in Nat
        BY <1>0, <2>1
    <3> QED BY <1>0, <3>1 DEF Gap
  <2>3. All
      BY <1>0, <2>0, <2>1, <2>2, AccountedBy
  <2> QED BY <2>1, <2>3
<1>7. CASE Corrupt
  <2>0. NetActs
      BY <1>7 DEF NetActs, NetStep
  <2>1. /\ pc["net"] = "unpack" /\ UNCHANGED <<newest, nacks, pkt>>
        /\ writtenOff' = writtenOff \cup {pkt}
        /\ pc'["net"] = "await"
      BY <1>0, <1>7 DEF Corrupt, Send, GoTo
  <2>2. All
      BY <1>0, <2>0, <2>1, AccountedBy
  <2> QED BY <2>1, <2>2
<1>8. CASE InsertNalu
  <2>0. NetActs
      BY <1>8 DEF NetActs, NetStep
  <2>1. /\ pc["net"] = "unpack" /\ UNCHANGED <<newest, nacks, writtenOff>>
        /\ pc'["net"] = "idle"
      BY <1>0, <1>8 DEF InsertNalu, ReturnToSocket, GoTo
  <2>2. ASSUME NEW s \in AllPackets, s = pkt PROVE Known(FrameOf(s))'
      BY <1>8, <2>2, NaluEntry DEF Known
  <2>3. All
      BY <1>0, <2>0, <2>1, <2>2, AccountedBy
  <2> QED BY <2>1, <2>3
<1>9. CASE TrackPacket
  <2>0. NetActs
      BY <1>9 DEF NetActs, NetStep
  <2>1. /\ pc["net"] = "unpack" /\ UNCHANGED <<newest, nacks, writtenOff, pkt>>
        /\ pc'["net"] = "commit"
      BY <1>0, <1>9 DEF TrackPacket, GoTo
  <2>2. Known(FrameOf(pkt))'
      BY <1>9, <2>1, TrackEntry DEF Known
  <2>3. All
      BY <1>0, <2>0, <2>1, AccountedBy
  <2> QED BY <2>1, <2>2, <2>3
<1>10. CASE CommitFrame
  <2>0. NetActs
      BY <1>10 DEF NetActs, NetStep
  <2>1. /\ pc["net"] = "commit" /\ UNCHANGED <<newest, nacks, writtenOff>>
        /\ pc'["net"] = "idle"
      BY <1>0, <1>10 DEF CommitFrame, ReturnToSocket, GoTo
  <2>2. ASSUME NEW s \in AllPackets, s = pkt PROVE Known(FrameOf(s))'
    <3>1. Known(FrameOf(s)) /\ FrameOf(s) \in Frames
        BY <2>1, <2>2, FrameOfPacket DEF Accounted
    <3> QED BY <3>1, KnownKept
  <2>3. All
      BY <1>0, <2>0, <2>1, <2>2, AccountedBy
  <2> QED BY <2>1, <2>3
<1>11. CASE Rtcp("net")
  <2>0. NetActs
      BY <1>11 DEF NetActs
  <2>1. /\ UNCHANGED <<newest, nacks, writtenOff>>
        /\ pc["net"] \in {"send", "sent", "await", "fir"}
      BY <1>0, <1>11, RtcpFrame
  <2>2. \/ pc'["net"] \in {"sent", "fir"} /\ UNCHANGED <<pkt, after>>
        \/ pc'["net"] = after["net"] /\ (after["net"] # "idle" => pkt' = pkt)
    <3>1. CASE SendNack("net") \/ EnterAwaiting("net")
        BY <1>0, <3>1 DEF SendNack, EnterAwaiting, GoTo
    <3>2. CASE OnNackBatchSent("net") \/ SendKeyFrameRequest("net")
        BY <1>0, <3>2 DEF OnNackBatchSent, SendKeyFrameRequest, Return, GoTo
    <3> QED BY <1>11, <3>1, <3>2 DEF Rtcp
  <2>3. after["net"] \in {"idle", "unpack"}
      BY DEF InHand
  <2>4. pc["net"] \in {"send", "sent", "await", "fir"} /\ after["net"] = "idle"
           => pkt \in writtenOff
      BY DEF Accounted
  <2>5. All
      BY <1>0, <2>0, <2>1, <2>2, <2>3, <2>4, AccountedBy
  <2> QED BY <2>1, <2>2, <2>3, <2>4, <2>5
<1>12. CASE OtherActs
  <2>1. /\ pc'["net"] = pc["net"] /\ after'["net"] = after["net"]
        /\ UNCHANGED <<pkt, newest, writtenOff>>
      BY <1>12, OtherFrame
  <2>2. ASSUME NEW f \in Frames, Known(f) PROVE Known(f)'
      BY <2>2, KnownKept
  <2>3. ASSUME NEW s \in AllPackets, s \in nacks, s \notin nacks' PROVE Known(FrameOf(s))'
    <3>1. FrameOf(s) \in Frames /\ FrameOf(s) \in Nat /\ s \in Nat
        BY <1>0, FrameOfPacket, FrameNumbers
    <3>2. ~FramesKept
        BY <2>3 DEF FramesKept
    <3>3. PICK f \in Frames : Erased(f)
        BY <1>12, <3>2, OtherActsFrames
    <3>4. f \in Present /\ f \in Nat
        BY <3>3, ErasedPresent, FrameNumbers
    <3>5. /\ nacks' = nacks \ UpTo(pending[f].last)
          /\ lastDone' = f \/ lastDropped' = IF f > lastDropped THEN f ELSE lastDropped
        BY <2>3, <3>3 DEF Erased
    <3>6. s <= pending[f].last /\ pending[f].last \in Packets(f)
        BY <2>3, <3>4, <3>5 DEF UpTo, Entries
    <3>7. FrameOf(s) <= f
      <4>1. pending[f].last \in AllPackets /\ FrameOf(pending[f].last) = f
          BY <3>6, PacketNumbers, FrameIsUnique
      <4> QED BY <3>6, <4>1, FrameOrder
    <3>8. lastDropped \in Nat
        BY FrameNumbers DEF TypeOK
    <3>9. FrameOf(s) <= lastDone' \/ FrameOf(s) <= lastDropped'
        BY <3>1, <3>4, <3>5, <3>7, <3>8
    <3> QED BY <3>9 DEF Known, Obsolete
  <2>4. All
    <3> SUFFICES ASSUME NEW s \in AllPackets, s <= newest'
                 PROVE  \/ s \in nacks' \/ s \in writtenOff'
                        \/ pc'["net"] # "idle" /\ pkt' = s
                        \/ Known(FrameOf(s))'
        OBVIOUS
    <3>1. \/ s \in nacks \/ s \in writtenOff \/ (pc["net"] # "idle" /\ pkt = s)
          \/ Known(FrameOf(s))
        BY <2>1 DEF Accounted
    <3>2. Known(FrameOf(s)) => Known(FrameOf(s))'
        BY KnownKept, FrameOfPacket
    <3> QED BY <2>1, <2>3, <3>1, <3>2
  <2>5. Commit
    <3> SUFFICES ASSUME pc["net"] = "commit" PROVE Known(FrameOf(pkt))'
        BY <2>1
    <3>1. FrameOf(pkt) \in Frames /\ Known(FrameOf(pkt))
        BY <1>0, FrameOfPacket DEF Accounted
    <3>2. PICK f \in Frames : f = FrameOf(pkt)
        BY <3>1
    <3>3. Known(f)' /\ FrameOf(pkt') = f
        BY <2>1, <3>1, <3>2, KnownKept
    <3> QED BY <3>3 DEF Known, Obsolete
  <2> QED BY <2>1, <2>4, <2>5 DEF Accounted
<1> QED BY <1>1, <1>2, <1>3, <1>4, <1>5, <1>6, <1>7, <1>8, <1>9, <1>10, <1>11, <1>12,
           NextIsThreads DEF NetActs, NetStep

\* Most steps at most take entries off the NACK list, flags included, and stop
\* no thread that is sending.
Shrinks(X) ==
    /\ nacks' = nacks \ X /\ sending' = sending \ X /\ batch' = batch
    /\ \A t \in Threads : pc[t] \in {"send", "sent"} => pc'[t] \in {"send", "sent"}

LEMMA BatchSteps ==
    ASSUME TypeOK, Next
    PROVE  \/ \E X : Shrinks(X)
           \/ InOrder \/ ProcessNacks
           \/ \E t \in Threads : OnNackBatchSent(t)
<1> USE DEF network, nackState, frameState, threadState, history
<1>0. /\ Threads = {"net", "process", "decode"} /\ pc \in [Threads -> Places]
      /\ nacks = nacks \ {} /\ sending = sending \ {}
      /\ nacks \ nacks = {} /\ sending \ nacks = {}
    BY DEF TypeOK, Threads, Places
<1>a. ASSUME NEW t \in Threads, NEW place, GoTo(t, place), pc[t] \notin {"send", "sent"}
      PROVE  \A u \in Threads : pc[u] \in {"send", "sent"} => pc'[u] \in {"send", "sent"}
    BY <1>0, <1>a DEF GoTo
<1>b. ASSUME UNCHANGED <<nacks, sending, batch>>,
             \A u \in Threads : pc[u] \in {"send", "sent"} => pc'[u] \in {"send", "sent"}
      PROVE  Shrinks({})
    BY <1>0, <1>b DEF Shrinks
<1>1. CASE FirTimer
    BY <1>1, <1>b DEF FirTimer
<1>2. CASE \E s \in AllPackets, isRtx \in BOOLEAN : Receive(s, isRtx)
  <2>1. pc["net"] = "idle" /\ UNCHANGED <<nacks, sending, batch>>
      BY <1>2 DEF Receive
  <2>2. UNCHANGED pc \/ \E place : GoTo("net", place)
      BY <1>2 DEF Receive
  <2> QED BY <1>0, <1>a, <1>b, <2>1, <2>2
<1>3. CASE LateRtx
  <2>1. pc["net"] = "late" /\ GoTo("net", "idle") /\ Retire(pkt) /\ batch' = batch
      BY <1>3 DEF LateRtx, ReturnToSocket
  <2>2. Shrinks({pkt})
      BY <1>0, <1>a, <2>1 DEF Retire, Shrinks
  <2> QED BY <2>2
<1>4. CASE FirstEver
    BY <1>0, <1>4, <1>a, <1>b DEF FirstEver
<1>5. CASE OutOfOrder
  <2>1. pc["net"] = "insert" /\ GoTo("net", "unpack") /\ Retire(pkt) /\ batch' = batch
      BY <1>5 DEF OutOfOrder
  <2>2. Shrinks({pkt})
      BY <1>0, <1>a, <2>1 DEF Retire, Shrinks
  <2> QED BY <2>2
<1>6. CASE Overflow
  <2>1. Shrinks(nacks)
      BY <1>0, <1>6, <1>a DEF Overflow, Send, Shrinks
  <2> QED BY <2>1
<1>7. CASE Corrupt
    BY <1>0, <1>7, <1>a, <1>b DEF Corrupt, Send
<1>8. CASE InsertNalu \/ CommitFrame
    BY <1>0, <1>8, <1>a, <1>b DEF InsertNalu, CommitFrame, ReturnToSocket
<1>9. CASE TrackPacket
    BY <1>0, <1>9, <1>a, <1>b DEF TrackPacket
<1>10. CASE MaybeRetryKeyFrameRequest
  <2>1. \E place : GoTo("process", place)
      BY <1>10 DEF MaybeRetryKeyFrameRequest, MaybeFir, Send
  <2> QED BY <1>0, <1>10, <1>a, <1>b, <2>1 DEF MaybeRetryKeyFrameRequest
<1>11. CASE NoFrames
    BY <1>0, <1>11, <1>a, <1>b DEF NoFrames, AtHead
<1>12. CASE DropFrameAssembly
  <2>1. \E place : GoTo("process", place)
      BY <1>12 DEF DropFrameAssembly, MaybeFir, Send
  <2> QED BY <1>0, <1>12, <1>a, <1>b, <2>1 DEF DropFrameAssembly
<1>13. ASSUME NEW f \in Frames, HeadStep(f) PROVE \E X : Shrinks(X)
  <2>1. CASE DropUseless(f) \/ SkipDelta(f) \/ Escalate(f) \/ LeaveHead(f)
      BY <1>0, <1>a, <1>b, <2>1 DEF DropUseless, SkipDelta, Escalate, LeaveHead, AtHead
  <2>2. CASE DeliverAwaitedKey(f)
    <3>1. Shrinks(UpTo(pending[f].last))
        BY <2>2 DEF DeliverAwaitedKey, Shrinks
    <3> QED BY <3>1
  <2>3. CASE Deliver(f)
      BY <2>3, <1>b DEF Deliver
  <2>4. CASE HardTimeout(f)
    <3>1. Shrinks(UpTo(pending[f].last))
        BY <1>0, <1>a, <2>4 DEF HardTimeout, AtHead, Abandon, Shrinks
    <3> QED BY <3>1
  <2>5. CASE RequestSoftFir(f)
    <3>1. \E place : GoTo("process", place)
        BY <2>5 DEF RequestSoftFir, MaybeFir, Send
    <3> QED BY <1>0, <1>a, <1>b, <2>5, <3>1 DEF RequestSoftFir, AtHead
  <2> QED BY <1>13, <2>1, <2>2, <2>3, <2>4, <2>5 DEF HeadStep
<1>14. CASE DecoderFails
    BY <1>0, <1>14, <1>a, <1>b DEF DecoderFails
<1>15. ASSUME NEW t \in Threads, SendNack(t) PROVE \E X : Shrinks(X)
  <2>1. pc' = [pc EXCEPT ![t] = "sent"] /\ UNCHANGED <<nacks, sending, batch>>
      BY <1>15 DEF SendNack, GoTo
  <2>2. \A u \in Threads : pc[u] \in {"send", "sent"} => pc'[u] \in {"send", "sent"}
      BY <1>0, <2>1
  <2> QED BY <1>b, <2>1, <2>2
<1>16. ASSUME NEW t \in Threads, EnterAwaiting(t) PROVE \E X : Shrinks(X)
    BY <1>0, <1>16, <1>a, <1>b DEF EnterAwaiting
<1>17. ASSUME NEW t \in Threads, SendKeyFrameRequest(t) PROVE \E X : Shrinks(X)
    BY <1>0, <1>17, <1>a, <1>b DEF SendKeyFrameRequest, Return
<1> QED BY <1>1, <1>2, <1>3, <1>4, <1>5, <1>6, <1>7, <1>8, <1>9, <1>10, <1>11, <1>12, <1>13,
           <1>14, <1>15, <1>16, <1>17 DEF Next, NetStep, ProcessStep, Rtcp

\* A thread takes a batch of entries that no thread is sending.
LEMMA BatchTaken ==
    ASSUME TypeOK, Batches, NEW t \in Threads, pc[t] \notin {"send", "sent"},
           NEW due \in SUBSET (nacks \ sending),
           sending' = sending \cup due, batch' = [batch EXCEPT ![t] = due],
           due # {} => pc'[t] = "send",
           \A u \in Threads : u # t => pc'[u] = pc[u],
           newest \in Nat, newest' \in Nat, newest <= newest', nacks \subseteq nacks',
           \A s \in nacks' \ nacks : newest < s /\ s <= newest'
    PROVE  Batches'
<1>0. /\ nacks \subseteq AllPackets /\ AllPackets \subseteq Nat
      /\ \A u \in Threads : batch[u] \subseteq Nat
    BY PacketNumbers DEF TypeOK
<1>1. /\ batch[t] = {} /\ batch'[t] = due
      /\ \A u \in Threads : u # t => batch'[u] = batch[u]
    BY DEF Batches, TypeOK
<1>2. \A s \in nacks' : s <= newest'
  <2> SUFFICES ASSUME NEW s \in nacks PROVE s <= newest'
      OBVIOUS
  <2>1. s <= newest /\ s \in Nat
      BY <1>0 DEF Batches
  <2> QED BY <2>1
<1>3. \A u \in Threads : pc'[u] \notin {"send", "sent"} => batch'[u] = {}
    BY <1>1 DEF Batches
<1>4. ASSUME NEW u \in Threads, NEW s \in batch'[u]
      PROVE  s <= newest' /\ (s \in nacks' => s \in sending')
  <2>1. CASE u = t
      BY <1>1, <1>2, <1>4, <2>1
  <2>2. CASE u # t
    <3>1. s \in batch[u] /\ s <= newest /\ (s \in nacks => s \in sending) /\ s \in Nat
        BY <1>0, <1>1, <1>4, <2>2 DEF Batches
    <3>2. s \in nacks' => s \in nacks
        BY <3>1
    <3> QED BY <3>1, <3>2
  <2> QED BY <2>1, <2>2
<1>5. ASSUME NEW u \in Threads, NEW v \in Threads, NEW s \in batch'[u] \cap batch'[v], s \in nacks'
      PROVE  u = v
  <2>1. ASSUME NEW w \in Threads, w # t, s \in batch'[w] PROVE s \notin due /\ s \in nacks
    <3>1. s \in batch[w] /\ s <= newest /\ (s \in nacks => s \in sending) /\ s \in Nat
        BY <1>0, <1>1, <2>1 DEF Batches
    <3>2. s \in nacks
        BY <1>5, <3>1
    <3> QED BY <3>1, <3>2
  <2>2. CASE u # t /\ v # t
      BY <1>1, <1>5, <2>1, <2>2 DEF Batches
  <2>3. CASE u = t /\ v # t
      BY <1>1, <1>5, <2>1, <2>3
  <2>4. CASE u # t /\ v = t
      BY <1>1, <1>5, <2>1, <2>4
  <2> QED BY <2>2, <2>3, <2>4
<1>6. \A s \in sending' : \E u \in Threads : s \in batch'[u]
  <2> SUFFICES ASSUME NEW s \in sending PROVE \E u \in Threads : s \in batch'[u]
      BY <1>1
  <2>1. PICK u \in Threads : s \in batch[u]
      BY DEF Batches
  <2>2. u # t
      BY <1>1, <2>1
  <2> QED BY <1>1, <2>1, <2>2
<1> QED BY <1>2, <1>3, <1>4, <1>5, <1>6 DEF Batches

LEMMA BatchesKept ==
    ASSUME TypeOK, InHand, Batches, Next
    PROVE  Batches'
<1>0. /\ newest \in Nat /\ newest' \in Nat /\ newest <= newest'
      /\ "net" \in Threads /\ "process" \in Threads
      /\ nacks \subseteq Nat /\ \A t \in Threads : batch[t] \subseteq Nat
      /\ sending \subseteq nacks
  <2>1. TypeOK'
      BY StepType
  <2>2. newest \in Nat /\ newest' \in Nat
      BY <2>1, PacketNumbers DEF TypeOK
  <2>3. newest <= newest'
      BY <2>2, NextIsThreads, NetFrame, OtherFrame
  <2> QED BY <2>2, <2>3, PacketNumbers DEF TypeOK, Threads
<1>1. ASSUME NEW X, Shrinks(X) PROVE Batches'
  <2>1. /\ nacks' = nacks \ X /\ sending' = sending \ X /\ batch' = batch
        /\ \A t \in Threads : pc[t] \in {"send", "sent"} => pc'[t] \in {"send", "sent"}
      BY <1>1 DEF Shrinks
  <2>2. ASSUME NEW s \in nacks' PROVE s <= newest'
    <3>1. s \in nacks /\ s \in Nat
        BY <1>0, <2>1, <2>2
    <3>2. s <= newest
        BY <3>1 DEF Batches
    <3> QED BY <1>0, <3>1, <3>2
  <2>3. \A t \in Threads : \A s \in batch'[t] : s <= newest' /\ (s \in nacks' => s \in sending')
      BY <1>0, <2>1 DEF Batches
  <2> QED BY <2>1, <2>2, <2>3 DEF Batches
<1>2. CASE InOrder
  <2>1. PICK due \in SUBSET (nacks \ sending) :
              /\ sending' = sending \cup due
              /\ batch' = [batch EXCEPT !["net"] = due]
              /\ IF due = {} THEN GoTo("net", "unpack") /\ UNCHANGED after
                             ELSE Send("net", "send", "unpack")
      BY <1>2 DEF InOrder
  <2>2. pc["net"] = "insert" /\ newest' = pkt /\ nacks' = nacks \cup Gap
      BY <1>2 DEF InOrder
  <2>3. \A s \in nacks' \ nacks : newest < s /\ s <= newest'
      BY <1>0, <2>2 DEF Gap
  <2>4. /\ due # {} => pc'["net"] = "send"
        /\ \A u \in Threads : u # "net" => pc'[u] = pc[u]
      BY <1>0, <2>1 DEF Send, GoTo, TypeOK
  <2> QED BY <1>0, <2>1, <2>2, <2>3, <2>4, BatchTaken
<1>3. CASE ProcessNacks
  <2>1. PICK due \in SUBSET (nacks \ sending) :
              /\ sending' = sending \cup due
              /\ batch' = [batch EXCEPT !["process"] = due]
              /\ IF due = {} THEN GoTo("process", "retry") /\ UNCHANGED after
                             ELSE Send("process", "send", "retry")
      BY <1>3 DEF ProcessNacks
  <2>2. pc["process"] = "nacks" /\ nacks' = nacks
      BY <1>3 DEF ProcessNacks
  <2>3. /\ due # {} => pc'["process"] = "send"
        /\ \A u \in Threads : u # "process" => pc'[u] = pc[u]
      BY <1>0, <2>1 DEF Send, GoTo, TypeOK
  <2> QED BY <1>0, <2>1, <2>2, <2>3, BatchTaken
<1>4. ASSUME NEW t \in Threads, OnNackBatchSent(t) PROVE Batches'
  <2>1. /\ sending' = sending \ batch[t] /\ nacks' = nacks
        /\ batch'[t] = {} /\ \A u \in Threads : u # t => batch'[u] = batch[u] /\ pc'[u] = pc[u]
      BY <1>4 DEF OnNackBatchSent, Return, GoTo, TypeOK
  <2>2. \A s \in nacks' : s <= newest'
      BY <1>0, <2>1 DEF Batches
  <2>3. \A u \in Threads : pc'[u] \notin {"send", "sent"} => batch'[u] = {}
      BY <2>1 DEF Batches
  <2>4. ASSUME NEW u \in Threads, NEW s \in batch'[u]
        PROVE  s <= newest' /\ (s \in nacks' => s \in sending')
    <3>1. u # t /\ s \in batch[u] /\ s \in Nat
        BY <1>0, <2>1, <2>4
    <3>2. s <= newest /\ (s \in nacks => s \in sending)
        BY <3>1 DEF Batches
    <3>3. s \in nacks => s \notin batch[t]
        BY <3>1 DEF Batches
    <3> QED BY <1>0, <2>1, <3>1, <3>2, <3>3
  <2>5. \A u, v \in Threads : \A s \in batch'[u] \cap batch'[v] : s \in nacks' => u = v
      BY <2>1 DEF Batches
  <2>6. \A s \in sending' : \E u \in Threads : s \in batch'[u]
      BY <2>1 DEF Batches
  <2> QED BY <2>2, <2>3, <2>4, <2>5, <2>6 DEF Batches
<1> QED BY <1>1, <1>2, <1>3, <1>4, BatchSteps

-----------------------------------------------------------------------------
(* The theorems                                                              *)

LEMMA StepInv == IInv /\ [Next]_vars => IInv'
<1> SUFFICES ASSUME IInv, [Next]_vars PROVE IInv'
    OBVIOUS
<1>1. CASE Next
    BY <1>1, StepType, InHandKept, EntriesKept, BatchesKept, NacksUsefulKept, FragmentsKept,
       LateEntriesKept, AbandonedKept, AccountedKept DEF IInv
<1>2. CASE UNCHANGED vars
  <2> USE <1>2 DEF IInv, vars, network, nackState, frameState, threadState, history
  <2>1. TypeOK'
      BY DEF TypeOK
  <2>2. InHand' /\ LateEntries' /\ AbandonedNeedsKey' /\ NacksAreUseful'
      BY DEF InHand, LateEntries, AbandonedNeedsKey, NacksAreUseful, Obsolete, Present
  <2>3. Entries' /\ Batches' /\ FragmentsAreReachable'
      BY DEF Entries, Batches, FragmentsAreReachable, Present, Complete
  <2>4. Accounted'
      BY DEF Accounted, Known, Obsolete, Present
  <2> QED BY <2>1, <2>2, <2>3, <2>4
<1> QED BY <1>1, <1>2

\* The packets, entries and batches stay accounted for, for every layout of
\* frames, limit of the NACK list and number of faults.
THEOREM Invariance == Spec => []IInv
BY InitInv, StepInv, PTL DEF Spec

\* A send_pending entry has exactly one owner.
LEMMA Owned == IInv => SendPendingIsOwned
<1> SUFFICES ASSUME IInv, NEW s \in sending
             PROVE  Cardinality({ t \in Threads : pc[t] \in {"send", "sent"} /\ s \in batch[t] }) = 1
    BY DEF SendPendingIsOwned
<1> DEFINE Owners == { t \in Threads : pc[t] \in {"send", "sent"} /\ s \in batch[t] }
<1>1. s \in nacks /\ Batches
    BY DEF IInv, TypeOK
<1>2. PICK t \in Threads : s \in batch[t]
    BY <1>1 DEF Batches
<1>3. pc[t] \in {"send", "sent"}
    BY <1>1, <1>2 DEF Batches
<1>4. \A u \in Owners : u = t
    BY <1>1, <1>2 DEF Batches
<1>5. Owners = {t}
    BY <1>2, <1>3, <1>4
<1> QED BY <1>5, FS_Singleton

\* The entries of nack_list_ that GetNackBatch passes over are being sent by
\* exactly one thread, and none is of a frame that was delivered.
THEOREM NackSoundness == Spec => []NackListIsSound
<1>1. IInv => NackListIsSound
    BY Owned DEF IInv, NackListIsSound
<1> QED BY <1>1, Invariance, PTL

\* Dropping frames in Process while InsertRtpPacket goes on leaves no orphaned
\* fragment, and no decoder without its key frame.
THEOREM AssemblySoundness == Spec => []AssemblyIsSound
<1>1. IInv => AssemblyIsSound
    BY DEF IInv, AssemblyIsSound
<1> QED BY <1>1, Invariance, PTL

\* Process hands frames to the decoder in order, and a delta frame over a gap
\* only if the code knows why the frames of the gap are missing.
THEOREM GapsAccounted == Spec => GapsAreAccountedFor
<1> DEFINE Gapless ==
        lastDone' # lastDone =>
         /\ lastDone' > lastDone
         /\ \/ lastDone' \in keys
            \/ \A f \in (lastDone + 1) .. (lastDone' - 1) : Excused(f)
<1>1. IInv /\ [Next]_vars => [Gapless]_vars
  <2> SUFFICES ASSUME IInv, Next, lastDone' # lastDone
               PROVE  /\ lastDone' > lastDone
                      /\ \/ lastDone' \in keys
                         \/ \A f \in (lastDone + 1) .. (lastDone' - 1) : Excused(f)
      OBVIOUS
  <2>0. /\ TypeOK /\ InHand /\ Entries /\ Batches /\ AbandonedNeedsKey /\ Accounted
        /\ lastDone \in Nat
      BY FrameNumbers DEF IInv, TypeOK
  <2>1. OtherActs /\ ~FramesKept
      BY <2>0, NextIsThreads, NetFrame DEF FramesKept
  <2>2. PICK g \in Frames : Erased(g)
      BY <2>0, <2>1, OtherActsFrames
  <2>3. /\ lastDone' = g /\ ~(g <= lastDone) /\ Complete(g) /\ g \in Nat
        /\ g \in keys \/ (~awaiting /\ UpTo(pending[g].last) = {})
        /\ g \in Present /\ \A h \in Present : g <= h
      BY <2>0, <2>2, ErasedPresent, FrameNumbers DEF Erased
  <2>4. ASSUME g \notin keys, NEW f \in (lastDone + 1) .. (g - 1) PROVE Excused(f)
    <3>1. f \in Frames /\ f \in Nat /\ f < g /\ f > lastDone /\ LastPacket[f] \in AllPackets
      <4>1. f \in Frames
          BY <2>0, <2>3, LayoutAssumption DEF Frames
      <4> QED BY <2>0, <2>3, <4>1, PacketNumbers
    <3>2. FrameOf(LastPacket[f]) = f /\ LastPacket[f] \in Packets(f)
        BY <3>1, FrameIsUnique, PacketNumbers
    <3>3. LastPacket[f] <= LastPacket[g] /\ LastPacket[g] = pending[g].last
          /\ LastPacket[f] <= newest
      <4>1. LastPacket[f] < LastPacket[g] /\ LastPacket[f] \in Nat /\ LastPacket[g] \in Nat
          BY <3>1, Increasing, FrameNumbers
      <4>2. LastPacket[g] = pending[g].last /\ LastPacket[g] <= newest /\ newest \in Nat
          BY <2>0, <2>3, PacketNumbers DEF Entries, TypeOK
      <4> QED BY <4>1, <4>2
    <3>4. LastPacket[f] \notin nacks
        BY <2>3, <2>4, <3>3 DEF UpTo
    <3>5. \/ LastPacket[f] \in writtenOff \/ (pc["net"] # "idle" /\ pkt = LastPacket[f])
          \/ Known(f)
        BY <2>0, <3>1, <3>2, <3>3, <3>4 DEF Accounted
    <3>6. f \notin Present
        BY <2>3, <3>1
    <3>7. ASSUME Obsolete(f) PROVE f <= lastDropped /\ lastDone \in revived
      <4>1. f <= lastDropped /\ lastDropped \in Nat
          BY <2>0, <3>1, <3>7, FrameNumbers DEF Obsolete, TypeOK
      <4>2. lastDropped > lastDone
          BY <2>0, <3>1, <4>1
      <4> QED BY <2>0, <2>3, <2>4, <4>1, <4>2 DEF AbandonedNeedsKey
    <3> QED BY <3>2, <3>5, <3>6, <3>7 DEF Known, Excused
  <2>5. lastDone' > lastDone
      BY <2>0, <2>3
  <2> QED BY <2>3, <2>4, <2>5
<1> QED BY <1>1, Invariance, PTL DEF Spec, GapsAreAccountedFor
=============================================================================
