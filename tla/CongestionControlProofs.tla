---------------------- MODULE CongestionControlProofs ----------------------
(* What the sender's congestion control is told, and what it asks for.       *)
(*                                                                           *)
(* TransportFeedback: the bytes in flight, the credited packets and the      *)
(* reported arrivals are right for every span of the sequence numbers, any   *)
(* number of streams, packets, failures and reports, and every length of the *)
(* history.  As long as fewer than half a span of packets is under way,      *)
(* unwrapping gives a packet its own transport number back although the      *)
(* pacer's priorities reorder the numbers, and no RTP number is used twice   *)
(* among the packets that left.  So the adapter's two maps stay inverse to   *)
(* each other, a number enters them once, and what it removes from the       *)
(* flight is what it had added.                                              *)
(*                                                                           *)
(* Probing: probes keep to the limits of network, path and estimate for      *)
(* every setting of rates and thresholds.  The controller has left its first *)
(* state only while it has a network, and on a relay its starting rate is    *)
(* the relay's, whatever the path was before; every probe is then measured   *)
(* by that rate or by the estimate it was asked for.                         *)
EXTENDS TransportFeedback, Probing, FiniteSetTheorems, TLAPS

Keys == Ssrcs \X (0 .. SeqSpan - 1)
Known(x, S) == x = <<>> \/ (x = <<x[1]>> /\ x[1] \in S)

\* Transport numbers are given from here on.
Base == transport_seq - queued

\* Packets that left, or are leaving.
Out == net \cup {[tsn |-> p.tsn, key |-> p.key] : p \in Range(sending)}

TypeOK ==
    /\ transport_seq \in Nat /\ queued \in 0 .. MaxPackets /\ Base \in Nat
    /\ queue \subseteq [tsn : Int, ssrc : Ssrcs] /\ IsFiniteSet(queue)
    /\ ssrc_seq \in [Ssrcs -> 0 .. SeqSpan - 1]
    /\ sends \in Nat
    /\ Known(sending, [tsn : Int, created : Int, key : Keys])
    /\ Known(unwrapper, Int)
    /\ DOMAIN history \subseteq Int /\ IsFiniteSet(DOMAIN history)
    /\ DOMAIN rtp_to_transport \subseteq Keys
    /\ in_flight \in Nat /\ last_ack \in Int
    /\ sent \subseteq Int /\ IsFiniteSet(sent)
    /\ credited \subseteq Int
    /\ net \subseteq [tsn : Int, key : Keys]
    /\ arrived \subseteq net
    /\ misrolled \in BOOLEAN

\* The number the adapter unwrapped last is less than half a span from those
\* that are still to be sent.
NumbersNear ==
    /\ unwrapper = <<>> => Base = 0
    /\ unwrapper # <<>> => unwrapper[1] \in Base - 1 .. transport_seq - 1
    /\ \A p \in queue : p.tsn \in Base .. transport_seq - 1

\* A queued number is new to the adapter, and to the other packets.
NumbersFresh ==
    /\ \A t \in DOMAIN history \cup sent \cup credited : t < transport_seq
    /\ \A p \in queue : p.tsn \notin DOMAIN history \cup sent \cup credited
    /\ \A p, q \in queue : p.tsn = q.tsn => p = q
    /\ sends + Cardinality(queue) = queued

\* rtp_to_transport is the inverse of the keys in the history.
MapsInverse ==
    \A k \in DOMAIN rtp_to_transport :
        /\ rtp_to_transport[k] \in DOMAIN history
        /\ history[rtp_to_transport[k]].key = k

\* An RTP number that left is some packets behind the next one, less than a span.
KeysBehind ==
    \A p \in Out : \E d \in 1 .. sends :
        p.key[2] + d \in {ssrc_seq[p.key[1]], ssrc_seq[p.key[1]] + SeqSpan}

\* A packet that left is known by its own number, or another keeps its key.
KeysOwned ==
    \A p \in Out : p.key \in DOMAIN rtp_to_transport =>
        rtp_to_transport[p.key] \in {p.tsn} \cup shadowed

Flight(S) == {t \in S : t > last_ack}

FlightInv ==
    ~misrolled => /\ Flight(sent) = Flight(DOMAIN history)
                  /\ in_flight = Cardinality(Flight(sent))

CreditInv ==
    /\ \A k \in DOMAIN rtp_to_transport : rtp_to_transport[k] \notin credited
    /\ CreditsAreTrue

Heard(s, u, A) == \E p \in A : p.key = <<s, u % SeqSpan>>

\* Tracker k of stream s remembers only packets of A, and what it has still to
\* report lies after its last report.
TrackerOK(k, s, A) ==
    /\ k = [unwrapper |-> k.unwrapper, last |-> k.last, history |-> k.history,
            packets |-> k.packets]
    /\ Known(k.unwrapper, Int) /\ Known(k.last, Int)
    /\ k.history \in Seq(Int) /\ k.packets \subseteq Int
    /\ k.packets # {} => \E lo, hi \in k.packets : \A u \in k.packets : lo <= u /\ u <= hi
    /\ k.last # <<>> => \A u \in k.packets : u > k.last[1]
    /\ \A u \in k.packets \cup Range(k.history) : Heard(s, u, A)

TrackerInv ==
    DOMAIN trackers = Ssrcs /\ \A s \in Ssrcs : TrackerOK(trackers[s], s, arrived)

\* The sender's part of the invariant, and all of it.
SenderInv ==
    /\ TypeOK
    /\ NumbersNear
    /\ NumbersFresh
    /\ MapsInverse
    /\ KeysBehind
    /\ KeysOwned
    /\ FlightInv
    /\ CreditInv

IInv == SenderInv /\ TrackerInv /\ ArrivalsAreReported
-----------------------------------------------------------------------------
(* Arithmetic modulo SeqSpan                                                 *)

LEMMA Span ==
    /\ SeqSpan \in Nat /\ SeqSpan >= 2 /\ MaxPackets \in Nat
    /\ SeqSpan \div 2 \in Nat /\ SeqSpan = 2 * (SeqSpan \div 2)
    /\ MaxPackets < SeqSpan \div 2
    /\ FirstSeq \in 0 .. SeqSpan - 1
BY SpanAssumption

\* Two multiples of the span that are less than a span apart are equal.
LEMMA Multiples ==
    ASSUME NEW M \in Nat, NEW q \in Int, NEW r \in Int,
           -M < q * M - r * M, q * M - r * M < M
    PROVE  q = r
<1>1. CASE q > r
  <2>1. (q - r) * M >= M
    <3> DEFINE x == q - r - 1
    <3>1. x \in Nat
        BY <1>1
    <3>2. x * M >= 0
        BY <3>1
    <3>3. (q - r) * M = x * M + M
        OBVIOUS
    <3> QED BY <3>2, <3>3
  <2>2. (q - r) * M = q * M - r * M
    OBVIOUS
  <2> QED BY <2>1, <2>2
<1>2. CASE q < r
  <2>1. (r - q) * M >= M
    <3> DEFINE x == r - q - 1
    <3>1. x \in Nat
        BY <1>2
    <3>2. x * M >= 0
        BY <3>1
    <3>3. (r - q) * M = x * M + M
        OBVIOUS
    <3> QED BY <3>2, <3>3
  <2>2. (r - q) * M = r * M - q * M
    OBVIOUS
  <2> QED BY <2>1, <2>2
<1> QED BY <1>1, <1>2

LEMMA ModSplit ==
    ASSUME NEW M \in Nat, M > 0, NEW a \in Int
    PROVE  /\ a \div M \in Int /\ a % M \in 0 .. M - 1
           /\ a = (a \div M) * M + (a % M)
OBVIOUS

LEMMA ModIs ==
    ASSUME NEW M \in Nat, M > 0, NEW a \in Int, NEW q \in Int, NEW v \in 0 .. M - 1,
           a = q * M + v
    PROVE  a % M = v
<1>1. /\ a \div M \in Int /\ a % M \in 0 .. M - 1
      /\ a = (a \div M) * M + (a % M)
    BY ModSplit
<1>2. q * M \in Int /\ (a \div M) * M \in Int
    BY <1>1
<1>3. q * M - (a \div M) * M = (a % M) - v
    BY <1>1, <1>2
<1>4. q = a \div M
  <2> DEFINE r == a \div M
             e == a % M
  <2>1. r \in Int /\ e \in 0 .. M - 1 /\ q * M - r * M = e - v
    BY <1>1, <1>3
  <2> HIDE DEF r, e
  <2>2. -M < q * M - r * M /\ q * M - r * M < M
    BY <2>1
  <2>3. q = r
    BY <2>1, <2>2, Multiples
  <2> QED BY <2>3 DEF r
<1> QED BY <1>1, <1>4

\* Residues of the numbers within a span of 0.
LEMMA ModNear ==
    ASSUME NEW M \in Nat, M > 0, NEW a \in Int, -M < a, a < 2 * M
    PROVE  a % M = IF a < 0 THEN a + M ELSE IF a < M THEN a ELSE a - M
<1>1. CASE a < 0
    BY <1>1, ModIs, a + M \in 0 .. M - 1, a = (-1) * M + (a + M)
<1>2. CASE 0 <= a /\ a < M
    BY <1>2, ModIs, a \in 0 .. M - 1, a = 0 * M + a
<1>3. CASE M <= a
    BY <1>3, ModIs, a - M \in 0 .. M - 1, a = 1 * M + (a - M)
<1> QED BY <1>1, <1>2, <1>3

LEMMA ModSmall ==
    ASSUME NEW v \in 0 .. SeqSpan - 1 PROVE v % SeqSpan = v
BY Span, ModNear

\* The step from one number to the next is at most half a span either way, and
\* leads to the residue that was asked for.
LEMMA DeltaIs ==
    ASSUME NEW a \in 0 .. SeqSpan - 1, NEW v \in 0 .. SeqSpan - 1
    PROVE  /\ Delta(a, v) \in Int
           /\ 2 * Delta(a, v) <= SeqSpan /\ -SeqSpan <= 2 * Delta(a, v)
           /\ a + Delta(a, v) \in {v - SeqSpan, v, v + SeqSpan}
<1> DEFINE m == (v - a) % SeqSpan
           h == SeqSpan \div 2
<1>1. m = IF v < a THEN v - a + SeqSpan ELSE v - a
    BY Span, ModNear
<1>2. h \in Nat /\ SeqSpan = 2 * h
    BY Span
<1>3. Delta(a, v) = IF AheadOrAt(v, a) THEN m ELSE m - SeqSpan
    BY DEF Delta
<1>4. /\ AheadOrAt(v, a) => m <= h
      /\ ~AheadOrAt(v, a) => m >= h
    <2>1. m \in Nat
        BY <1>1, Span
    <2> HIDE DEF m, h
    <2>2. /\ AheadOrAt(v, a) => m = h \/ m < h
          /\ ~AheadOrAt(v, a) => m = h \/ ~(m < h)
        BY Zenon DEF AheadOrAt, m, h
    <2> QED BY <2>1, <2>2, <1>2
<1> HIDE DEF m, h
<1> QED BY <1>1, <1>2, <1>3, <1>4, Span

\* Unwrapping a number keeps its residue.
LEMMA UnwrapKeeps ==
    ASSUME NEW l, Known(l, Int), NEW v \in 0 .. SeqSpan - 1
    PROVE  Unwrap(l, v) \in Int /\ Unwrap(l, v) % SeqSpan = v
<1>1. CASE l = <<>>
    BY <1>1, Span, ModNear DEF Unwrap
<1>2. CASE l # <<>>
  <2> DEFINE n == l[1]
             q == n \div SeqSpan
             r == n % SeqSpan
             d == Delta(r, v)
  <2>1. n \in Int /\ Unwrap(l, v) = n + d
    BY <1>2 DEF Known, Unwrap
  <2>2. q \in Int /\ r \in 0 .. SeqSpan - 1 /\ n = q * SeqSpan + r
    BY <2>1, ModSplit, Span
  <2>3. d \in Int /\ r + d \in {v - SeqSpan, v, v + SeqSpan}
    BY <2>2, DeltaIs
  <2> HIDE DEF n, q, r, d
  <2>4. n + d \in {(q - 1) * SeqSpan + v, q * SeqSpan + v, (q + 1) * SeqSpan + v}
    <3>1. /\ q * SeqSpan \in Int
          /\ (q - 1) * SeqSpan = q * SeqSpan - SeqSpan
          /\ (q + 1) * SeqSpan = q * SeqSpan + SeqSpan
      BY <2>2, Span
    <3> QED BY <2>1, <2>2, <2>3, <3>1, Span
  <2>5. q - 1 \in Int /\ q + 1 \in Int /\ n + d \in Int
    BY <2>1, <2>2, <2>3
  <2>6. \A x, e \in Int : e = x * SeqSpan + v => e % SeqSpan = v
    BY ModIs, Span
  <2>7. (n + d) % SeqSpan = v
    BY <2>2, <2>4, <2>5, <2>6, Zenon
  <2> QED BY <2>1, <2>5, <2>7
<1> QED BY <1>1, <1>2

\* A number less than half a span from the last one is found again.
LEMMA UnwrapFinds ==
    ASSUME NEW n \in Int, NEW t \in Int, 2 * (t - n) < SeqSpan, 2 * (n - t) < SeqSpan
    PROVE  Unwrap(<<n>>, t % SeqSpan) = t
<1> DEFINE r == n % SeqSpan
           v == t % SeqSpan
           d == Delta(r, v)
           q == t \div SeqSpan
           p == (n + d) \div SeqSpan
<1>1. /\ q \in Int /\ v \in 0 .. SeqSpan - 1 /\ t = q * SeqSpan + v
      /\ r \in 0 .. SeqSpan - 1
    BY ModSplit, Span
<1>2. /\ d \in Int /\ 2 * d <= SeqSpan /\ -SeqSpan <= 2 * d
    BY <1>1, DeltaIs
<1>3. Unwrap(<<n>>, v) = n + d
    BY DEF Unwrap
<1>4. (n + d) % SeqSpan = v
  <2>1. Known(<<n>>, Int)
    BY DEF Known
  <2> QED BY <1>1, <1>3, <2>1, UnwrapKeeps
<1>5. p \in Int /\ n + d = p * SeqSpan + v
  <2>1. n + d \in Int
    BY <1>2
  <2>2. \A e \in Int : /\ e \div SeqSpan \in Int
                       /\ e = (e \div SeqSpan) * SeqSpan + (e % SeqSpan)
    BY ModSplit, Span
  <2> QED BY <2>1, <2>2, <1>4
<1> HIDE DEF r, v, d, q, p
<1>6. -SeqSpan < (n + d) - t /\ (n + d) - t < SeqSpan
    BY <1>2, Span
<1>7. p = q
  <2>1. p * SeqSpan \in Int /\ q * SeqSpan \in Int
    BY <1>1, <1>5, Span
  <2>2. p * SeqSpan - q * SeqSpan = (n + d) - t
    BY <1>1, <1>5, <2>1
  <2>3. -SeqSpan < p * SeqSpan - q * SeqSpan /\ p * SeqSpan - q * SeqSpan < SeqSpan
    BY <1>6, <2>2
  <2> QED BY <1>1, <1>5, <2>3, Multiples, Span
<1>8. n + d = t
    BY <1>1, <1>5, <1>7
<1> QED BY <1>3, <1>8 DEF v

\* The next RTP number, without the modulus.
LEMMA NextNumber ==
    ASSUME NEW n \in 0 .. SeqSpan - 1
    PROVE  (n + 1) % SeqSpan = IF n + 1 = SeqSpan THEN 0 ELSE n + 1
<1>1. n + 1 \in Int /\ -SeqSpan < n + 1 /\ n + 1 < 2 * SeqSpan
    BY Span
<1> QED BY <1>1, ModNear, Span
-----------------------------------------------------------------------------
(* Functions and extrema                                                     *)

LEMMA WithoutIs ==
    ASSUME NEW f, NEW S
    PROVE  /\ DOMAIN Without(f, S) = DOMAIN f \ S
           /\ \A x \in DOMAIN f \ S : Without(f, S)[x] = f[x]
BY DEF Without

LEMMA EmplacedIs ==
    ASSUME NEW f, NEW a, NEW b
    PROVE  /\ DOMAIN Emplaced(f, a, b) = DOMAIN f \cup {a}
           /\ \A x \in DOMAIN f : Emplaced(f, a, b)[x] = f[x]
           /\ a \notin DOMAIN f => Emplaced(f, a, b)[a] = b
BY DEF Emplaced

LEMMA RangeIs ==
    ASSUME NEW x
    PROVE  Range(<<>>) = {} /\ Range(<<x>>) = {x}
BY DEF Range

LEMMA Extrema ==
    ASSUME NEW S \in SUBSET Int, NEW lo \in S, NEW hi \in S,
           \A u \in S : lo <= u /\ u <= hi
    PROVE  Min(S) = lo /\ Max(S) = hi
<1>1. ASSUME NEW x \in S, \A y \in S : x <= y PROVE x = lo
    BY <1>1
<1>2. ASSUME NEW x \in S, \A y \in S : x >= y PROVE x = hi
    BY <1>2
<1> QED BY <1>1, <1>2 DEF Min, Max

\* A nonempty set of naturals has a least element.
LEMMA LeastOfNumbers ==
    ASSUME NEW T \in SUBSET Nat, T # {}
    PROVE  \E x \in T : \A y \in T : x <= y
<1> DEFINE R == OpToRel(<, Nat)
<1>1. IsWellFoundedOn(R, Nat)
    BY NatLessThanWellFounded
<1>2. \A x, y \in Nat : x < y => <<x, y>> \in R
    BY DEF OpToRel
<1> HIDE DEF R
<1>3. PICK x \in T : \A y \in T : ~(<<y, x>> \in R)
    BY <1>1, WFMin
<1>4. \A y \in T : ~(y < x)
    BY <1>2, <1>3, Zenon
<1> QED BY <1>4

\* A nonempty set of integers with an upper bound has a greatest element.
LEMMA Greatest ==
    ASSUME NEW S \in SUBSET Int, S # {}, NEW b \in Int, \A u \in S : u <= b
    PROVE  Max(S) \in S /\ \A u \in S : u <= Max(S)
<1> DEFINE T == {b - u : u \in S}
<1>0. \A u \in S : b - u \in Nat
    OBVIOUS
<1>1. T \in SUBSET Nat /\ T # {}
    BY <1>0
<1>2. PICK x \in T : \A y \in T : x <= y
    BY <1>1, LeastOfNumbers
<1>3. PICK m \in S : x = b - m
    OBVIOUS
<1>4. \A u \in S : b - m <= b - u
    BY <1>2, <1>3
<1>5. \A u \in S : u <= m
    BY <1>4
<1>6. \E x1 \in S : \A y \in S : x1 >= y
    BY <1>5
<1> QED BY <1>6 DEF Max
-----------------------------------------------------------------------------
(* The sender: what each operation of the adapter does to the two maps       *)

\* Number n is registered under a key, and the numbers old are forgotten.
Registered(n, key, old) ==
    LET kept == DOMAIN rtp_to_transport \ {history[t].key : t \in old} IN
    /\ unwrapper' = <<n>>
    /\ DOMAIN history' = (DOMAIN history \ old) \cup {n}
    /\ \A t \in DOMAIN history \ old : history'[t] = history[t]
    /\ n \notin DOMAIN history \ old => history'[n].key = key
    /\ DOMAIN rtp_to_transport' = kept \cup {key}
    /\ \A k \in kept : rtp_to_transport'[k] = rtp_to_transport[k]
    /\ key \notin kept => rtp_to_transport'[key] = n /\ shadowed' = shadowed
    /\ key \in kept => shadowed' = shadowed \cup {rtp_to_transport[key]}
    /\ in_flight' = Removed(in_flight, Cardinality(Flight(old)))
                      + IF n > last_ack THEN 1 ELSE 0
    /\ sent' = (sent \ old) \cup {n}
    /\ UNCHANGED <<last_ack, credited, twice, misrolled>>

LEMMA RemovedIs ==
    ASSUME NEW a \in Nat, NEW b \in Nat
    PROVE  Removed(a, b) \in Nat /\ (b <= a => Removed(a, b) = a - b)
BY DEF Removed

\* However the pacer reordered it, a packet is registered under its own number.
LEMMA RegisterIs ==
    ASSUME TypeOK, NumbersNear, NEW p \in queue, NEW c, NEW pkt,
           pkt.tsn = p.tsn, RegisterPacketForFeedback(pkt, c)
    PROVE  \E old \in SUBSET DOMAIN history : Registered(p.tsn, pkt.key, old)
<1> DEFINE t == Unwrap(unwrapper, pkt.tsn % SeqSpan)
           old == {x \in DOMAIN history :
                     \A u \in DOMAIN history : u <= x => history[u].created <= c}
           gone == {history[x].key : x \in old}
           rec == [key |-> pkt.key, created |-> pkt.created]
<1>1. /\ p.tsn \in Int /\ p.tsn \in Base .. transport_seq - 1
      /\ Base \in Nat /\ transport_seq \in Nat /\ queued \in 0 .. MaxPackets
      /\ Base = transport_seq - queued
    BY DEF TypeOK, NumbersNear, Base
<1>2. t = p.tsn
  <2>1. CASE unwrapper = <<>>
    <3>1. Base = 0
        BY <2>1 DEF NumbersNear
    <3>2. p.tsn \in 0 .. SeqSpan - 1
        BY <1>1, <3>1, Span
    <3>3. p.tsn % SeqSpan = p.tsn
        BY <3>2, ModSmall
    <3> QED BY <2>1, <3>3 DEF Unwrap
  <2>2. CASE unwrapper # <<>>
    <3>0. unwrapper = <<unwrapper[1]>> /\ unwrapper[1] \in Int
        BY <2>2, Zenon DEF TypeOK, Known
    <3>1. PICK n \in Int : unwrapper = <<n>> /\ n \in Base - 1 .. transport_seq - 1
        BY <2>2, <3>0, Zenon DEF NumbersNear
    <3>2. 2 * (p.tsn - n) < SeqSpan /\ 2 * (n - p.tsn) < SeqSpan
        BY <1>1, <3>1, Span
    <3> QED BY <1>1, <3>1, <3>2, UnwrapFinds
  <2> QED BY <2>1, <2>2
<1>3. /\ unwrapper' = <<t>>
      /\ history' = Emplaced(Without(history, old), t, rec)
      /\ rtp_to_transport' = Emplaced(Without(rtp_to_transport, gone), pkt.key, t)
      /\ in_flight' = IF t > last_ack THEN Removed(in_flight, Cardinality(Flight(old))) + 1
                      ELSE Removed(in_flight, Cardinality(Flight(old)))
      /\ sent' = (sent \ old) \cup {p.tsn}
      /\ shadowed' = IF pkt.key \in DOMAIN Without(rtp_to_transport, gone)
                     THEN shadowed \cup {Without(rtp_to_transport, gone)[pkt.key]}
                     ELSE shadowed
      /\ UNCHANGED <<last_ack, credited, twice, misrolled>>
    BY Zenon DEF RegisterPacketForFeedback, Expire, Flight
<1> DEFINE h == Without(history, old)
           m == Without(rtp_to_transport, gone)
<1> HIDE DEF t, old, gone, rec
<1>4. /\ DOMAIN h = DOMAIN history \ old
      /\ DOMAIN m = DOMAIN rtp_to_transport \ gone
      /\ \A x \in DOMAIN history \ old : h[x] = history[x]
      /\ \A x \in DOMAIN rtp_to_transport \ gone : m[x] = rtp_to_transport[x]
    BY WithoutIs, Zenon
<1>a. /\ history' = Emplaced(h, t, rec) /\ rtp_to_transport' = Emplaced(m, pkt.key, t)
      /\ shadowed' = IF pkt.key \in DOMAIN m THEN shadowed \cup {m[pkt.key]} ELSE shadowed
    BY <1>3
<1>b. /\ DOMAIN Emplaced(h, t, rec) = DOMAIN h \cup {t}
      /\ \A x \in DOMAIN h : Emplaced(h, t, rec)[x] = h[x]
      /\ t \notin DOMAIN h => Emplaced(h, t, rec)[t] = rec
    BY EmplacedIs, Zenon
<1>c. /\ DOMAIN Emplaced(m, pkt.key, t) = DOMAIN m \cup {pkt.key}
      /\ \A x \in DOMAIN m : Emplaced(m, pkt.key, t)[x] = m[x]
      /\ pkt.key \notin DOMAIN m => Emplaced(m, pkt.key, t)[pkt.key] = t
    BY EmplacedIs, Zenon
<1> HIDE DEF h, m
<1>5. /\ DOMAIN history' = (DOMAIN history \ old) \cup {t}
      /\ \A x \in DOMAIN history \ old : history'[x] = history[x]
      /\ t \notin DOMAIN history \ old => history'[t] = rec
    BY <1>a, <1>b, <1>c, <1>4
<1>6. /\ DOMAIN rtp_to_transport' = (DOMAIN rtp_to_transport \ gone) \cup {pkt.key}
      /\ \A k \in DOMAIN rtp_to_transport \ gone : rtp_to_transport'[k] = rtp_to_transport[k]
      /\ pkt.key \notin DOMAIN rtp_to_transport \ gone => rtp_to_transport'[pkt.key] = t
    BY <1>a, <1>b, <1>c, <1>4
<1>7. /\ pkt.key \notin DOMAIN rtp_to_transport \ gone => shadowed' = shadowed
      /\ pkt.key \in DOMAIN rtp_to_transport \ gone =>
            shadowed' = shadowed \cup {rtp_to_transport[pkt.key]}
    BY <1>a, <1>4
<1>8. in_flight' = Removed(in_flight, Cardinality(Flight(old))) + IF t > last_ack THEN 1 ELSE 0
  <2>1. /\ old \in SUBSET DOMAIN history
        /\ Cardinality(Flight(old)) \in Nat
    <3>1. old \subseteq DOMAIN history /\ Flight(old) \subseteq DOMAIN history
        BY DEF old, Flight
    <3> QED BY <3>1, FS_Subset, FS_CardinalityType DEF TypeOK
  <2>2. Removed(in_flight, Cardinality(Flight(old))) \in Nat
    BY <2>1, RemovedIs DEF TypeOK
  <2> QED BY <1>3, <2>2
<1>9. rec.key = pkt.key
    BY DEF rec
<1>10. old \in SUBSET DOMAIN history
    BY DEF old
<1>11. Registered(t, pkt.key, old)
  <2>1. gone = {history[x].key : x \in old}
    BY DEF gone
  <2>2. t \notin DOMAIN history \ old => history'[t].key = pkt.key
    BY <1>5, <1>9
  <2>3. sent' = (sent \ old) \cup {t}
    BY <1>2, <1>3
  <2> QED BY <1>3, <1>5, <1>6, <1>7, <1>8, <2>1, <2>2, <2>3, Zenon DEF Registered
<1> QED BY <1>2, <1>10, <1>11

NextKey(p) == <<p.ssrc, ssrc_seq[p.ssrc]>>

\* SendPacket takes p out of the queue and forgets the numbers old.
Leaves(p, old) ==
    /\ sending = <<>>
    /\ queue' = queue \ {p}
    /\ ssrc_seq' = [ssrc_seq EXCEPT ![p.ssrc] = (@ + 1) % SeqSpan]
    /\ sending' = <<[tsn |-> p.tsn, created |-> sends + 1, key |-> NextKey(p)]>>
    /\ sends' = sends + 1
    /\ Registered(p.tsn, NextKey(p), old)
    /\ UNCHANGED <<transport_seq, queued, net, receiver_vars>>

LEMMA SendIs ==
    ASSUME TypeOK, NumbersNear, SendPacket
    PROVE  \E p \in queue, old \in SUBSET DOMAIN history : Leaves(p, old)
<1> DEFINE Pkt(p) == [tsn |-> p.tsn, created |-> sends + 1, key |-> NextKey(p)]
<1>1. PICK p \in queue, c \in -1 .. sends :
         /\ queue' = queue \ {p}
         /\ ssrc_seq' = [ssrc_seq EXCEPT ![p.ssrc] = (@ + 1) % SeqSpan]
         /\ sending' = <<Pkt(p)>>
         /\ RegisterPacketForFeedback(Pkt(p), c)
    BY Zenon DEF SendPacket, NextKey
<1>2. Pkt(p).tsn = p.tsn /\ Pkt(p).key = NextKey(p)
    OBVIOUS
<1> HIDE DEF Pkt
<1>3. PICK old \in SUBSET DOMAIN history : Registered(p.tsn, Pkt(p).key, old)
    BY <1>1, <1>2, RegisterIs
<1>4. Leaves(p, old)
    BY <1>1, <1>2, <1>3 DEF Leaves, SendPacket, Pkt
<1> QED BY <1>4

LEMMA SendTypes ==
    ASSUME SenderInv, NEW p \in queue, NEW old \in SUBSET DOMAIN history, Leaves(p, old)
    PROVE  /\ TypeOK'
           /\ Base' = Base
           /\ NextKey(p) \in Keys
           /\ Out' = net \cup {[tsn |-> p.tsn, key |-> NextKey(p)]}
           /\ Out = net
<1> DEFINE s == p.ssrc
           k == NextKey(p)
           pkt == [tsn |-> p.tsn, created |-> sends + 1, key |-> k]
<1>t. TypeOK
    BY DEF SenderInv
<1>1. p.tsn \in Int /\ s \in Ssrcs /\ ssrc_seq[s] \in 0 .. SeqSpan - 1 /\ sends + 1 \in Nat
    BY <1>t DEF TypeOK
<1>2. k \in Keys
    BY <1>1 DEF NextKey, Keys
<1>3. Base' = Base
    BY DEF Leaves, Base
<1>4. /\ transport_seq' \in Nat /\ queued' \in 0 .. MaxPackets /\ Base' \in Nat
      /\ sends' \in Nat /\ net' \subseteq [tsn : Int, key : Keys] /\ arrived' \subseteq net'
    BY <1>1, <1>3, <1>t DEF Leaves, TypeOK, receiver_vars
<1>5. queue' \subseteq [tsn : Int, ssrc : Ssrcs] /\ IsFiniteSet(queue')
    BY <1>t, FS_Subset DEF Leaves, TypeOK
<1>6. ssrc_seq' \in [Ssrcs -> 0 .. SeqSpan - 1]
  <2>1. (ssrc_seq[s] + 1) % SeqSpan \in 0 .. SeqSpan - 1
    <3>1. PICK n \in 0 .. SeqSpan - 1 : n = ssrc_seq[s]
      BY <1>1
    <3>2. (n + 1) % SeqSpan \in 0 .. SeqSpan - 1
      BY NextNumber, Span
    <3> QED BY <3>1, <3>2
  <2> HIDE DEF s
  <2>2. ssrc_seq' = [ssrc_seq EXCEPT ![s] = (ssrc_seq[s] + 1) % SeqSpan]
    BY DEF Leaves, s
  <2> QED BY <2>1, <2>2, <1>t DEF TypeOK
<1>7. pkt \in [tsn : Int, created : Int, key : Keys]
    BY <1>1, <1>2
<1>8. sending' = <<pkt>>
    BY DEF Leaves
<1>9. Known(sending', [tsn : Int, created : Int, key : Keys])
  <2> HIDE DEF pkt
  <2>1. <<pkt>>[1] = pkt
    OBVIOUS
  <2> QED BY <1>7, <1>8, <2>1, Zenon DEF Known
<1>r. Registered(p.tsn, k, old)
    BY DEF Leaves
<1> HIDE DEF pkt, k, s
<1>10. Known(unwrapper', Int)
  <2>1. unwrapper' = <<p.tsn>> /\ <<p.tsn>>[1] = p.tsn
    BY <1>r DEF Registered
  <2> QED BY <1>1, <2>1, Zenon DEF Known
<1>11. DOMAIN history' \subseteq Int /\ IsFiniteSet(DOMAIN history')
  <2>1. DOMAIN history' = (DOMAIN history \ old) \cup {p.tsn}
    BY <1>r DEF Registered
  <2>2. IsFiniteSet(DOMAIN history \ old)
    BY <1>t, FS_Subset DEF TypeOK
  <2>3. IsFiniteSet((DOMAIN history \ old) \cup {p.tsn})
    BY <2>2, FS_AddElement
  <2>4. DOMAIN history \subseteq Int
    BY <1>t DEF TypeOK
  <2> QED BY <1>1, <2>1, <2>3, <2>4
<1>12. DOMAIN rtp_to_transport' \subseteq Keys
    BY <1>r, <1>2, <1>t DEF Registered, TypeOK
<1>13. sent' \subseteq Int /\ IsFiniteSet(sent')
  <2>1. sent' = (sent \ old) \cup {p.tsn}
    BY <1>r DEF Registered
  <2>2. IsFiniteSet(sent \ old)
    BY <1>t, FS_Subset DEF TypeOK
  <2> QED BY <1>1, <1>t, <2>1, <2>2, FS_AddElement DEF TypeOK
<1>14. in_flight' \in Nat
  <2>1. Flight(old) \subseteq DOMAIN history
    BY DEF Flight
  <2>2. Cardinality(Flight(old)) \in Nat
    BY <1>t, <2>1, FS_Subset, FS_CardinalityType DEF TypeOK
  <2>3. Removed(in_flight, Cardinality(Flight(old))) \in Nat
    BY <1>t, <2>2, RemovedIs DEF TypeOK
  <2> QED BY <1>r, <2>3 DEF Registered
<1>15. last_ack' \in Int /\ credited' \subseteq Int /\ misrolled' \in BOOLEAN
    BY <1>r, <1>t, Zenon DEF Registered, TypeOK
<1>16. TypeOK'
    BY <1>4, <1>5, <1>6, <1>9, <1>10, <1>11, <1>12, <1>13, <1>14, <1>15 DEF TypeOK
<1>17. Out' = net \cup {[tsn |-> p.tsn, key |-> k]}
  <2>1. Range(sending') = {pkt} /\ net' = net
    BY <1>8, RangeIs, Zenon DEF Leaves
  <2>2. pkt.tsn = p.tsn /\ pkt.key = k
    BY DEF pkt
  <2> QED BY <2>1, <2>2 DEF Out
<1>18. Out = net
  <2>1. Range(sending) = {}
    BY RangeIs, Zenon DEF Leaves
  <2> QED BY <2>1 DEF Out
<1> QED BY <1>2, <1>3, <1>16, <1>17, <1>18 DEF k

LEMMA SendNumbers ==
    ASSUME SenderInv, NEW p \in queue, NEW old \in SUBSET DOMAIN history, Leaves(p, old)
    PROVE  NumbersNear' /\ NumbersFresh' /\ sends < MaxPackets
<1>1. TypeOK /\ NumbersNear /\ NumbersFresh
    BY DEF SenderInv
<1>2. /\ Base' = Base /\ transport_seq' = transport_seq /\ queued' = queued
      /\ queue' = queue \ {p} /\ credited' = credited /\ unwrapper' = <<p.tsn>>
      /\ DOMAIN history' = (DOMAIN history \ old) \cup {p.tsn}
      /\ sent' = (sent \ old) \cup {p.tsn} /\ sends' = sends + 1
    BY SendTypes DEF Leaves, Registered
<1>3. /\ p.tsn \in Int /\ p.tsn \in Base .. transport_seq - 1
      /\ p.tsn < transport_seq
    BY <1>1 DEF TypeOK, NumbersNear
<1>4. NumbersNear'
  <2>1. unwrapper' # <<>> /\ unwrapper'[1] = p.tsn
    BY <1>2
  <2>2. p.tsn \in Base - 1 .. transport_seq - 1
    BY <1>1, <1>3 DEF TypeOK
  <2>3. \A q \in queue \ {p} : q.tsn \in Base .. transport_seq - 1
    BY <1>1 DEF NumbersNear
  <2> QED BY <1>2, <2>1, <2>2, <2>3 DEF NumbersNear
<1>5. Cardinality(queue \ {p}) = Cardinality(queue) - 1 /\ Cardinality(queue) \in Nat
      /\ Cardinality(queue \ {p}) \in Nat
    BY <1>1, FS_RemoveElement, FS_CardinalityType DEF TypeOK
<1>6. sends + 1 + Cardinality(queue \ {p}) = queued /\ sends < MaxPackets
    BY <1>1, <1>5, Span DEF TypeOK, NumbersFresh
<1>7. \A t \in DOMAIN history' \cup sent' \cup credited' : t < transport_seq
    BY <1>1, <1>2, <1>3 DEF NumbersFresh
<1>8. ASSUME NEW q \in queue \ {p}
      PROVE  q.tsn \notin DOMAIN history' \cup sent' \cup credited'
    BY <1>1, <1>2, <1>8 DEF NumbersFresh
<1>9. \A q, r \in queue \ {p} : q.tsn = r.tsn => q = r
    BY <1>1 DEF NumbersFresh
<1> QED BY <1>2, <1>4, <1>6, <1>7, <1>8, <1>9 DEF NumbersFresh

LEMMA SendMaps ==
    ASSUME SenderInv, NEW p \in queue, NEW old \in SUBSET DOMAIN history, Leaves(p, old)
    PROVE  /\ MapsInverse'
           /\ \A k \in DOMAIN rtp_to_transport' :
                \/ k \in DOMAIN rtp_to_transport /\ rtp_to_transport'[k] = rtp_to_transport[k]
                     /\ (k = NextKey(p) => rtp_to_transport[k] \in shadowed')
                \/ k = NextKey(p) /\ rtp_to_transport'[k] = p.tsn
           /\ shadowed \subseteq shadowed'
<1> DEFINE key == NextKey(p)
           kept == DOMAIN rtp_to_transport \ {history[t].key : t \in old}
<1>1. MapsInverse /\ p.tsn \notin DOMAIN history
    BY DEF SenderInv, NumbersFresh
<1>2. /\ DOMAIN history' = (DOMAIN history \ old) \cup {p.tsn}
      /\ \A t \in DOMAIN history \ old : history'[t] = history[t]
      /\ history'[p.tsn].key = key
      /\ DOMAIN rtp_to_transport' = kept \cup {key}
      /\ \A k \in kept : rtp_to_transport'[k] = rtp_to_transport[k]
      /\ key \notin kept => rtp_to_transport'[key] = p.tsn /\ shadowed' = shadowed
      /\ key \in kept => shadowed' = shadowed \cup {rtp_to_transport[key]}
    BY <1>1, Zenon DEF Leaves, Registered
<1>3. ASSUME NEW k \in kept
      PROVE  rtp_to_transport[k] \in DOMAIN history \ old /\ history[rtp_to_transport[k]].key = k
    BY <1>1 DEF MapsInverse
<1> HIDE DEF key, kept
<1>4. ASSUME NEW k \in DOMAIN rtp_to_transport'
      PROVE  rtp_to_transport'[k] \in DOMAIN history' /\ history'[rtp_to_transport'[k]].key = k
  <2>1. CASE k \in kept
    BY <1>2, <1>3, <2>1
  <2>2. CASE k \notin kept
    BY <1>2, <2>2
  <2> QED BY <2>1, <2>2
<1>5. ASSUME NEW k \in DOMAIN rtp_to_transport'
      PROVE  \/ k \in DOMAIN rtp_to_transport /\ rtp_to_transport'[k] = rtp_to_transport[k]
                  /\ (k = key => rtp_to_transport[k] \in shadowed')
             \/ k = key /\ rtp_to_transport'[k] = p.tsn
  <2>1. CASE k \in kept
    <3>1. k \in DOMAIN rtp_to_transport
      BY <2>1 DEF kept
    <3> QED BY <1>2, <2>1, <3>1
  <2>2. CASE k \notin kept
    BY <1>2, <2>2
  <2> QED BY <2>1, <2>2
<1>6. shadowed \subseteq shadowed'
    BY <1>2
<1> QED BY <1>4, <1>5, <1>6, Zenon DEF MapsInverse, key

\* No RTP number comes back while its packet is out.
LEMMA SendKeys ==
    ASSUME SenderInv, NEW p \in queue, NEW old \in SUBSET DOMAIN history, Leaves(p, old)
    PROVE  KeysBehind' /\ KeysOwned'
<1> DEFINE s == p.ssrc
           n == ssrc_seq[s]
           new == [tsn |-> p.tsn, key |-> NextKey(p)]
<1>1. /\ TypeOK /\ KeysBehind /\ KeysOwned
      /\ Out' = net \cup {new} /\ Out = net
      /\ NextKey(p) \in Keys
    BY SendTypes DEF SenderInv
<1>2. /\ s \in Ssrcs /\ n \in 0 .. SeqSpan - 1 /\ sends \in Nat /\ sends < MaxPackets
      /\ sends' = sends + 1
    BY <1>1, SendNumbers DEF TypeOK, Leaves
<1>3. /\ NextKey(p)[1] = s /\ NextKey(p)[2] = n
      /\ new.key = NextKey(p) /\ new.tsn = p.tsn
    BY DEF NextKey
<1>4. /\ ssrc_seq'[s] = IF n + 1 = SeqSpan THEN 0 ELSE n + 1
      /\ \A r \in Ssrcs : r # s => ssrc_seq'[r] = ssrc_seq[r]
  <2>1. ssrc_seq' = [ssrc_seq EXCEPT ![s] = (ssrc_seq[s] + 1) % SeqSpan]
    BY DEF Leaves
  <2> QED BY <1>1, <1>2, <2>1, NextNumber DEF TypeOK
<1> HIDE DEF s, n, new
<1>5. ASSUME NEW q \in net
      PROVE  /\ \E d \in 1 .. sends + 1 :
                   q.key[2] + d \in {ssrc_seq'[q.key[1]], ssrc_seq'[q.key[1]] + SeqSpan}
             /\ q.key # NextKey(p)
  <2>1. q.key[1] \in Ssrcs /\ q.key[2] \in 0 .. SeqSpan - 1
    BY <1>1 DEF TypeOK, Keys
  <2>2. PICK d \in 1 .. sends :
            q.key[2] + d \in {ssrc_seq[q.key[1]], ssrc_seq[q.key[1]] + SeqSpan}
    BY <1>1 DEF KeysBehind
  <2>3. CASE q.key[1] # s
    BY <1>2, <1>3, <1>4, <2>1, <2>2, <2>3
  <2>4. CASE q.key[1] = s
    <3>1. q.key[2] + d \in {n, n + SeqSpan}
      BY <2>2, <2>4 DEF n
    <3>2. q.key[2] # n
      BY <1>2, <2>1, <3>1, Span
    <3>3. /\ d + 1 \in 1 .. sends + 1 /\ d \in 1 .. sends + 1
          /\ q.key[2] + (d + 1) \in {ssrc_seq'[s], ssrc_seq'[s] + SeqSpan}
      BY <1>2, <1>4, <2>1, <3>1, Span
    <3> QED BY <1>3, <2>4, <3>2, <3>3
  <2> QED BY <2>3, <2>4
<1>6. KeysBehind'
  <2>1. \E d \in 1 .. sends + 1 :
           new.key[2] + d \in {ssrc_seq'[new.key[1]], ssrc_seq'[new.key[1]] + SeqSpan}
    <3>1. 1 \in 1 .. sends + 1 /\ n + 1 \in {ssrc_seq'[s], ssrc_seq'[s] + SeqSpan}
      BY <1>2, <1>4, Span
    <3> QED BY <1>3, <3>1
  <2> QED BY <1>1, <1>2, <1>5, <2>1 DEF KeysBehind
<1>7. ASSUME NEW q \in Out', q.key \in DOMAIN rtp_to_transport'
      PROVE  rtp_to_transport'[q.key] \in {q.tsn} \cup shadowed'
  <2>1. CASE q = new
    BY <1>3, <1>7, <2>1, SendMaps
  <2>2. CASE q \in net
    <3>1. q.key # NextKey(p)
      BY <1>5, <2>2
    <3>2. q.key \in DOMAIN rtp_to_transport /\ rtp_to_transport'[q.key] = rtp_to_transport[q.key]
      BY <1>7, <3>1, SendMaps
    <3>3. rtp_to_transport[q.key] \in {q.tsn} \cup shadowed /\ shadowed \subseteq shadowed'
      BY <1>1, <2>2, <3>2, SendMaps DEF KeysOwned
    <3> QED BY <3>2, <3>3
  <2> QED BY <1>1, <1>7, <2>1, <2>2
<1>8. KeysOwned'
    BY <1>7 DEF KeysOwned
<1> QED BY <1>6, <1>8

LEMMA FlightFinite ==
    ASSUME NEW S, IsFiniteSet(S)
    PROVE  IsFiniteSet(Flight(S)) /\ Cardinality(Flight(S)) \in Nat
<1>1. Flight(S) \subseteq S
    BY DEF Flight
<1> QED BY <1>1, FS_Subset, FS_CardinalityType

\* What is taken out of a finite set is taken off its count.
LEMMA Difference ==
    ASSUME NEW S, IsFiniteSet(S), NEW T \in SUBSET S
    PROVE  /\ IsFiniteSet(S \ T) /\ Cardinality(T) \in Nat /\ Cardinality(S) \in Nat
           /\ Cardinality(T) <= Cardinality(S)
           /\ Cardinality(S \ T) = Cardinality(S) - Cardinality(T)
<1>1. IsFiniteSet(T) /\ IsFiniteSet(S \ T)
    BY FS_Subset
<1>2. Cardinality(S \ T) = Cardinality(S) - Cardinality(S \cap T)
    BY FS_Difference
<1>3. S \cap T = T
    OBVIOUS
<1> QED BY <1>1, <1>2, <1>3, FS_Subset, FS_CardinalityType

LEMMA SendFlight ==
    ASSUME SenderInv, NEW p \in queue, NEW old \in SUBSET DOMAIN history, Leaves(p, old)
    PROVE  FlightInv'
<1> SUFFICES ASSUME ~misrolled'
             PROVE  /\ Flight(sent)' = Flight(DOMAIN history)'
                    /\ in_flight' = Cardinality(Flight(sent)')
    BY DEF FlightInv
<1> DEFINE n == p.tsn
           F == Flight(sent)
<1>1. /\ TypeOK /\ n \in Int /\ n \notin DOMAIN history /\ n \notin sent
    BY DEF SenderInv, TypeOK, NumbersFresh
<1>2. /\ DOMAIN history' = (DOMAIN history \ old) \cup {n}
      /\ in_flight' = Removed(in_flight, Cardinality(Flight(old)))
                        + IF n > last_ack THEN 1 ELSE 0
      /\ sent' = (sent \ old) \cup {n}
      /\ last_ack' = last_ack /\ misrolled' = misrolled
    BY DEF Leaves, Registered
<1>3. F = Flight(DOMAIN history) /\ in_flight = Cardinality(F)
    BY <1>2 DEF SenderInv, FlightInv
<1>4. Flight(old) \subseteq F
    BY <1>3 DEF Flight
<1>5. /\ Flight(sent)' = (F \ Flight(old)) \cup (IF n > last_ack THEN {n} ELSE {})
      /\ Flight(DOMAIN history)' = (F \ Flight(old)) \cup (IF n > last_ack THEN {n} ELSE {})
  <2>1. Flight(sent)' = {t \in (sent \ old) \cup {n} : t > last_ack}
    BY <1>2 DEF Flight
  <2>2. Flight(DOMAIN history)' = {t \in (DOMAIN history \ old) \cup {n} : t > last_ack}
    BY <1>2 DEF Flight
  <2> QED BY <1>3, <2>1, <2>2 DEF Flight
<1>6. n \notin F \ Flight(old)
    BY <1>1 DEF Flight
<1>7. IsFiniteSet(F)
    BY <1>1, FlightFinite DEF TypeOK
<1> HIDE DEF F
<1>8. /\ IsFiniteSet(F \ Flight(old))
      /\ Cardinality(Flight(old)) \in Nat /\ Cardinality(F) \in Nat
      /\ Cardinality(Flight(old)) <= Cardinality(F)
      /\ Cardinality(F \ Flight(old)) = Cardinality(F) - Cardinality(Flight(old))
    BY <1>4, <1>7, Difference
<1>9. Removed(in_flight, Cardinality(Flight(old))) = Cardinality(F \ Flight(old))
    BY <1>3, <1>8, RemovedIs
<1>10. CASE n > last_ack
  <2>1. Cardinality((F \ Flight(old)) \cup {n}) = Cardinality(F \ Flight(old)) + 1
    BY <1>6, <1>8, FS_AddElement
  <2> QED BY <1>2, <1>5, <1>9, <1>10, <2>1
<1>11. CASE ~(n > last_ack)
  <2>1. Cardinality(F \ Flight(old)) \in Nat
    BY <1>8
  <2>2. (F \ Flight(old)) \cup {} = F \ Flight(old)
    OBVIOUS
  <2> QED BY <1>2, <1>5, <1>9, <1>11, <2>1, <2>2, SMTT(40)
<1> QED BY <1>10, <1>11

LEMMA SendCredit ==
    ASSUME SenderInv, NEW p \in queue, NEW old \in SUBSET DOMAIN history, Leaves(p, old)
    PROVE  CreditInv'
<1>1. CreditInv /\ p.tsn \notin credited
    BY DEF SenderInv, NumbersFresh
<1>2. credited' = credited /\ twice' = twice /\ arrived' = arrived
    BY DEF Leaves, Registered, receiver_vars
<1>3. \A k \in DOMAIN rtp_to_transport' : rtp_to_transport'[k] \notin credited
    BY <1>1, SendMaps DEF CreditInv
<1>4. shadowed \subseteq shadowed'
    BY SendMaps
<1>5. CreditsAreTrue'
    BY <1>1, <1>2, <1>4 DEF CreditInv, CreditsAreTrue
<1> QED BY <1>2, <1>3, <1>5 DEF CreditInv

LEMMA SendInv == ASSUME SenderInv, SendPacket PROVE SenderInv'
<1>1. PICK p \in queue, old \in SUBSET DOMAIN history : Leaves(p, old)
    BY SendIs DEF SenderInv
<1> QED
    BY <1>1, SendTypes, SendNumbers, SendMaps, SendKeys, SendFlight, SendCredit
    DEF SenderInv
-----------------------------------------------------------------------------
(* The other steps of the pacer thread                                       *)

LEMMA EnqueueInv ==
    ASSUME SenderInv, NEW s \in Ssrcs, EnqueuePacket(s) PROVE SenderInv'
<1> DEFINE p == [tsn |-> transport_seq, ssrc |-> s]
<1>0. TypeOK /\ NumbersNear /\ NumbersFresh
    BY DEF SenderInv
<1>1. /\ queued' = queued + 1 /\ queued < MaxPackets
      /\ transport_seq' = transport_seq + 1 /\ queue' = queue \cup {p}
      /\ UNCHANGED <<ssrc_seq, sends, sending, fails, adapter_vars, net,
                     receiver_vars, ghosts>>
    BY DEF EnqueuePacket
<1>u. UNCHANGED <<ssrc_seq, sends, sending, unwrapper, history, rtp_to_transport, in_flight,
                  last_ack, net, arrived, sent, credited, twice, shadowed, misrolled>>
    BY <1>1 DEF adapter_vars, receiver_vars, ghosts
<1>2. /\ transport_seq \in Nat /\ queued \in 0 .. MaxPackets /\ Base \in Nat
      /\ Base' = Base
    BY <1>0, <1>1 DEF TypeOK, Base
<1>3. p \in [tsn : Int, ssrc : Ssrcs] /\ p.tsn = transport_seq
    BY <1>2
<1>4. \A q \in queue : q.tsn \in Int /\ q.tsn < transport_seq
    BY <1>0, <1>2 DEF TypeOK, NumbersNear
<1>5. p \notin queue
    BY <1>2, <1>3, <1>4
<1> HIDE DEF p
<1>6. TypeOK'
  <2>1. queue' \subseteq [tsn : Int, ssrc : Ssrcs] /\ IsFiniteSet(queue')
    BY <1>0, <1>1, <1>3, FS_AddElement DEF TypeOK
  <2>2. transport_seq' \in Nat /\ queued' \in 0 .. MaxPackets /\ Base' \in Nat
    BY <1>1, <1>2, Span
  <2> QED BY <1>0, <1>u, <2>1, <2>2 DEF TypeOK
<1>7. NumbersNear'
  <2>1. unwrapper # <<>> => unwrapper[1] \in Base - 1 .. transport_seq
    BY <1>0, <1>2 DEF NumbersNear
  <2>2. \A q \in queue \cup {p} : q.tsn \in Base .. transport_seq
    <3>1. \A q \in queue : q.tsn \in Base .. transport_seq - 1
      BY <1>0 DEF NumbersNear
    <3>2. Base <= transport_seq
      BY <1>2 DEF Base
    <3> QED BY <1>2, <1>3, <3>1, <3>2
  <2>3. transport_seq' - 1 = transport_seq
    BY <1>1, <1>2
  <2> QED BY <1>0, <1>1, <1>u, <1>2, <2>1, <2>2, <2>3 DEF NumbersNear
<1>8. NumbersFresh'
  <2>1. \A t \in DOMAIN history \cup sent \cup credited : t \in Int /\ t < transport_seq
    BY <1>0 DEF TypeOK, NumbersFresh
  <2>2. \A t \in DOMAIN history \cup sent \cup credited : t < transport_seq + 1
    BY <1>2, <2>1
  <2>3. \A q \in queue \cup {p} : q.tsn \notin DOMAIN history \cup sent \cup credited
    BY <1>0, <1>2, <1>3, <2>1 DEF NumbersFresh
  <2>4. \A q, r \in queue \cup {p} : q.tsn = r.tsn => q = r
    BY <1>0, <1>2, <1>3, <1>4 DEF NumbersFresh
  <2>5. Cardinality(queue \cup {p}) = Cardinality(queue) + 1 /\ Cardinality(queue) \in Nat
    BY <1>0, <1>5, FS_AddElement, FS_CardinalityType DEF TypeOK
  <2>6. sends + Cardinality(queue \cup {p}) = queued + 1
    BY <1>0, <1>2, <2>5 DEF TypeOK, NumbersFresh
  <2> QED BY <1>1, <1>u, <2>2, <2>3, <2>4, <2>6 DEF NumbersFresh
<1>9. Out' = Out /\ MapsInverse' /\ KeysBehind' /\ KeysOwned' /\ FlightInv' /\ CreditInv'
  <2>1. Out' = Out
    BY <1>u DEF Out
  <2> QED BY <1>u, <2>1 DEF SenderInv, MapsInverse, KeysBehind, KeysOwned, FlightInv,
          Flight, CreditInv, CreditsAreTrue
<1> QED BY <1>6, <1>7, <1>8, <1>9 DEF SenderInv

\* The packet that is being handed to the agent.
LEMMA SendingIs ==
    ASSUME TypeOK, sending # <<>>
    PROVE  /\ sending[1].tsn \in Int /\ sending[1].key \in Keys
           /\ Out = net \cup {[tsn |-> sending[1].tsn, key |-> sending[1].key]}
<1>1. sending = <<sending[1]>> /\ sending[1] \in [tsn : Int, created : Int, key : Keys]
    BY Zenon DEF TypeOK, Known
<1>2. Range(sending) = {sending[1]}
    BY <1>1, RangeIs, Zenon
<1>3. Out = net \cup {[tsn |-> sending[1].tsn, key |-> sending[1].key]}
    BY <1>2 DEF Out
<1> QED BY <1>1, <1>3

LEMMA SentInv == ASSUME SenderInv, OnSentPacket PROVE SenderInv'
<1> DEFINE p == [tsn |-> sending[1].tsn, key |-> sending[1].key]
<1>0. TypeOK
    BY DEF SenderInv
<1>1. /\ sending # <<>> /\ net' = net \cup {p} /\ sending' = <<>>
      /\ UNCHANGED <<transport_seq, queue, queued, ssrc_seq, sends, fails,
                     adapter_vars, receiver_vars, ghosts>>
    BY DEF OnSentPacket
<1>u. UNCHANGED <<transport_seq, queue, queued, ssrc_seq, sends, unwrapper, history,
                  rtp_to_transport, in_flight, last_ack, arrived, sent, credited, twice,
                  shadowed, misrolled>>
    BY <1>1 DEF adapter_vars, receiver_vars, ghosts
<1>2. p \in [tsn : Int, key : Keys] /\ Out = net \cup {p}
    BY <1>0, <1>1, SendingIs
<1>3. Out' = Out
  <2>1. Range(sending') = {}
    BY <1>1, RangeIs, Zenon
  <2> QED BY <1>1, <1>2, <2>1 DEF Out
<1> HIDE DEF p
<1>b. Base' = Base
    BY <1>u DEF Base
<1>4. TypeOK'
  <2>1. net' \subseteq [tsn : Int, key : Keys] /\ arrived' \subseteq net'
    BY <1>0, <1>1, <1>u, <1>2 DEF TypeOK
  <2>2. Known(sending', [tsn : Int, created : Int, key : Keys])
    BY <1>1 DEF Known
  <2> QED BY <1>0, <1>u, <1>b, <2>1, <2>2 DEF TypeOK
<1>5. NumbersNear' /\ NumbersFresh' /\ MapsInverse' /\ FlightInv' /\ CreditInv'
    BY <1>u, <1>b DEF SenderInv, NumbersNear, NumbersFresh, MapsInverse, FlightInv,
       Flight, CreditInv, CreditsAreTrue
<1>6. KeysBehind' /\ KeysOwned'
    BY <1>u, <1>3 DEF SenderInv, KeysBehind, KeysOwned
<1> QED BY <1>4, <1>5, <1>6 DEF SenderInv

\* Numbers are taken out of the history, and their keys with them.
Forgets(gone) ==
    /\ gone \subseteq DOMAIN history
    /\ DOMAIN history' = DOMAIN history \ gone
    /\ \A t \in DOMAIN history' : history'[t] = history[t]
    /\ DOMAIN rtp_to_transport' \subseteq DOMAIN rtp_to_transport
    /\ \A k \in DOMAIN rtp_to_transport' : rtp_to_transport'[k] = rtp_to_transport[k]
    /\ \A k \in DOMAIN rtp_to_transport :
          rtp_to_transport[k] \in gone => k \notin DOMAIN rtp_to_transport'

\* The maps stay inverse, and no packet gets a key it had not.
LEMMA ForgetMaps ==
    ASSUME SenderInv, NEW gone, Forgets(gone),
           Out' \subseteq Out, shadowed' = shadowed, ssrc_seq' = ssrc_seq, sends' = sends
    PROVE  MapsInverse' /\ KeysBehind' /\ KeysOwned'
<1>1. \A k \in DOMAIN rtp_to_transport' :
         /\ k \in DOMAIN rtp_to_transport /\ rtp_to_transport'[k] = rtp_to_transport[k]
         /\ rtp_to_transport[k] \notin gone
    BY DEF Forgets
<1>2. MapsInverse'
  <2> SUFFICES ASSUME NEW k \in DOMAIN rtp_to_transport'
               PROVE  /\ rtp_to_transport'[k] \in DOMAIN history'
                      /\ history'[rtp_to_transport'[k]].key = k
    BY DEF MapsInverse
  <2>1. rtp_to_transport[k] \in DOMAIN history /\ history[rtp_to_transport[k]].key = k
    BY <1>1 DEF SenderInv, MapsInverse
  <2> QED BY <1>1, <2>1 DEF Forgets
<1>3. KeysBehind'
    BY DEF SenderInv, KeysBehind
<1>4. KeysOwned'
  <2> SUFFICES ASSUME NEW p \in Out', p.key \in DOMAIN rtp_to_transport'
               PROVE  rtp_to_transport'[p.key] \in {p.tsn} \cup shadowed
    BY DEF KeysOwned
  <2> QED BY <1>1 DEF SenderInv, KeysOwned
<1> QED BY <1>2, <1>3, <1>4

LEMMA RollbackInv == ASSUME SenderInv, RollbackPacketFeedback PROVE SenderInv'
<1> DEFINE n == sending[1].tsn
           key == sending[1].key
           known == key \in DOMAIN rtp_to_transport
           t == rtp_to_transport[key]
           gone == IF known THEN {t} ELSE {}
<1>0. TypeOK /\ MapsInverse
    BY DEF SenderInv
<1>1. /\ sending # <<>> /\ sending' = <<>>
      /\ RemovePacket(key) /\ sent' = sent \ {n}
      /\ misrolled' = (misrolled \/ n <= last_ack \/ ~known \/ t # n)
    BY Zenon DEF RollbackPacketFeedback
<1>u. UNCHANGED <<transport_seq, queue, queued, ssrc_seq, sends, unwrapper,
                  last_ack, net, arrived, credited, twice, shadowed>>
    BY DEF RollbackPacketFeedback, receiver_vars
<1>2. /\ known => /\ history' = Without(history, {t})
                  /\ rtp_to_transport' = Without(rtp_to_transport, {key})
                  /\ in_flight' = IF t \in DOMAIN history THEN Removed(in_flight, 1)
                                  ELSE in_flight
      /\ ~known => UNCHANGED <<history, rtp_to_transport, in_flight>>
    BY <1>1, Zenon DEF RemovePacket
<1>3. known => t \in DOMAIN history /\ history[t].key = key
    BY <1>0 DEF MapsInverse
<1> HIDE DEF n, key, known, t
<1>4. Forgets(gone) /\ DOMAIN history' = DOMAIN history \ gone
  <2>1. CASE known
    <3>a. /\ history' = Without(history, {t})
          /\ rtp_to_transport' = Without(rtp_to_transport, {key})
      BY <1>2, <2>1
    <3>0. /\ DOMAIN history' = DOMAIN history \ {t}
          /\ \A x \in DOMAIN history \ {t} : history'[x] = history[x]
      BY <3>a, WithoutIs, Zenon
    <3>1. /\ DOMAIN rtp_to_transport' = DOMAIN rtp_to_transport \ {key}
          /\ \A k \in DOMAIN rtp_to_transport \ {key} :
                rtp_to_transport'[k] = rtp_to_transport[k]
      BY <3>a, WithoutIs, Zenon
    <3>2. \A k \in DOMAIN rtp_to_transport : rtp_to_transport[k] = t => k = key
      BY <1>0, <1>3, <2>1 DEF MapsInverse
    <3> QED BY <1>3, <2>1, <3>0, <3>1, <3>2 DEF Forgets
  <2>2. CASE ~known
    BY <1>2, <2>2 DEF Forgets
  <2> QED BY <2>1, <2>2
<1>5. Out' \subseteq Out
  <2>1. Range(sending') = {}
    BY <1>1, RangeIs, Zenon
  <2> QED BY <1>u, <2>1 DEF Out
<1>6. MapsInverse' /\ KeysBehind' /\ KeysOwned'
    BY <1>4, <1>5, <1>u, ForgetMaps
<1>7. in_flight' = IF known THEN Removed(in_flight, 1) ELSE in_flight
    BY <1>2, <1>3
<1>b. Base' = Base
    BY <1>u DEF Base
<1>8. TypeOK'
  <2>1. DOMAIN history' \subseteq Int /\ IsFiniteSet(DOMAIN history')
    BY <1>0, <1>4, FS_Subset DEF TypeOK
  <2>2. DOMAIN rtp_to_transport' \subseteq Keys
    BY <1>0, <1>4 DEF TypeOK, Forgets
  <2>3. in_flight' \in Nat
    BY <1>0, <1>7, RemovedIs DEF TypeOK
  <2>4. sent' \subseteq Int /\ IsFiniteSet(sent')
    BY <1>0, <1>1, FS_Subset DEF TypeOK
  <2>5. misrolled' \in BOOLEAN
    BY <1>1, Zenon
  <2>6. Known(sending', [tsn : Int, created : Int, key : Keys])
    BY <1>1 DEF Known
  <2> QED BY <1>0, <1>u, <1>b, <2>1, <2>2, <2>3, <2>4, <2>5, <2>6 DEF TypeOK
<1>9. NumbersNear' /\ NumbersFresh'
  <2>1. DOMAIN history' \subseteq DOMAIN history /\ sent' \subseteq sent
    BY <1>1, <1>4
  <2> QED BY <1>u, <1>b, <2>1 DEF SenderInv, NumbersNear, NumbersFresh
<1>10. CreditInv'
    BY <1>4, <1>u DEF Forgets, SenderInv, CreditInv, CreditsAreTrue
<1>11. FlightInv'
  <2> SUFFICES ASSUME ~misrolled'
               PROVE  /\ Flight(sent)' = Flight(DOMAIN history)'
                      /\ in_flight' = Cardinality(Flight(sent)')
    BY DEF FlightInv
  <2>1. ~misrolled /\ ~(n <= last_ack) /\ known /\ t = n
    BY <1>1
  <2>2. n > last_ack /\ n \in DOMAIN history
    <3>1. n \in Int
      BY <1>0, <1>1, SendingIs DEF n
    <3> QED BY <1>0, <1>3, <2>1, <3>1 DEF TypeOK
  <2>3. Flight(sent) = Flight(DOMAIN history) /\ in_flight = Cardinality(Flight(sent))
    BY <2>1 DEF SenderInv, FlightInv
  <2>4. n \in Flight(sent)
    BY <2>2, <2>3 DEF Flight
  <2>5. DOMAIN history' = DOMAIN history \ {n}
    BY <1>4, <2>1
  <2>6. /\ Flight(sent)' = Flight(sent) \ {n}
        /\ Flight(DOMAIN history)' = Flight(DOMAIN history) \ {n}
    BY <1>1, <1>u, <2>5 DEF Flight
  <2>7. IsFiniteSet(Flight(sent)) /\ Cardinality(Flight(sent)) \in Nat
    BY <1>0, FlightFinite DEF TypeOK
  <2>8. /\ Cardinality(Flight(sent) \ {n}) = Cardinality(Flight(sent)) - 1
        /\ Cardinality(Flight(sent) \ {n}) \in Nat
    BY <2>4, <2>7, FS_RemoveElement, FS_CardinalityType
  <2>9. Removed(in_flight, 1) = in_flight - 1
    BY <2>3, <2>7, <2>8, RemovedIs
  <2> QED BY <1>7, <2>1, <2>3, <2>6, <2>8, <2>9
<1> QED BY <1>6, <1>8, <1>9, <1>10, <1>11 DEF SenderInv
-----------------------------------------------------------------------------
(* The feedback queue                                                        *)

\* A report that credits the numbers received moves the acknowledgement to top.
Acknowledges(info, received, top) ==
    /\ \A t \in received : \E k \in DOMAIN info \cap DOMAIN rtp_to_transport :
          t = rtp_to_transport[k] /\ info[k]
    /\ Forgets(received)
    /\ top \in Int /\ top >= last_ack /\ \A t \in received : t <= top
    /\ last_ack' = top
    /\ in_flight' = Removed(in_flight,
                       Cardinality({t \in DOMAIN history : last_ack < t /\ t <= top}))
    /\ twice' = twice \cup (credited \cap received)
    /\ credited' = credited \cup received

LEMMA ProcessIs ==
    ASSUME SenderInv, ProcessCongestionControlFeedback
    PROVE  \E info \in reports : \E received, top : Acknowledges(info, received, top)
<1>1. PICK info \in reports :
         /\ last_ack' = Retrieve(info).last_ack
         /\ in_flight' = Retrieve(info).in_flight
         /\ history' = Retrieve(info).history
         /\ rtp_to_transport' = Retrieve(info).keys
         /\ twice' = twice \cup (credited \cap Retrieve(info).results)
         /\ credited' = credited \cup Retrieve(info).results
    BY Zenon DEF ProcessCongestionControlFeedback
<1> DEFINE found == DOMAIN info \cap DOMAIN rtp_to_transport
           tsns == {rtp_to_transport[k] : k \in found}
           top == Max(tsns \cup {last_ack})
           received == {t \in tsns : info[history[t].key]}
           passed == {t \in DOMAIN history : last_ack < t /\ t <= top}
           gone == {history[t].key : t \in received}
<1>2. /\ last_ack' = top
      /\ in_flight' = Removed(in_flight, Cardinality(passed))
      /\ history' = Without(history, received)
      /\ rtp_to_transport' = Without(rtp_to_transport, gone)
      /\ twice' = twice \cup (credited \cap received)
      /\ credited' = credited \cup received
    BY <1>1 DEF Retrieve
<1>3. TypeOK /\ MapsInverse /\ NumbersFresh
    BY DEF SenderInv
<1>4. \A k \in found : rtp_to_transport[k] \in DOMAIN history
                         /\ history[rtp_to_transport[k]].key = k
    BY <1>3 DEF MapsInverse
<1>5. tsns \subseteq DOMAIN history
    BY <1>4
<1>6. \A t \in received : \E k \in found : t = rtp_to_transport[k] /\ info[k]
  <2>1. ASSUME NEW t \in received PROVE \E k \in found : t = rtp_to_transport[k] /\ info[k]
    <3>1. PICK k \in found : t = rtp_to_transport[k]
      OBVIOUS
    <3>2. info[history[t].key]
      OBVIOUS
    <3> QED BY <1>4, <3>1, <3>2
  <2> QED BY <2>1
<1>7. top \in Int /\ top >= last_ack /\ \A t \in tsns : t <= top
  <2> DEFINE S == tsns \cup {last_ack}
             b == IF last_ack > transport_seq THEN last_ack ELSE transport_seq
  <2>1. S \in SUBSET Int /\ S # {} /\ last_ack \in S /\ tsns \subseteq S
    BY <1>3, <1>5 DEF TypeOK
  <2>2. b \in Int /\ last_ack <= b /\ transport_seq <= b
    BY <1>3 DEF TypeOK
  <2>3. \A u \in S : u <= b
    <3>1. \A u \in tsns : u \in Int /\ u < transport_seq
      BY <1>3, <1>5 DEF TypeOK, NumbersFresh
    <3> HIDE DEF tsns, b
    <3> QED BY <1>3, <2>2, <3>1 DEF TypeOK
  <2> HIDE DEF S, b
  <2>4. Max(S) \in S /\ \A u \in S : u <= Max(S)
    BY <2>1, <2>2, <2>3, Greatest
  <2>5. Max(S) \in Int /\ last_ack \in Int /\ last_ack <= Max(S)
    BY <2>1, <2>4
  <2> QED BY <2>1, <2>4, <2>5 DEF S
<1>8. Forgets(received)
  <2> HIDE DEF tsns
  <2>1. received \subseteq DOMAIN history
    BY <1>5
  <2> HIDE DEF received, gone
  <2>2. /\ DOMAIN history' = DOMAIN history \ received
        /\ \A x \in DOMAIN history \ received : history'[x] = history[x]
    BY <1>2, WithoutIs, Zenon
  <2>3. /\ DOMAIN rtp_to_transport' = DOMAIN rtp_to_transport \ gone
        /\ \A k \in DOMAIN rtp_to_transport \ gone :
              rtp_to_transport'[k] = rtp_to_transport[k]
    BY <1>2, WithoutIs, Zenon
  <2>4. \A k \in DOMAIN rtp_to_transport : rtp_to_transport[k] \in received => k \in gone
    BY <1>3 DEF MapsInverse, gone
  <2> QED BY <2>1, <2>2, <2>3, <2>4 DEF Forgets
<1>9. received \subseteq tsns
    OBVIOUS
<1> HIDE DEF tsns, top, received, gone
<1>10. Acknowledges(info, received, top)
    BY <1>2, <1>6, <1>7, <1>8, <1>9 DEF Acknowledges
<1> QED BY <1>10

\* The flight shrinks by the numbers the acknowledgement passes.
LEMMA AcknowledgeFlight ==
    ASSUME SenderInv, NEW info, NEW received, NEW top,
           Acknowledges(info, received, top), sent' = sent, misrolled' = misrolled
    PROVE  FlightInv' /\ in_flight' \in Nat
<1> DEFINE passed == {t \in DOMAIN history : last_ack < t /\ t <= top}
           F == Flight(sent)
<1>0. /\ TypeOK /\ top \in Int /\ last_ack \in Int /\ top >= last_ack /\ last_ack' = top
      /\ in_flight' = Removed(in_flight, Cardinality(passed))
      /\ DOMAIN history' = DOMAIN history \ received
      /\ \A t \in received : t <= top
    BY DEF SenderInv, TypeOK, Acknowledges, Forgets
<1>1. passed \subseteq DOMAIN history /\ IsFiniteSet(passed) /\ Cardinality(passed) \in Nat
  <2>1. passed \subseteq DOMAIN history
    OBVIOUS
  <2> QED BY <1>0, <2>1, FS_Subset, FS_CardinalityType DEF TypeOK
<1>2. in_flight' \in Nat
    BY <1>0, <1>1, RemovedIs DEF TypeOK
<1>3. ASSUME ~misrolled
      PROVE  /\ Flight(sent)' = Flight(DOMAIN history)'
             /\ in_flight' = Cardinality(Flight(sent)')
  <2>1. F = Flight(DOMAIN history) /\ in_flight = Cardinality(F)
    BY <1>3 DEF SenderInv, FlightInv
  <2>2. passed \subseteq F
    <3>1. ASSUME NEW t \in passed PROVE t \in Flight(DOMAIN history)
      BY <1>0, <3>1 DEF Flight, TypeOK
    <3> QED BY <2>1, <3>1
  <2>3. Flight(sent)' = F \ passed /\ Flight(DOMAIN history)' = F \ passed
    <3>1. Flight(sent)' = {t \in sent : t > top}
      BY <1>0 DEF Flight
    <3>2. Flight(DOMAIN history)' = {t \in DOMAIN history \ received : t > top}
      BY <1>0 DEF Flight
    <3>3. \A t \in DOMAIN history \cup sent : t \in Int
      BY <1>0 DEF TypeOK
    <3>4. ASSUME NEW t \in sent, t > top PROVE t \in F \ passed
      BY <1>0, <3>3, <3>4 DEF Flight
    <3>5. ASSUME NEW t \in F \ passed PROVE t \in sent /\ t \in DOMAIN history /\ t > top
      <4>1. t \in sent /\ t \in DOMAIN history /\ t > last_ack
        BY <2>1 DEF Flight
      <4> QED BY <1>0, <3>3, <4>1
    <3>6. ASSUME NEW t \in DOMAIN history, t > top PROVE t \in F \ passed
      <4>1. t \in Flight(DOMAIN history)
        BY <1>0, <3>3, <3>6 DEF Flight
      <4> QED BY <1>0, <2>1, <3>3, <3>6, <4>1
    <3>7. ASSUME NEW t \in received, t \in DOMAIN history PROVE ~(t > top)
      BY <1>0, <3>3, <3>7
    <3> HIDE DEF passed, F
    <3> QED BY <3>1, <3>2, <3>4, <3>5, <3>6, <3>7
  <2>4. IsFiniteSet(F)
    BY <1>0, FlightFinite DEF TypeOK
  <2> HIDE DEF passed, F
  <2>5. /\ Cardinality(passed) <= Cardinality(F) /\ Cardinality(F) \in Nat
        /\ Cardinality(F \ passed) = Cardinality(F) - Cardinality(passed)
    BY <2>2, <2>4, Difference
  <2> QED BY <1>0, <1>1, <2>1, <2>3, <2>5, RemovedIs
<1> QED BY <1>2, <1>3 DEF FlightInv

LEMMA ProcessInv ==
    ASSUME SenderInv, ArrivalsAreReported, ProcessCongestionControlFeedback
    PROVE  SenderInv'
<1>1. PICK info \in reports : \E received, top : Acknowledges(info, received, top)
    BY ProcessIs
<1>2. PICK received, top : Acknowledges(info, received, top)
    BY <1>1
<1>u. UNCHANGED <<transport_seq, queue, queued, ssrc_seq, sends, sending, unwrapper,
                  net, arrived, sent, shadowed, misrolled>>
    BY DEF ProcessCongestionControlFeedback, pacer_vars, receiver_vars
<1>0. TypeOK /\ MapsInverse /\ KeysOwned /\ CreditInv /\ NumbersFresh
    BY DEF SenderInv
<1>b. Base' = Base /\ Out' = Out
    BY <1>u DEF Base, Out
<1>3. /\ Forgets(received) /\ received \subseteq DOMAIN history
      /\ credited' = credited \cup received /\ twice' = twice \cup (credited \cap received)
      /\ last_ack' \in Int
    BY <1>2 DEF Acknowledges, Forgets
<1>4. FlightInv' /\ in_flight' \in Nat
    BY <1>2, <1>u, AcknowledgeFlight
<1>5. MapsInverse' /\ KeysBehind' /\ KeysOwned'
    BY <1>3, <1>u, <1>b, ForgetMaps
<1>6. TypeOK'
  <2>1. DOMAIN history' \subseteq Int /\ IsFiniteSet(DOMAIN history')
        /\ DOMAIN rtp_to_transport' \subseteq Keys
    BY <1>0, <1>3, FS_Subset DEF TypeOK, Forgets
  <2>2. credited' \subseteq Int
    BY <1>0, <1>3 DEF TypeOK
  <2> QED BY <1>0, <1>u, <1>b, <1>3, <1>4, <2>1, <2>2 DEF TypeOK
<1>7. NumbersNear' /\ NumbersFresh'
  <2>1. DOMAIN history' \subseteq DOMAIN history /\ credited' \subseteq credited \cup DOMAIN history
    BY <1>3 DEF Forgets
  <2> QED BY <1>u, <1>b, <2>1 DEF SenderInv, NumbersNear, NumbersFresh
<1>8. \A t \in received : /\ t \notin credited
                          /\ t \in {p.tsn : p \in arrived} \cup shadowed
  <2> SUFFICES ASSUME NEW t \in received
               PROVE  t \notin credited /\ t \in {p.tsn : p \in arrived} \cup shadowed
    OBVIOUS
  <2>1. PICK k \in DOMAIN info \cap DOMAIN rtp_to_transport :
            t = rtp_to_transport[k] /\ info[k]
    BY <1>2 DEF Acknowledges
  <2>2. t \notin credited
    BY <1>0, <2>1 DEF CreditInv
  <2>3. PICK p \in arrived : p.key = k
    BY <2>1 DEF ArrivalsAreReported
  <2>4. p \in Out
    BY <1>0 DEF Out, TypeOK
  <2>5. t \in {p.tsn} \cup shadowed
    BY <1>0, <2>1, <2>3, <2>4 DEF KeysOwned
  <2> QED BY <2>2, <2>5
<1>9. CreditsAreTrue'
    BY <1>0, <1>3, <1>u, <1>8 DEF CreditInv, CreditsAreTrue
<1>10. \A k \in DOMAIN rtp_to_transport' : rtp_to_transport'[k] \notin credited'
    BY <1>0, <1>3 DEF Forgets, CreditInv
<1> QED BY <1>4, <1>5, <1>6, <1>7, <1>9, <1>10 DEF SenderInv, CreditInv
-----------------------------------------------------------------------------
(* The trackers                                                              *)

LEMMA ReceivedOK ==
    ASSUME NEW k, NEW s, NEW A, NEW B, TrackerOK(k, s, A), A \subseteq B,
           NEW v \in 0 .. SeqSpan - 1, NEW p \in B, p.key = <<s, v>>
    PROVE  /\ TrackerOK(ReceivedPacket(k, v), s, B)
           /\ k.packets \subseteq ReceivedPacket(k, v).packets
           /\ \E u \in ReceivedPacket(k, v).packets : u % SeqSpan = v
<1> DEFINE u == Unwrap(k.unwrapper, v)
           longer == IF Contains(k.history, u) THEN k.history ELSE Append(k.history, u)
           l == IF k.last # <<>> /\ u <= k.last[1] THEN <<u - 1>> ELSE k.last
           h == IF Len(longer) > kMaxHistorySize THEN Tail(longer) ELSE longer
           r == ReceivedPacket(k, v)
<1>1. /\ Known(k.unwrapper, Int) /\ Known(k.last, Int)
      /\ k.history \in Seq(Int) /\ k.packets \subseteq Int
    BY DEF TrackerOK
<1>2. u \in Int /\ u % SeqSpan = v
    BY <1>1, UnwrapKeeps
<1>3. r = [unwrapper |-> <<u>>, last |-> l, history |-> h, packets |-> k.packets \cup {u}]
    BY DEF ReceivedPacket
<1>4. /\ longer \in Seq(Int)
      /\ \A i \in DOMAIN longer : longer[i] \in Range(k.history) \cup {u}
  <2> HIDE DEF u
  <2>1. CASE Contains(k.history, u)
    BY <1>1, <2>1 DEF Range
  <2>2. CASE ~Contains(k.history, u)
    <3>1. longer = Append(k.history, u)
      BY <2>2
    <3> QED BY <1>1, <1>2, <3>1 DEF Range
  <2> QED BY <2>1, <2>2
<1> HIDE DEF longer
<1>5. h \in Seq(Int) /\ Range(h) \subseteq Range(k.history) \cup {u}
  <2>1. CASE h = longer
    BY <1>4, <2>1 DEF Range
  <2>2. CASE Len(longer) > kMaxHistorySize
    <3>1. longer # <<>> /\ h = Tail(longer)
      BY <2>2, SpanAssumption
    <3>2. Tail(longer) \in Seq(Int)
      BY <1>4, <3>1
    <3>3. /\ DOMAIN longer = 1 .. Len(longer) /\ Len(longer) \in Nat
          /\ DOMAIN Tail(longer) = 1 .. Len(longer) - 1
          /\ \A i \in 1 .. Len(longer) - 1 : Tail(longer)[i] = longer[i + 1]
      BY <1>4, <3>1
    <3>4. \A i \in 1 .. Len(longer) - 1 : i + 1 \in 1 .. Len(longer)
      BY <3>3
    <3>5. \A i \in DOMAIN Tail(longer) : Tail(longer)[i] \in Range(k.history) \cup {u}
      BY <1>4, <3>3, <3>4
    <3> HIDE DEF h
    <3> QED BY <3>1, <3>2, <3>5 DEF Range
  <2> QED BY <2>1, <2>2
<1>6. Heard(s, u, B)
    BY <1>2 DEF Heard
<1> HIDE DEF u, h, r
<1>7. \A x \in (k.packets \cup {u}) \cup Range(h) : Heard(s, x, B)
    BY <1>5, <1>6 DEF TrackerOK, Heard
<1>8. \E lo, hi \in k.packets \cup {u} : \A x \in k.packets \cup {u} : lo <= x /\ x <= hi
  <2>1. CASE k.packets = {}
    BY <1>2, <2>1
  <2>2. CASE k.packets # {}
    <3>1. PICK lo \in k.packets, hi \in k.packets : \A x \in k.packets : lo <= x /\ x <= hi
      BY <2>2 DEF TrackerOK
    <3> DEFINE a == IF u <= lo THEN u ELSE lo
               b == IF hi <= u THEN u ELSE hi
    <3>2. a \in k.packets \cup {u} /\ a \in Int /\ a <= lo /\ a <= u
      BY <1>1, <1>2
    <3>3. b \in k.packets \cup {u} /\ b \in Int /\ hi <= b /\ u <= b
      BY <1>1, <1>2
    <3> HIDE DEF a, b
    <3>4. \A x \in k.packets \cup {u} : a <= x /\ x <= b
      BY <1>1, <1>2, <3>1, <3>2, <3>3
    <3> QED BY <3>2, <3>3, <3>4
  <2> QED BY <2>1, <2>2
<1>9. Known(l, Int) /\ (l # <<>> => \A x \in k.packets \cup {u} : x > l[1])
  <2>1. CASE k.last = <<>>
    <3>1. l = <<>>
      BY <2>1
    <3> QED BY <3>1 DEF Known
  <2>2. CASE k.last # <<>>
    <3>1. PICK n \in Int : k.last = <<n>>
      BY <1>1, <2>2, Zenon DEF Known
    <3>2. \A x \in k.packets : x \in Int /\ x > n
      BY <1>1, <2>2, <3>1 DEF TrackerOK
    <3>3. CASE u <= n
      <4>1. l = <<u - 1>> /\ u - 1 \in Int
        BY <1>2, <3>1, <3>3
      <4>2. \A x \in k.packets \cup {u} : x > u - 1
        BY <1>2, <3>2, <3>3
      <4> QED BY <4>1, <4>2 DEF Known
    <3>4. CASE ~(u <= n)
      <4>1. l = <<n>>
        BY <3>1, <3>4
      <4>2. \A x \in k.packets \cup {u} : x > n
        BY <1>2, <3>2, <3>4
      <4> QED BY <4>1, <4>2 DEF Known
    <3> QED BY <3>3, <3>4
  <2> QED BY <2>1, <2>2
<1>10. Known(<<u>>, Int)
    BY <1>2 DEF Known
<1> HIDE DEF l
<1>11. /\ r.unwrapper = <<u>> /\ r.last = l /\ r.history = h /\ r.packets = k.packets \cup {u}
       /\ r = [unwrapper |-> r.unwrapper, last |-> r.last, history |-> r.history,
               packets |-> r.packets]
    BY <1>3
<1>12. r.packets \subseteq Int
    BY <1>1, <1>2, <1>11
<1>13. TrackerOK(r, s, B)
    BY <1>5, <1>7, <1>8, <1>9, <1>10, <1>11, <1>12, Zenon DEF TrackerOK
<1>14. k.packets \subseteq r.packets /\ u \in r.packets
    BY <1>11
<1> QED BY <1>2, <1>13, <1>14 DEF r

LEMMA ClearedOK ==
    ASSUME NEW k, NEW s, NEW A, TrackerOK(k, s, A)
    PROVE  TrackerOK(Cleared(k), s, A)
<1>1. CASE k.packets = {}
    BY <1>1 DEF Cleared
<1>2. CASE k.packets # {}
  <2> DEFINE c == Cleared(k)
             m == Max(k.packets)
  <2>1. m \in Int
    <3>1. PICK lo \in k.packets, hi \in k.packets : \A x \in k.packets : lo <= x /\ x <= hi
      BY <1>2 DEF TrackerOK
    <3>2. k.packets \in SUBSET Int
      BY DEF TrackerOK
    <3>3. m = hi
      BY <3>1, <3>2, Extrema
    <3> QED BY <3>2, <3>3
  <2>2. /\ k = [unwrapper |-> k.unwrapper, last |-> k.last, history |-> k.history,
                packets |-> k.packets]
        /\ c = [k EXCEPT !.last = <<m>>, !.packets = {}]
    BY <1>2 DEF Cleared, TrackerOK
  <2> HIDE DEF c, m
  <2>3. c = [unwrapper |-> k.unwrapper, last |-> <<m>>, history |-> k.history, packets |-> {}]
    BY <2>2
  <2>4. /\ c.unwrapper = k.unwrapper /\ c.last = <<m>> /\ c.history = k.history /\ c.packets = {}
        /\ c = [unwrapper |-> c.unwrapper, last |-> c.last, history |-> c.history,
                packets |-> c.packets]
    BY <2>3
  <2>5. Known(<<m>>, Int)
    BY <2>1 DEF Known
  <2>6. TrackerOK(c, s, A)
    BY <2>4, <2>5 DEF TrackerOK
  <2> QED BY <2>6 DEF c
<1> QED BY <1>1, <1>2

\* A report covers everything received since the last one.
LEMMA ReportedCovers ==
    ASSUME NEW k, NEW s, NEW A, TrackerOK(k, s, A)
    PROVE  k.packets \subseteq Reported(k) /\ Reported(k) \subseteq Int
<1>1. CASE k.packets = {}
    BY <1>1 DEF Reported
<1>2. CASE k.packets # {}
  <2>1. PICK lo \in k.packets, hi \in k.packets : \A x \in k.packets : lo <= x /\ x <= hi
    BY <1>2 DEF TrackerOK
  <2>2. k.packets \in SUBSET Int /\ Known(k.last, Int)
    BY DEF TrackerOK
  <2>3. Min(k.packets) = lo /\ Max(k.packets) = hi
    BY <2>1, <2>2, Extrema
  <2>4. CASE k.last = <<>>
    <3>1. Reported(k) = lo .. hi
      BY <1>2, <2>3, <2>4 DEF Reported
    <3> QED BY <2>1, <2>2, <3>1
  <2>5. CASE k.last # <<>>
    <3>1. PICK n \in Int : k.last = <<n>>
      BY <2>2, <2>5, Zenon DEF Known
    <3>2. \A x \in k.packets : x > n
      BY <2>5, <3>1 DEF TrackerOK
    <3>3. Reported(k) = n + 1 .. hi
      BY <1>2, <2>3, <2>5, <3>1 DEF Reported
    <3> QED BY <2>1, <2>2, <3>1, <3>2, <3>3
  <2> QED BY <2>4, <2>5
<1> QED BY <1>1, <1>2

\* A report says received of what arrived since the last one, and of nothing
\* that never arrived.
LEMMA FeedbackIsTrue ==
    ASSUME NEW ks, NEW A, \A s \in Ssrcs : TrackerOK(ks[s], s, A)
    PROVE  /\ \A s \in Ssrcs : \A u \in ks[s].packets :
                 /\ <<s, u % SeqSpan>> \in DOMAIN AddPacketsToFeedback(ks)
                 /\ AddPacketsToFeedback(ks)[<<s, u % SeqSpan>>]
           /\ \A key \in DOMAIN AddPacketsToFeedback(ks) :
                 AddPacketsToFeedback(ks)[key] => \E p \in A : p.key = key
<1> DEFINE has(s, u) == u \in ks[s].packets \/ Contains(ks[s].history, u)
           D == UNION {{<<s, u % SeqSpan>> : u \in Reported(ks[s])} : s \in Ssrcs}
           r == AddPacketsToFeedback(ks)
<1>1. r = [key \in D |-> \E u \in Reported(ks[key[1]]) :
                            u % SeqSpan = key[2] /\ has(key[1], u)]
    BY Zenon DEF AddPacketsToFeedback
<1>2. ASSUME NEW s \in Ssrcs, NEW u \in ks[s].packets
      PROVE  <<s, u % SeqSpan>> \in DOMAIN r /\ r[<<s, u % SeqSpan>>]
  <2> DEFINE key == <<s, u % SeqSpan>>
  <2>1. u \in Reported(ks[s])
    BY ReportedCovers
  <2>2. key \in D /\ key[1] = s /\ key[2] = u % SeqSpan
    BY <2>1
  <2>3. has(s, u)
    OBVIOUS
  <2> HIDE DEF key, D, r, has
  <2>4. \E x \in Reported(ks[key[1]]) : x % SeqSpan = key[2] /\ has(key[1], x)
    BY <2>1, <2>2, <2>3
  <2>5. key \in DOMAIN r /\ r[key]
    BY <1>1, <2>2, <2>4, Zenon
  <2> QED BY <2>5 DEF key
<1>3. ASSUME NEW key \in DOMAIN r, r[key] PROVE \E p \in A : p.key = key
  <2>1. key \in D
    BY <1>1
  <2>2. PICK s \in Ssrcs : \E x \in Reported(ks[s]) : key = <<s, x % SeqSpan>>
    BY <2>1
  <2>3. key[1] = s /\ key = <<s, key[2]>>
    BY <2>2
  <2>4. PICK u \in Reported(ks[s]) : u % SeqSpan = key[2] /\ has(s, u)
    <3> HIDE DEF D, r, has
    <3>1. \E u \in Reported(ks[key[1]]) : u % SeqSpan = key[2] /\ has(key[1], u)
      BY <1>1, <1>3, <2>1, Zenon
    <3> QED BY <2>3, <3>1
  <2>5. u \in ks[s].packets \cup Range(ks[s].history)
    <3>1. ks[s].history \in Seq(Int)
      BY DEF TrackerOK
    <3>2. Contains(ks[s].history, u) => u \in Range(ks[s].history)
      BY <3>1 DEF Contains, Range
    <3> QED BY <2>4, <3>2
  <2>6. Heard(s, u, A)
    BY <2>5 DEF TrackerOK
  <2> QED BY <2>3, <2>4, <2>6 DEF Heard
<1> QED BY <1>2, <1>3

\* The trackers' side of OnReceivedPacket.
LEMMA ReceiveTracks ==
    ASSUME SenderInv, TrackerInv, ArrivalsAreReported, OnReceivedPacket
    PROVE  TrackerInv' /\ ArrivalsAreReported'
<1>1. PICK p \in net, due \in BOOLEAN :
         \E ks \in {[trackers EXCEPT ![p.key[1]] = ReceivedPacket(@, p.key[2])]} :
           /\ arrived' = arrived \cup {p}
           /\ due => Cardinality(reports) < MaxReports
           /\ reports' = IF due THEN reports \cup {AddPacketsToFeedback(ks)} ELSE reports
           /\ trackers' = IF due THEN [s \in Ssrcs |-> Cleared(ks[s])] ELSE ks
    BY DEF OnReceivedPacket
<1> DEFINE o == p.key[1]
           v == p.key[2]
           ks == [trackers EXCEPT ![o] = ReceivedPacket(trackers[o], v)]
           A == arrived \cup {p}
           r == AddPacketsToFeedback(ks)
<1>2. /\ arrived' = A
      /\ reports' = IF due THEN reports \cup {r} ELSE reports
      /\ trackers' = IF due THEN [s \in Ssrcs |-> Cleared(ks[s])] ELSE ks
    BY <1>1
<1>3. o \in Ssrcs /\ v \in 0 .. SeqSpan - 1 /\ p.key = <<o, v>>
    BY DEF SenderInv, TypeOK, Keys
<1>4. \A s \in Ssrcs : TrackerOK(trackers[s], s, arrived) /\ TrackerOK(trackers[s], s, A)
  <2> HIDE DEF o, v
  <2>1. ASSUME NEW s \in Ssrcs PROVE TrackerOK(trackers[s], s, A)
    <3>1. TrackerOK(trackers[s], s, arrived)
      BY DEF TrackerInv
    <3>2. \A u : Heard(s, u, arrived) => Heard(s, u, A)
      BY DEF Heard
    <3> HIDE DEF A
    <3> QED BY <3>1, <3>2, Zenon DEF TrackerOK
  <2> QED BY <2>1 DEF TrackerInv
<1>5. /\ DOMAIN ks = Ssrcs /\ ks[o] = ReceivedPacket(trackers[o], v)
      /\ \A s \in Ssrcs : s # o => ks[s] = trackers[s]
  <2> HIDE DEF o, v
  <2> QED BY <1>3 DEF TrackerInv
<1> HIDE DEF o, v, ks, A, r
<1>6. p \in A /\ arrived \subseteq A
    BY DEF A
<1>7. /\ \A s \in Ssrcs : TrackerOK(ks[s], s, A) /\ trackers[s].packets \subseteq ks[s].packets
      /\ \E u \in ks[o].packets : u % SeqSpan = v
  <2>1. /\ TrackerOK(ks[o], o, A) /\ trackers[o].packets \subseteq ks[o].packets
        /\ \E u \in ks[o].packets : u % SeqSpan = v
    <3>1. TrackerOK(trackers[o], o, A) /\ A \subseteq A
      BY <1>3, <1>4
    <3>2. /\ TrackerOK(ReceivedPacket(trackers[o], v), o, A)
          /\ trackers[o].packets \subseteq ReceivedPacket(trackers[o], v).packets
          /\ \E u \in ReceivedPacket(trackers[o], v).packets : u % SeqSpan = v
      BY <1>3, <1>6, <3>1, ReceivedOK, Zenon
    <3>3. ks[o] = ReceivedPacket(trackers[o], v)
      BY <1>5
    <3> QED BY <3>2, <3>3, Zenon
  <2>2. ASSUME NEW s \in Ssrcs, s # o
        PROVE  TrackerOK(ks[s], s, A) /\ trackers[s].packets \subseteq ks[s].packets
    <3>1. ks[s] = trackers[s]
      BY <1>5, <2>2
    <3> QED BY <1>4, <3>1, Zenon
  <2> QED BY <2>1, <2>2, Zenon
<1>8. /\ \A s \in Ssrcs : \A u \in ks[s].packets :
            <<s, u % SeqSpan>> \in DOMAIN r /\ r[<<s, u % SeqSpan>>]
      /\ \A key \in DOMAIN r : r[key] => \E q \in A : q.key = key
    BY <1>7, FeedbackIsTrue DEF r
<1>9. TrackerInv'
  <2>1. CASE due
    <3>1. \A s \in Ssrcs : TrackerOK(Cleared(ks[s]), s, A)
      BY <1>7, ClearedOK
    <3>2. trackers' = [s \in Ssrcs |-> Cleared(ks[s])]
      BY <1>2, <2>1
    <3>3. DOMAIN trackers' = Ssrcs /\ \A s \in Ssrcs : trackers'[s] = Cleared(ks[s])
      BY <3>2
    <3> QED BY <1>2, <3>1, <3>3, Zenon DEF TrackerInv
  <2>2. CASE ~due
    <3>1. trackers' = ks
      BY <1>2, <2>2
    <3> QED BY <1>2, <1>5, <1>7, <3>1, Zenon DEF TrackerInv
  <2> QED BY <2>1, <2>2
<1>10. ASSUME NEW q \in A
       PROVE  \/ \E x \in reports : q.key \in DOMAIN x /\ x[q.key]
              \/ \E u \in ks[q.key[1]].packets : u % SeqSpan = q.key[2]
  <2>1. CASE q = p
    BY <1>3, <1>7, <2>1 DEF o, v
  <2>2. CASE q \in arrived
    <3>1. q.key[1] \in Ssrcs
      BY <2>2 DEF SenderInv, TypeOK, Keys
    <3>2. \/ \E x \in reports : q.key \in DOMAIN x /\ x[q.key]
          \/ \E u \in trackers[q.key[1]].packets : u % SeqSpan = q.key[2]
      BY <2>2 DEF ArrivalsAreReported
    <3> QED BY <1>7, <3>1, <3>2
  <2> QED BY <2>1, <2>2 DEF A
<1>11. \A q \in A : q.key[1] \in Ssrcs /\ q.key = <<q.key[1], q.key[2]>>
    BY DEF A, SenderInv, TypeOK, Keys
<1>12. ArrivalsAreReported'
  <2>1. CASE due
    <3>1. reports' = reports \cup {r}
      BY <1>2, <2>1
    <3>2. ASSUME NEW q \in A PROVE \E x \in reports' : q.key \in DOMAIN x /\ x[q.key]
      <4>1. CASE \E x \in reports : q.key \in DOMAIN x /\ x[q.key]
        BY <3>1, <4>1
      <4>2. CASE \E u \in ks[q.key[1]].packets : u % SeqSpan = q.key[2]
        <5>1. PICK u \in ks[q.key[1]].packets : u % SeqSpan = q.key[2]
          BY <4>2
        <5>2. q.key[1] \in Ssrcs /\ q.key = <<q.key[1], u % SeqSpan>>
          BY <1>11, <5>1
        <5>3. /\ <<q.key[1], u % SeqSpan>> \in DOMAIN r
              /\ r[<<q.key[1], u % SeqSpan>>]
          BY <1>8, <5>2, Zenon
        <5>4. q.key \in DOMAIN r /\ r[q.key]
          BY <5>2, <5>3, Zenon
        <5> QED BY <3>1, <5>4
      <4> QED BY <1>10, <4>1, <4>2
    <3>3. ASSUME NEW x \in reports', NEW key \in DOMAIN x, x[key]
          PROVE  \E q \in A : q.key = key
      <4>1. CASE x = r
        BY <1>8, <3>3, <4>1
      <4>2. CASE x \in reports
        BY <1>6, <3>3, <4>2 DEF ArrivalsAreReported
      <4> QED BY <3>1, <4>1, <4>2
    <3> QED BY <1>2, <3>2, <3>3, Zenon DEF ArrivalsAreReported
  <2>2. CASE ~due
    <3>1. reports' = reports /\ trackers' = ks
      BY <1>2, <2>2
    <3>2. ASSUME NEW x \in reports, NEW key \in DOMAIN x, x[key]
          PROVE  \E q \in A : q.key = key
      BY <1>6, <3>2 DEF ArrivalsAreReported
    <3> QED BY <1>2, <1>10, <3>1, <3>2, Zenon DEF ArrivalsAreReported
  <2> QED BY <2>1, <2>2
<1> QED BY <1>9, <1>12

\* Its side that the sender's invariant sees: one more arrival.
LEMMA ReceiveInv == ASSUME SenderInv, OnReceivedPacket PROVE SenderInv'
<1>1. PICK p \in net : arrived' = arrived \cup {p}
    BY DEF OnReceivedPacket
<1>u. UNCHANGED <<transport_seq, queue, queued, ssrc_seq, sends, sending, unwrapper, history,
                  rtp_to_transport, in_flight, last_ack, net, sent, credited, twice,
                  shadowed, misrolled>>
    BY DEF OnReceivedPacket, pacer_vars, adapter_vars, ghosts
<1>b. Base' = Base /\ Out' = Out
    BY <1>u DEF Base, Out
<1>2. arrived' \subseteq net' /\ arrived \subseteq arrived'
    BY <1>1, <1>u DEF SenderInv, TypeOK
<1>3. TypeOK'
    BY <1>u, <1>b, <1>2 DEF SenderInv, TypeOK
<1>4. NumbersNear' /\ NumbersFresh' /\ MapsInverse' /\ FlightInv' /\ KeysBehind' /\ KeysOwned'
    BY <1>u, <1>b DEF SenderInv, NumbersNear, NumbersFresh, MapsInverse, FlightInv,
       Flight, KeysBehind, KeysOwned
<1>5. CreditInv'
    BY <1>u, <1>2 DEF SenderInv, CreditInv, CreditsAreTrue
<1> QED BY <1>3, <1>4, <1>5 DEF SenderInv

\* Nothing else touches the receiver.
LEMMA ReceiverKept ==
    ASSUME TrackerInv, ArrivalsAreReported, UNCHANGED receiver_vars
    PROVE  TrackerInv' /\ ArrivalsAreReported'
BY DEF TrackerInv, ArrivalsAreReported, receiver_vars

LEMMA StepInv == ASSUME IInv, [Next]_vars PROVE IInv'
<1> USE DEF IInv
<1>1. ASSUME NEW s \in Ssrcs, EnqueuePacket(s) PROVE IInv'
    BY <1>1, EnqueueInv, ReceiverKept DEF EnqueuePacket
<1>2. CASE SendPacket
    BY <1>2, SendInv, ReceiverKept DEF SendPacket
<1>3. CASE OnSentPacket
    BY <1>3, SentInv, ReceiverKept DEF OnSentPacket
<1>4. CASE RollbackPacketFeedback
    BY <1>4, RollbackInv, ReceiverKept DEF RollbackPacketFeedback
<1>5. CASE OnReceivedPacket
    BY <1>5, ReceiveInv, ReceiveTracks
<1>6. CASE ProcessCongestionControlFeedback
    BY <1>6, ProcessInv, ReceiverKept DEF ProcessCongestionControlFeedback
<1>7. CASE UNCHANGED vars
  <2>1. UNCHANGED <<transport_seq, queue, queued, ssrc_seq, sends, sending, unwrapper, history,
                    rtp_to_transport, in_flight, last_ack, net, arrived, sent, credited,
                    twice, shadowed, misrolled>>
    BY <1>7 DEF vars, pacer_vars, adapter_vars, receiver_vars, ghosts
  <2>2. UNCHANGED receiver_vars
    BY <1>7 DEF vars
  <2>3. Base' = Base /\ Out' = Out
    BY <2>1 DEF Base, Out
  <2>4. SenderInv'
    BY <2>1, <2>3 DEF SenderInv, TypeOK, NumbersNear, NumbersFresh, MapsInverse, FlightInv,
       Flight, KeysBehind, KeysOwned, CreditInv, CreditsAreTrue
  <2> QED BY <2>2, <2>4, ReceiverKept
<1> QED BY <1>1, <1>2, <1>3, <1>4, <1>5, <1>6, <1>7 DEF Next
-----------------------------------------------------------------------------
(* The initial states                                                        *)

\* At most one packet of a whole span ago is in the history.
LEMMA LeftIs ==
    ASSUME NEW left \in SUBSET Ssrcs, Cardinality(left) <= 1
    PROVE  \A s, r \in left : s = r
<1> SUFFICES ASSUME NEW s \in left, NEW r \in left, s # r PROVE FALSE
    OBVIOUS
<1>1. IsFiniteSet(left)
    BY SpanAssumption, FS_Subset
<1>2. IsFiniteSet(left \ {s}) /\ Cardinality(left \ {s}) = Cardinality(left) - 1
    BY <1>1, FS_RemoveElement
<1>3. Cardinality(left) \in Nat /\ Cardinality(left \ {s}) \in Nat
    BY <1>1, <1>2, FS_CardinalityType
<1>4. Cardinality(left \ {s}) = 0
    BY <1>2, <1>3
<1>5. left \ {s} = {}
    BY <1>2, <1>4, FS_EmptySet
<1> QED BY <1>5

LEMMA NoneLeft ==
    ASSUME NEW left \in SUBSET Ssrcs, Cardinality(left) <= 0
    PROVE  left = {}
<1>1. IsFiniteSet(left)
    BY SpanAssumption, FS_Subset
<1>2. Cardinality(left) \in Nat
    BY <1>1, FS_CardinalityType
<1> QED BY <1>1, <1>2, FS_EmptySet

\* The sender of a new connection, or of one that has been up for long.
LEMMA InitSender ==
    ASSUME Init,
           NEW left \in SUBSET Ssrcs, \A s, r \in left : s = r,
           NEW seq \in 0 .. SeqSpan - 1, NEW tsn \in Nat,
           left # {} => FirstSeq < tsn,
           transport_seq = tsn, last_ack = tsn - 1,
           unwrapper = <<tsn - 1>> \/ (unwrapper = <<>> /\ tsn = 0),
           ssrc_seq = [s \in Ssrcs |-> seq],
           history = [t \in {FirstSeq : s \in left} |->
                         [key |-> <<CHOOSE s \in left : TRUE, seq>>, created |-> 0]],
           rtp_to_transport = [k \in left \X {seq} |-> FirstSeq],
           sent = DOMAIN history
    PROVE  SenderInv
<1>1. /\ queue = {} /\ queued = 0 /\ sends = 0 /\ sending = <<>>
      /\ in_flight = 0 /\ net = {} /\ arrived = {}
      /\ credited = {} /\ twice = {} /\ misrolled = FALSE
    BY DEF Init
<1>2. FirstSeq \in Int /\ FirstSeq >= 0
    BY Span
<1>3. DOMAIN history \subseteq {FirstSeq} /\ \A t \in DOMAIN history : t < tsn
    BY <1>2
<1>4. IsFiniteSet(DOMAIN history) /\ IsFiniteSet(queue)
    BY <1>1, <1>3, FS_Singleton, FS_EmptySet, FS_Subset
<1>5. Base = tsn
    BY <1>1 DEF Base
<1>6. Out = {}
    BY <1>1 DEF Out, Range
<1>7. DOMAIN rtp_to_transport \subseteq Keys
    BY DEF Keys
<1>8. TypeOK
  <2>1. Known(sending, [tsn : Int, created : Int, key : Keys])
    BY <1>1 DEF Known
  <2>2. Known(unwrapper, Int)
    BY DEF Known
  <2>3. queue \subseteq [tsn : Int, ssrc : Ssrcs] /\ net \subseteq [tsn : Int, key : Keys]
    BY <1>1
  <2>4. sent \subseteq Int /\ IsFiniteSet(sent) /\ DOMAIN history \subseteq Int
    BY <1>2, <1>3, <1>4
  <2>5. ssrc_seq \in [Ssrcs -> 0 .. SeqSpan - 1]
    OBVIOUS
  <2>6. transport_seq \in Nat /\ queued \in 0 .. MaxPackets /\ Base \in Nat
    BY <1>1, <1>5, Span
  <2>7. sends \in Nat /\ in_flight \in Nat /\ last_ack \in Int
    BY <1>1
  <2>8. credited \subseteq Int /\ arrived \subseteq net /\ misrolled \in BOOLEAN
    BY <1>1
  <2> QED BY <1>4, <1>7, <2>1, <2>2, <2>3, <2>4, <2>5, <2>6, <2>7, <2>8, Zenon DEF TypeOK
<1>9. NumbersNear
    BY <1>1, <1>5 DEF NumbersNear
<1>10. NumbersFresh
  <2>1. Cardinality(queue) = 0
    BY <1>1, FS_EmptySet
  <2> QED BY <1>1, <1>3, <2>1 DEF NumbersFresh
<1>11. MapsInverse
  <2> SUFFICES ASSUME NEW k \in DOMAIN rtp_to_transport
               PROVE  /\ rtp_to_transport[k] \in DOMAIN history
                      /\ history[rtp_to_transport[k]].key = k
    BY DEF MapsInverse
  <2>1. PICK s \in left : k = <<s, seq>>
    OBVIOUS
  <2>2. (CHOOSE r \in left : TRUE) \in left
    BY <2>1, Zenon
  <2>3. (CHOOSE r \in left : TRUE) = s
    BY <2>1, <2>2
  <2>4. rtp_to_transport[k] = FirstSeq /\ FirstSeq \in DOMAIN history
    BY <2>1
  <2>5. history[FirstSeq] = [key |-> <<CHOOSE r \in left : TRUE, seq>>, created |-> 0]
    BY <2>4, Zenon
  <2> QED BY <2>1, <2>3, <2>4, <2>5
<1>12. KeysBehind /\ KeysOwned
    BY <1>6 DEF KeysBehind, KeysOwned
<1>13. FlightInv
  <2>1. \A t \in sent : t \in Int /\ t < tsn
    BY <1>2, <1>3
  <2>2. \A t \in sent : ~(t > tsn - 1)
    BY <2>1
  <2>3. Flight(sent) = {}
    BY <2>2, Zenon DEF Flight
  <2>4. Cardinality(Flight(sent)) = 0
    BY <2>3, FS_EmptySet
  <2>5. Flight(DOMAIN history) = Flight(sent)
    OBVIOUS
  <2> QED BY <1>1, <2>4, <2>5 DEF FlightInv
<1>14. CreditInv
    BY <1>1 DEF CreditInv, CreditsAreTrue
<1> QED BY <1>8, <1>9, <1>10, <1>11, <1>12, <1>13, <1>14 DEF SenderInv

LEMMA InitInv == Init => IInv
<1> SUFFICES ASSUME Init PROVE IInv
    OBVIOUS
<1>1. PICK steady \in BOOLEAN, left \in SUBSET Ssrcs :
         LET seq == IF steady THEN FirstSeq ELSE 1
             tsn == IF steady THEN SeqSpan + FirstSeq ELSE 0
             at(n) == IF steady THEN <<n>> ELSE <<>>
         IN  /\ Cardinality(left) <= IF steady THEN 1 ELSE 0
             /\ transport_seq = tsn /\ unwrapper = at(tsn - 1) /\ last_ack = tsn - 1
             /\ ssrc_seq = [s \in Ssrcs |-> seq]
             /\ history = [t \in {FirstSeq : s \in left} |->
                              [key |-> <<CHOOSE s \in left : TRUE, seq>>, created |-> 0]]
             /\ rtp_to_transport = [k \in left \X {seq} |-> FirstSeq]
             /\ sent = DOMAIN history
             /\ trackers = [s \in Ssrcs |-> [unwrapper |-> at(seq - 1), history |-> <<>>,
                                             last |-> at(seq - 1), packets |-> {}]]
    BY Zenon DEF Init
<1> DEFINE seq == IF steady THEN FirstSeq ELSE 1
           tsn == IF steady THEN SeqSpan + FirstSeq ELSE 0
           at(n) == IF steady THEN <<n>> ELSE <<>>
<1>2. /\ seq \in 0 .. SeqSpan - 1 /\ tsn \in Nat
      /\ at(tsn - 1) = <<tsn - 1>> \/ (at(tsn - 1) = <<>> /\ tsn = 0)
      /\ at(seq - 1) = <<seq - 1>> \/ at(seq - 1) = <<>>
      /\ steady => FirstSeq < tsn
    BY Span
<1>3. (\A s, r \in left : s = r) /\ (left # {} => FirstSeq < tsn)
  <2>1. CASE steady
    BY <1>1, <1>2, <2>1, LeftIs
  <2>2. CASE ~steady
    BY <1>1, <2>2, NoneLeft
  <2> QED BY <2>1, <2>2
<1>4. /\ transport_seq = tsn /\ unwrapper = at(tsn - 1) /\ last_ack = tsn - 1
      /\ ssrc_seq = [s \in Ssrcs |-> seq]
      /\ history = [t \in {FirstSeq : s \in left} |->
                      [key |-> <<CHOOSE s \in left : TRUE, seq>>, created |-> 0]]
      /\ rtp_to_transport = [k \in left \X {seq} |-> FirstSeq]
      /\ sent = DOMAIN history
      /\ trackers = [s \in Ssrcs |-> [unwrapper |-> at(seq - 1), history |-> <<>>,
                                      last |-> at(seq - 1), packets |-> {}]]
    BY <1>1, Zenon
<1>5. PICK a : a = at(seq - 1)
    OBVIOUS
<1>6. PICK b : b = at(tsn - 1)
    OBVIOUS
<1>7. (b = <<tsn - 1>> \/ (b = <<>> /\ tsn = 0)) /\ Known(a, Int)
  <2>1. a = <<seq - 1>> \/ a = <<>>
    BY <1>2, <1>5
  <2>2. seq - 1 \in Int
    BY <1>2
  <2> HIDE DEF seq
  <2>3. Known(a, Int)
    BY <2>1, <2>2 DEF Known
  <2> QED BY <1>2, <1>6, <2>3
<1>8. unwrapper = b
    BY <1>4, <1>6
<1>9. trackers = [s \in Ssrcs |-> [unwrapper |-> a, history |-> <<>>, last |-> a,
                                   packets |-> {}]]
    BY <1>4, <1>5
<1> HIDE DEF seq, tsn, at
<1>10. SenderInv
    BY <1>2, <1>3, <1>4, <1>7, <1>8, InitSender
<1>11. TrackerInv
  <2>1. ASSUME NEW s
        PROVE  TrackerOK([unwrapper |-> a, history |-> <<>>, last |-> a,
                          packets |-> {}], s, arrived)
    BY <1>7 DEF TrackerOK, Range
  <2> QED BY <1>9, <2>1 DEF TrackerInv
<1>12. ArrivalsAreReported
    BY DEF Init, ArrivalsAreReported
<1> QED BY <1>10, <1>11, <1>12 DEF IInv
-----------------------------------------------------------------------------
(* The theorems                                                              *)

\* The adapter's maps stay inverse to each other, RTP and transport numbers are
\* not confused, and the trackers hold only what they heard, whatever the span of
\* the numbers, the streams, and the order of sends, failures and reports.
THEOREM Invariance == Spec => []IInv
<1>1. IInv /\ [Next]_vars => IInv'
    BY StepInv
<1> QED BY <1>1, InitInv, PTL DEF Spec

\* TransportFeedbackAdapter's count of what is in flight is the packets sent
\* after the newest one reported on, unless a failed send was taken back after
\* a report had passed it or while another packet held its RTP number.
THEOREM InFlight == Spec => []InFlightIsExact
<1>1. IInv => InFlightIsExact
    BY DEF IInv, SenderInv, FlightInv, Flight, InFlightIsExact
<1> QED BY <1>1, Invariance, PTL

\* ProcessCongestionControlFeedback hands the estimator a packet at most once,
\* and only one that arrived or whose RTP number was used again.
THEOREM Credits == Spec => []CreditsAreTrue
<1>1. IInv => CreditsAreTrue
    BY DEF IInv, SenderInv, CreditInv
<1> QED BY <1>1, Invariance, PTL

\* The feedback generator reports every arrival as received, however late or
\* often it came, and nothing that did not arrive.
THEOREM Arrivals == Spec => []ArrivalsAreReported
<1>1. IInv => ArrivalsAreReported
    BY DEF IInv
<1> QED BY <1>1, Invariance, PTL
-----------------------------------------------------------------------------
(* Probing                                                                   *)

Whys == {"initial", "further", "recovery", "alr"}
Requests == [rate : Int, why : Whys, of : Nat]

ProbeControllers ==
    [state : {"init", "waiting", "complete"}, available : BOOLEAN, repeated : BOOLEAN,
     periodic : BOOLEAN, age : Int, last_allowed : Int, min_further : Int, estimated : Nat,
     start : Nat, cause : Causes, alr : Int, alr_end : Int, since_drop : Int,
     before_drop : Nat, since_request : Int, sent : SUBSET Requests]

\* A controller probes, or waits for a result, only while it has a network.
ProberIsReady(p) == p \in ProbeControllers /\ (p.state # "init" => p.available)

\* What a relay allows, but for the return to the rate before a drop.
Mild(s, relay) == s.rate <= MaxRate /\ (relay => s.rate <= Most(4 * RelayStart, 2 * s.of))
AllMild(p, relay) == \A s \in p.sent : p.available /\ Mild(s, relay)

\* The starting rate is that of the path, once there is one.
StartOK(p) ==
    /\ initial_config => p.start = 0
    /\ ~initial_config /\ relay_path => p.start = RelayStart

ProbingTypes ==
    /\ {network_available, relay_path, initial_config} \subseteq BOOLEAN
    /\ bwe \in [target : Nat, cause : Causes] /\ detector \in Int

ProbingInv ==
    /\ ProbingTypes /\ ProberIsReady(probe_controller)
    /\ probe_controller.available = network_available
    /\ StartOK(probe_controller)
    /\ ProbesAreRestrained

LEMMA ProbingConstants ==
    /\ kMaxWaitingTimeForProbingResult \in Nat /\ kBitrateDropTimeout \in Nat
    /\ kAlrEndedTimeout \in Nat /\ kMinTimeBetweenAlrProbes \in Nat
    /\ DirectRepeatPeriod \in Nat /\ RelayRepeatPeriod \in Nat
    /\ DirectAlrInterval \in Nat /\ RelayAlrInterval \in Nat
    /\ DirectStart \in Nat /\ RelayStart \in Nat /\ MaxRate \in Nat /\ Rates \subseteq Nat
BY ProbingAssumption

LEMMA AgesAre == Old \in Int /\ Timeless \in Int /\ Forever \in Int /\ Unlimited \in Int
<1>1. Old \in Int
    BY ProbingConstants DEF Old, Most
<1> QED BY <1>1, ProbingConstants DEF Timeless, Forever, Unlimited

LEMMA ScaledIs ==
    ASSUME NEW r \in Nat
    PROVE  /\ Scaled(r, 400) = 4 * r /\ Scaled(r, 200) = 2 * r /\ Scaled(r, 300) = 3 * r
           /\ Scaled(r, 600) = 6 * r
           /\ Scaled(r, 150) \in Nat /\ Scaled(r, 150) <= 2 * r
           /\ Scaled(r, 125) \in Nat /\ Scaled(r, 70) \in Nat
           /\ Scaled(r, 85) \in Nat /\ Scaled(r, 85) <= r /\ Scaled(r, 95) \in Nat
BY DEF Scaled

\* The profile of a handler, with what it makes of a rate.
Profile(cfg, relay) ==
    /\ cfg = Config(relay) /\ cfg.start \in Nat /\ cfg.repeat \in Nat /\ cfg.interval \in Nat
    /\ relay => cfg.start = RelayStart
    /\ \A r \in Nat :
          /\ Scaled(r, cfg.first) \in Nat /\ Scaled(r, cfg.second) \in Nat
          /\ Scaled(r, cfg.further) \in Nat /\ Scaled(r, cfg.threshold) \in Nat
          /\ Scaled(r, cfg.alr) \in Nat /\ Scaled(r, cfg.loss_limited) \in Nat
          /\ relay => /\ Scaled(r, cfg.first) <= 2 * r /\ Scaled(r, cfg.second) <= 4 * r
                      /\ Scaled(r, cfg.further) <= 2 * r /\ Scaled(r, cfg.alr) <= 2 * r

LEMMA ConfigIs ==
    ASSUME NEW relay \in BOOLEAN, NEW cfg, cfg = Config(relay)
    PROVE  Profile(cfg, relay)
<1>1. CASE relay
  <2>1. /\ cfg.first = 200 /\ cfg.second = 400 /\ cfg.further = 150 /\ cfg.threshold = 85
        /\ cfg.alr = 150 /\ cfg.loss_limited = 125 /\ cfg.start = RelayStart
        /\ cfg.repeat = RelayRepeatPeriod /\ cfg.interval = RelayAlrInterval
    BY <1>1 DEF Config, RelayConfig
  <2>2. ASSUME NEW r \in Nat
        PROVE  /\ Scaled(r, cfg.first) \in Nat /\ Scaled(r, cfg.second) \in Nat
               /\ Scaled(r, cfg.further) \in Nat /\ Scaled(r, cfg.threshold) \in Nat
               /\ Scaled(r, cfg.alr) \in Nat /\ Scaled(r, cfg.loss_limited) \in Nat
               /\ Scaled(r, cfg.first) <= 2 * r /\ Scaled(r, cfg.second) <= 4 * r
               /\ Scaled(r, cfg.further) <= 2 * r /\ Scaled(r, cfg.alr) <= 2 * r
    <3>1. /\ Scaled(r, 400) = 4 * r /\ Scaled(r, 200) = 2 * r /\ Scaled(r, 300) = 3 * r
          /\ Scaled(r, 600) = 6 * r
          /\ Scaled(r, 150) \in Nat /\ Scaled(r, 150) <= 2 * r
          /\ Scaled(r, 125) \in Nat /\ Scaled(r, 70) \in Nat /\ Scaled(r, 85) \in Nat
      BY ScaledIs
    <3>2. /\ Scaled(r, cfg.first) = 2 * r /\ Scaled(r, cfg.second) = 4 * r
          /\ Scaled(r, cfg.further) = Scaled(r, 150) /\ Scaled(r, cfg.threshold) = Scaled(r, 85)
          /\ Scaled(r, cfg.alr) = Scaled(r, 150) /\ Scaled(r, cfg.loss_limited) = Scaled(r, 125)
      BY <2>1, <3>1
    <3> QED BY <3>1, <3>2
  <2>3. \A r \in Nat :
          /\ Scaled(r, cfg.first) \in Nat /\ Scaled(r, cfg.second) \in Nat
          /\ Scaled(r, cfg.further) \in Nat /\ Scaled(r, cfg.threshold) \in Nat
          /\ Scaled(r, cfg.alr) \in Nat /\ Scaled(r, cfg.loss_limited) \in Nat
          /\ relay => /\ Scaled(r, cfg.first) <= 2 * r /\ Scaled(r, cfg.second) <= 4 * r
                      /\ Scaled(r, cfg.further) <= 2 * r /\ Scaled(r, cfg.alr) <= 2 * r
    BY <2>2, Zenon
  <2>4. cfg.start \in Nat /\ cfg.repeat \in Nat /\ cfg.interval \in Nat
    BY <2>1, ProbingConstants
  <2> QED BY <2>1, <2>3, <2>4, Zenon DEF Profile
<1>2. CASE ~relay
  <2>1. /\ cfg.first = 300 /\ cfg.second = 600 /\ cfg.further = 200 /\ cfg.threshold = 70
        /\ cfg.alr = 200 /\ cfg.loss_limited = 150 /\ cfg.start = DirectStart
        /\ cfg.repeat = DirectRepeatPeriod /\ cfg.interval = DirectAlrInterval
    BY <1>2 DEF Config, DirectConfig
  <2>2. ASSUME NEW r \in Nat
        PROVE  /\ Scaled(r, cfg.first) \in Nat /\ Scaled(r, cfg.second) \in Nat
               /\ Scaled(r, cfg.further) \in Nat /\ Scaled(r, cfg.threshold) \in Nat
               /\ Scaled(r, cfg.alr) \in Nat /\ Scaled(r, cfg.loss_limited) \in Nat
    <3>1. /\ Scaled(r, 400) = 4 * r /\ Scaled(r, 200) = 2 * r /\ Scaled(r, 300) = 3 * r
          /\ Scaled(r, 600) = 6 * r
          /\ Scaled(r, 150) \in Nat /\ Scaled(r, 150) <= 2 * r
          /\ Scaled(r, 125) \in Nat /\ Scaled(r, 70) \in Nat /\ Scaled(r, 85) \in Nat
      BY ScaledIs
    <3> QED BY <2>1, <3>1
  <2> QED BY <1>2, <2>1, <2>2, ProbingConstants DEF Profile
<1> QED BY <1>1, <1>2

LEMMA ControllerFields ==
    ASSUME NEW p \in ProbeControllers
    PROVE  /\ p.available \in BOOLEAN /\ p.estimated \in Nat /\ p.start \in Nat
           /\ p.before_drop \in Nat /\ p.cause \in Causes /\ p.sent \in SUBSET Requests
           /\ p.age \in Int /\ p.last_allowed \in Int /\ p.min_further \in Int
           /\ p.alr \in Int /\ p.alr_end \in Int /\ p.since_drop \in Int /\ p.since_request \in Int
BY DEF ProbeControllers

\* What probing leaves alone.
SamePath(p, e) ==
    /\ e.available = p.available /\ e.start = p.start
    /\ e.estimated = p.estimated /\ e.before_drop = p.before_drop

\* No request is above the maximum, or above the rate it was made for.
Requested(p, e, rates, why) ==
    \A s \in e.sent : \/ s \in p.sent
                       \/ /\ s.of = p.estimated /\ s.why = why /\ s.rate <= MaxRate
                          /\ \E i \in DOMAIN rates : s.rate <= rates[i]

LEMMA Initiated ==
    ASSUME NEW p, ProberIsReady(p), p.available, NEW relay \in BOOLEAN, NEW cfg, Profile(cfg, relay),
           NEW age \in Int, NEW rates \in Seq(Nat), rates # <<>>, NEW probe_further \in BOOLEAN,
           NEW why \in Whys, NEW e, e = InitiateProbing(p, cfg, age, rates, probe_further, why)
    PROVE  ProberIsReady(e) /\ SamePath(p, e) /\ Requested(p, e, rates, why)
<1>0. p \in ProbeControllers /\ p.estimated \in Nat /\ p.sent \in SUBSET Requests
    BY ControllerFields DEF ProberIsReady
<1>1. CASE p.cause = "Limited"
  <2>1. e = p
    BY <1>1 DEF InitiateProbing
  <2> QED BY <2>1 DEF SamePath, Requested
<1>2. CASE p.cause # "Limited"
  <2>1. PICK top \in Nat : /\ top = IF p.cause = "LossLimitedBweIncreasing"
                                    THEN Least(MaxRate, Scaled(p.estimated, cfg.loss_limited))
                                    ELSE MaxRate
                           /\ top <= MaxRate
    <3>1. Scaled(p.estimated, cfg.loss_limited) \in Nat
      BY <1>0, Zenon DEF Profile
    <3> QED BY <3>1, ProbingConstants DEF Least
  <2>2. PICK capped : capped = [i \in DOMAIN rates |-> Least(rates[i], top)]
    OBVIOUS
  <2>3. \A i \in DOMAIN rates : /\ capped[i] \in Nat /\ capped[i] <= rates[i] /\ capped[i] <= MaxRate
    BY <2>1, <2>2, ProbingConstants DEF Least
  <2> DEFINE further == probe_further /\ \A i \in DOMAIN rates : rates[i] < top
  <2>4. PICK m \in Int : m = IF further THEN Scaled(capped[Len(rates)], cfg.threshold) ELSE Unlimited
    <3>1. Len(rates) \in DOMAIN rates
      OBVIOUS
    <3>2. Scaled(capped[Len(rates)], cfg.threshold) \in Nat
      BY <2>3, <3>1 DEF Profile
    <3> QED BY <3>2, AgesAre
  <2>5. PICK st \in {"waiting", "complete"} : st = IF further THEN "waiting" ELSE "complete"
    OBVIOUS
  <2>6. PICK S : S = p.sent \cup {[rate |-> capped[i], why |-> why, of |-> p.estimated] : i \in DOMAIN rates}
    OBVIOUS
  <2>7. e = [p EXCEPT !.sent = S, !.age = age, !.state = st, !.min_further = m]
    BY <1>2, <2>1, <2>2, <2>4, <2>5, <2>6 DEF InitiateProbing
  <2> HIDE DEF further
  <2>8. ASSUME NEW s \in S
        PROVE  /\ s \in Requests
               /\ \/ s \in p.sent
                  \/ /\ s.of = p.estimated /\ s.why = why /\ s.rate <= MaxRate
                     /\ \E i \in DOMAIN rates : s.rate <= rates[i]
    <3>1. CASE s \in p.sent
      BY <1>0, <3>1
    <3>2. CASE s \notin p.sent
      <4>1. PICK i \in DOMAIN rates : s = [rate |-> capped[i], why |-> why, of |-> p.estimated]
        BY <2>6, <3>2
      <4>2. capped[i] \in Int /\ capped[i] <= rates[i] /\ capped[i] <= MaxRate
        BY <2>3
      <4>3. s \in Requests /\ s.of = p.estimated /\ s.why = why /\ s.rate = capped[i]
        BY <1>0, <4>1, <4>2 DEF Requests
      <4> QED BY <4>2, <4>3
    <3> QED BY <3>1, <3>2
  <2>9. S \in SUBSET Requests
    BY <2>8
  <2>10. e \in ProbeControllers
    BY <1>0, <2>5, <2>7, <2>9 DEF ProbeControllers
  <2>11. SamePath(p, e) /\ e.sent = S
    BY <1>0, <2>7 DEF ProbeControllers, SamePath
  <2>12. Requested(p, e, rates, why)
    BY <2>8, <2>11 DEF Requested
  <2> QED BY <2>10, <2>11, <2>12 DEF ProberIsReady, SamePath
<1> QED BY <1>1, <1>2

LEMMA MildProbing ==
    ASSUME NEW p, ProberIsReady(p), p.available, NEW relay \in BOOLEAN, NEW cfg, Profile(cfg, relay),
           AllMild(p, relay),
           NEW age \in Int, NEW rates \in Seq(Nat), rates # <<>>, NEW probe_further \in BOOLEAN,
           NEW why \in Whys, NEW e, e = InitiateProbing(p, cfg, age, rates, probe_further, why),
           relay => \A i \in DOMAIN rates : rates[i] <= Most(4 * RelayStart, 2 * p.estimated)
    PROVE  ProberIsReady(e) /\ SamePath(p, e) /\ AllMild(e, relay)
<1>1. ProberIsReady(e) /\ SamePath(p, e) /\ Requested(p, e, rates, why)
    BY Initiated
<1>2. e.sent \in SUBSET Requests /\ p.estimated \in Nat
    BY <1>1, ControllerFields DEF ProberIsReady
<1>3. PICK m \in Nat : m = Most(4 * RelayStart, 2 * p.estimated)
    BY <1>2, ProbingConstants DEF Most
<1>4. ASSUME NEW s \in e.sent PROVE Mild(s, relay)
  <2>1. CASE s \in p.sent
    BY <2>1 DEF AllMild
  <2>2. CASE s \notin p.sent
    <3>1. PICK i \in DOMAIN rates : s.of = p.estimated /\ s.rate <= MaxRate /\ s.rate <= rates[i]
      BY <1>1, <2>2 DEF Requested
    <3>2. s.rate \in Int /\ rates[i] \in Nat
      BY <1>2 DEF Requests
    <3>3. relay => s.rate <= m
      BY <1>3, <3>1, <3>2
    <3> QED BY <1>3, <3>1, <3>3 DEF Mild
  <2> QED BY <2>1, <2>2
<1> QED BY <1>1, <1>4 DEF AllMild, SamePath

SameStart(p, e) == e.available = p.available /\ e.start = p.start

LEMMA ExponentialIsMild ==
    ASSUME NEW p, ProberIsReady(p), p.available, NEW relay \in BOOLEAN, NEW cfg, Profile(cfg, relay),
           AllMild(p, relay), relay => p.start = RelayStart, NEW age \in Int,
           NEW e, e = InitiateExponentialProbing(p, cfg, age)
    PROVE  ProberIsReady(e) /\ SameStart(p, e) /\ AllMild(e, relay)
<1>0. p \in ProbeControllers /\ p.start \in Nat /\ p.estimated \in Nat /\ p.last_allowed \in Int
    BY ControllerFields DEF ProberIsReady
<1>1. PICK x \in Int : x = IF ~p.repeated THEN p.last_allowed
                           ELSE IF age = Timeless THEN Forever ELSE cfg.repeat
  <2>1. cfg.repeat \in Int
    BY DEF Profile
  <2> QED BY <1>0, <2>1, AgesAre
<1>2. PICK q : q = [p EXCEPT !.last_allowed = x]
    OBVIOUS
<1>3. /\ q \in ProbeControllers /\ q.state = p.state /\ q.available = p.available
      /\ q.start = p.start /\ q.estimated = p.estimated /\ q.sent = p.sent
    BY <1>0, <1>2 DEF ProbeControllers
<1>4. ProberIsReady(q) /\ q.available /\ AllMild(q, relay)
    BY <1>3 DEF ProberIsReady, AllMild
<1>5. PICK a \in Nat, b \in Nat : a = Scaled(p.start, cfg.first) /\ b = Scaled(p.start, cfg.second)
                                  /\ (relay => a <= 2 * p.start /\ b <= 4 * p.start)
  <2>1. Scaled(p.start, cfg.first) \in Nat /\ Scaled(p.start, cfg.second) \in Nat
    BY <1>0, Zenon DEF Profile
  <2>2. relay => Scaled(p.start, cfg.first) <= 2 * p.start /\ Scaled(p.start, cfg.second) <= 4 * p.start
    BY <1>0, Zenon DEF Profile
  <2> QED BY <2>1, <2>2
<1>6. PICK rates : rates = <<a, b>>
    OBVIOUS
<1>7. rates \in Seq(Nat) /\ rates # <<>> /\ DOMAIN rates = {1, 2} /\ rates[1] = a /\ rates[2] = b
    BY <1>6
<1>8. e = InitiateProbing(q, cfg, age, rates, TRUE, "initial")
    BY <1>1, <1>2, <1>3, <1>5, <1>6 DEF InitiateExponentialProbing
<1>9. PICK m \in Nat : m = Most(4 * RelayStart, 2 * q.estimated) /\ m >= 4 * RelayStart
    BY <1>0, <1>3, ProbingConstants DEF Most
<1>10. relay => \A i \in DOMAIN rates : rates[i] <= m
  <2>1. relay => a <= m /\ b <= m
    BY <1>0, <1>5, <1>9, ProbingConstants
  <2> QED BY <1>7, <2>1
<1>11. ProberIsReady(e) /\ SamePath(q, e) /\ AllMild(e, relay)
  <2>1. relay => \A i \in DOMAIN rates : rates[i] <= Most(4 * RelayStart, 2 * q.estimated)
    BY <1>9, <1>10
  <2>2. TRUE \in BOOLEAN /\ "initial" \in Whys
    BY DEF Whys
  <2> QED BY <1>4, <1>7, <1>8, <2>1, <2>2, MildProbing, Zenon
<1> QED BY <1>3, <1>11 DEF SamePath, SameStart

LEMMA BitratesSet ==
    ASSUME NEW p, ProberIsReady(p), NEW relay \in BOOLEAN, NEW cfg, Profile(cfg, relay),
           AllMild(p, relay), NEW age \in Int, NEW e, e = SetBitrates(p, cfg, cfg.start, age)
    PROVE  ProberIsReady(e) /\ AllMild(e, relay) /\ e.available = p.available /\ e.start = cfg.start
<1>0. p \in ProbeControllers /\ cfg.start \in Nat /\ (relay => cfg.start = RelayStart)
    BY DEF ProberIsReady, Profile
<1>1. PICK q : q = [p EXCEPT !.start = cfg.start, !.estimated = cfg.start]
    OBVIOUS
<1>2. /\ q \in ProbeControllers /\ q.state = p.state /\ q.available = p.available
      /\ q.start = cfg.start /\ q.sent = p.sent
    BY <1>0, <1>1 DEF ProbeControllers
<1>3. ProberIsReady(q) /\ AllMild(q, relay)
    BY <1>2 DEF ProberIsReady, AllMild
<1>4. CASE q.state = "init" /\ q.available
  <2>1. e = InitiateExponentialProbing(q, cfg, age)
    BY <1>1, <1>4 DEF SetBitrates
  <2>2. ProberIsReady(e) /\ SameStart(q, e) /\ AllMild(e, relay)
    BY <1>0, <1>2, <1>3, <1>4, <2>1, ExponentialIsMild
  <2> QED BY <1>2, <2>2 DEF SameStart
<1>5. CASE ~(q.state = "init" /\ q.available)
  <2>1. e = q
    BY <1>1, <1>5 DEF SetBitrates
  <2> QED BY <1>2, <1>3, <2>1
<1> QED BY <1>4, <1>5

IsReset(q, e) ==
    /\ e \in ProbeControllers /\ e.state = "init" /\ e.available = q.available
    /\ e.start = q.start /\ e.sent = q.sent

LEMMA ResetIs ==
    ASSUME NEW q \in ProbeControllers, NEW u \in Int, NEW e,
           e = [q EXCEPT !.state = "init", !.min_further = u, !.last_allowed = 0]
    PROVE  IsReset(q, e)
<1>1. PICK x \in {"init"} : x = "init"
    OBVIOUS
<1>2. PICK z \in Int : z = 0
    OBVIOUS
<1>3. e = [q EXCEPT !.state = x, !.min_further = u, !.last_allowed = z]
    BY <1>1, <1>2
<1>4. e \in ProbeControllers
    BY <1>3 DEF ProbeControllers
<1>5. e.state = x /\ e.available = q.available /\ e.start = q.start /\ e.sent = q.sent
    BY <1>3 DEF ProbeControllers
<1> QED BY <1>1, <1>4, <1>5 DEF IsReset

LEMMA AvailabilitySet ==
    ASSUME NEW p, ProberIsReady(p), p.sent = {}, NEW relay \in BOOLEAN, NEW cfg, Profile(cfg, relay),
           relay /\ p.start # 0 => p.start = RelayStart, NEW available \in BOOLEAN,
           NEW e, e = ProbeOnNetworkAvailability(p, cfg, available)
    PROVE  ProberIsReady(e) /\ AllMild(e, relay) /\ e.available = available /\ e.start = p.start
<1>0. p \in ProbeControllers
    BY DEF ProberIsReady
<1>1. PICK q : q = [p EXCEPT !.available = available]
    OBVIOUS
<1>2. /\ q \in ProbeControllers /\ q.state = p.state /\ q.available = available
      /\ q.start = p.start /\ q.sent = {}
    BY <1>0, <1>1 DEF ProbeControllers
<1>3. CASE ~available
  <2>1. e = [q EXCEPT !.state = "init", !.min_further = Unlimited, !.last_allowed = 0]
    BY <1>1, <1>3 DEF ProbeOnNetworkAvailability
  <2>2. IsReset(q, e)
    <3>1. q \in ProbeControllers
      BY <1>2
    <3>2. Unlimited \in Int
      BY AgesAre
    <3> QED BY <2>1, <3>1, <3>2, ResetIs, Zenon
  <2> QED BY <1>2, <2>2 DEF IsReset, ProberIsReady, AllMild
<1>4. CASE available /\ ~p.available /\ q.state = "init" /\ q.start # 0
  <2>1. e = InitiateExponentialProbing(q, cfg, 0)
    BY <1>1, <1>4 DEF ProbeOnNetworkAvailability
  <2>2. ProberIsReady(q) /\ AllMild(q, relay) /\ q.available /\ (relay => q.start = RelayStart)
    BY <1>2, <1>4 DEF ProberIsReady, AllMild
  <2>3. ProberIsReady(e) /\ SameStart(q, e) /\ AllMild(e, relay)
    BY <2>1, <2>2, ExponentialIsMild
  <2> QED BY <1>2, <2>3 DEF SameStart
<1>5. CASE available /\ ~(~p.available /\ q.state = "init" /\ q.start # 0)
  <2>1. e = q
    BY <1>1, <1>5 DEF ProbeOnNetworkAvailability
  <2> QED BY <1>2, <1>5, <2>1 DEF ProberIsReady, AllMild
<1> QED BY <1>3, <1>4, <1>5

\* One rate, as further, repeated and application limited probes have it.
LEMMA OneMildRate ==
    ASSUME NEW p, ProberIsReady(p), p.available, NEW relay \in BOOLEAN, NEW cfg, Profile(cfg, relay),
           AllMild(p, relay), NEW r \in Nat, relay => r <= 2 * p.estimated, NEW why \in Whys,
           NEW e, e = InitiateProbing(p, cfg, 0, <<r>>, TRUE, why)
    PROVE  ProberIsReady(e) /\ SameStart(p, e) /\ AllMild(e, relay)
<1>0. p.estimated \in Nat
    BY ControllerFields DEF ProberIsReady
<1>1. PICK rates : rates = <<r>>
    OBVIOUS
<1>2. rates \in Seq(Nat) /\ rates # <<>> /\ \A i \in DOMAIN rates : rates[i] = r
    BY <1>1
<1>3. PICK m \in Nat : m = Most(4 * RelayStart, 2 * p.estimated) /\ m >= 2 * p.estimated
    BY <1>0, ProbingConstants DEF Most
<1>4. relay => \A i \in DOMAIN rates : rates[i] <= m
    BY <1>0, <1>2, <1>3
<1>5. ProberIsReady(e) /\ SamePath(p, e) /\ AllMild(e, relay)
  <2>1. relay => \A i \in DOMAIN rates : rates[i] <= Most(4 * RelayStart, 2 * p.estimated)
    BY <1>3, <1>4
  <2>2. TRUE \in BOOLEAN /\ 0 \in Int /\ e = InitiateProbing(p, cfg, 0, rates, TRUE, why)
    BY <1>1
  <2> QED BY <1>2, <2>1, <2>2, MildProbing, Zenon
<1> QED BY <1>5 DEF SamePath, SameStart

LEMMA EstimateSet ==
    ASSUME NEW p, ProberIsReady(p), NEW relay \in BOOLEAN, NEW cfg, Profile(cfg, relay),
           AllMild(p, relay), NEW rate \in Nat, NEW cause \in Causes,
           NEW e, e = SetEstimatedBitrate(p, cfg, rate, cause)
    PROVE  ProberIsReady(e) /\ SameStart(p, e) /\ AllMild(e, relay)
<1>0. p \in ProbeControllers /\ p.estimated \in Nat /\ p.before_drop \in Nat /\ p.since_drop \in Int
    BY ControllerFields DEF ProberIsReady
<1> DEFINE drop == rate * 100 < 66 * p.estimated
<1>1. PICK x \in Int, y \in Nat : /\ x = IF drop THEN 0 ELSE p.since_drop
                                  /\ y = IF drop THEN p.estimated ELSE p.before_drop
    BY <1>0
<1>2. PICK q : q = [p EXCEPT !.cause = cause, !.estimated = rate, !.since_drop = x, !.before_drop = y]
    OBVIOUS
<1>3. /\ q \in ProbeControllers /\ q.state = p.state /\ q.available = p.available
      /\ q.start = p.start /\ q.sent = p.sent /\ q.estimated = rate
    BY <1>0, <1>2 DEF ProbeControllers
<1>4. ProberIsReady(q) /\ AllMild(q, relay) /\ SameStart(p, q)
    BY <1>3 DEF ProberIsReady, AllMild, SameStart
<1>5. e = IF q.state = "waiting" /\ rate > q.min_further
          THEN InitiateProbing(q, cfg, 0, <<Scaled(rate, cfg.further)>>, TRUE, "further") ELSE q
    BY <1>1, <1>2 DEF SetEstimatedBitrate
<1>6. CASE q.state = "waiting" /\ rate > q.min_further
  <2>1. PICK r : r = Scaled(rate, cfg.further)
    OBVIOUS
  <2>2. r \in Nat /\ (relay => r <= 2 * q.estimated)
    BY <1>3, <2>1, Zenon DEF Profile
  <2>3. q.available
    BY <1>4, <1>6 DEF ProberIsReady
  <2>4. e = InitiateProbing(q, cfg, 0, <<r>>, TRUE, "further")
    BY <1>5, <1>6, <2>1
  <2>a. "further" \in Whys
    BY DEF Whys
  <2>5. ProberIsReady(e) /\ SameStart(q, e) /\ AllMild(e, relay)
    BY <1>4, <2>2, <2>3, <2>4, <2>a, OneMildRate, Zenon
  <2> QED BY <1>4, <2>5 DEF SameStart
<1>7. CASE ~(q.state = "waiting" /\ rate > q.min_further)
  <2>1. e = q
    BY <1>5, <1>7
  <2> QED BY <1>4, <2>1
<1> QED BY <1>6, <1>7

LEMMA Processed ==
    ASSUME NEW p, ProberIsReady(p), NEW relay \in BOOLEAN, NEW cfg, Profile(cfg, relay),
           AllMild(p, relay), NEW e, e = Process(p, cfg)
    PROVE  ProberIsReady(e) /\ SameStart(p, e) /\ AllMild(e, relay)
<1>0. p \in ProbeControllers
    BY DEF ProberIsReady
<1>1. PICK q : q = TimedOut(p)
    OBVIOUS
<1>2. /\ ProberIsReady(q) /\ AllMild(q, relay) /\ SameStart(p, q)
  <2>1. CASE p.state = "waiting" /\ p.age > kMaxWaitingTimeForProbingResult
    <3>1. q = [p EXCEPT !.state = "complete", !.min_further = Unlimited]
      BY <1>1, <2>1 DEF TimedOut
    <3>2. /\ q \in ProbeControllers /\ q.available = p.available /\ q.start = p.start /\ q.sent = p.sent
      BY <1>0, <3>1, AgesAre DEF ProbeControllers
    <3> QED BY <2>1, <3>2 DEF ProberIsReady, AllMild, SameStart
  <2>2. CASE ~(p.state = "waiting" /\ p.age > kMaxWaitingTimeForProbingResult)
    <3>1. q = p
      BY <1>1, <2>2 DEF TimedOut
    <3> QED BY <3>1 DEF SameStart
  <2> QED BY <2>1, <2>2
<1>3. q.estimated \in Nat
    BY <1>2, ControllerFields DEF ProberIsReady
<1>4. CASE q.estimated = 0 \/ q.state # "complete"
  <2>1. e = q
    BY <1>1, <1>4 DEF Process
  <2> QED BY <1>2, <2>1
<1>5. CASE ~(q.estimated = 0 \/ q.state # "complete") /\ TimeForNextRepeatedInitialProbe(q)
  <2>1. PICK r : r = Scaled(q.estimated, cfg.first)
    OBVIOUS
  <2>2. r \in Nat /\ (relay => r <= 2 * q.estimated)
    BY <1>3, <2>1, Zenon DEF Profile
  <2>3. e = InitiateProbing(q, cfg, 0, <<r>>, TRUE, "initial")
    BY <1>1, <1>5, <2>1 DEF Process
  <2>4. q.available
    BY <1>2, <1>5 DEF ProberIsReady
  <2>5. ProberIsReady(e) /\ SameStart(q, e) /\ AllMild(e, relay)
    <3>1. "initial" \in Whys
      BY DEF Whys
    <3> QED BY <1>2, <2>2, <2>3, <2>4, <3>1, OneMildRate, Zenon
  <2> QED BY <1>2, <2>5 DEF SameStart
<1>6. CASE /\ ~(q.estimated = 0 \/ q.state # "complete") /\ ~TimeForNextRepeatedInitialProbe(q)
           /\ TimeForAlrProbe(q, cfg)
  <2>1. PICK r : r = Scaled(q.estimated, cfg.alr)
    OBVIOUS
  <2>2. r \in Nat /\ (relay => r <= 2 * q.estimated)
    BY <1>3, <2>1, Zenon DEF Profile
  <2>3. e = InitiateProbing(q, cfg, 0, <<r>>, TRUE, "alr")
    BY <1>1, <1>6, <2>1 DEF Process
  <2>4. q.available
    BY <1>2, <1>6 DEF ProberIsReady
  <2>5. ProberIsReady(e) /\ SameStart(q, e) /\ AllMild(e, relay)
    <3>1. "alr" \in Whys
      BY DEF Whys
    <3> QED BY <1>2, <2>2, <2>3, <2>4, <3>1, OneMildRate, Zenon
  <2> QED BY <1>2, <2>5 DEF SameStart
<1>7. CASE /\ ~(q.estimated = 0 \/ q.state # "complete") /\ ~TimeForNextRepeatedInitialProbe(q)
           /\ ~TimeForAlrProbe(q, cfg)
  <2>1. e = q
    BY <1>1, <1>7 DEF Process
  <2> QED BY <1>2, <2>1
<1> QED BY <1>4, <1>5, <1>6, <1>7

\* What a step may leave in sent: mild requests, and one back to a lost rate.
Restrained(p, relay) ==
    \A s \in p.sent :
        /\ p.available /\ s.rate <= MaxRate
        /\ Mild(s, relay) \/ (s.why = "recovery" /\ s.rate <= p.before_drop)

LEMMA MildIsRestrained ==
    ASSUME NEW p, NEW relay, AllMild(p, relay)
    PROVE  Restrained(p, relay)
BY DEF AllMild, Restrained, Mild

LEMMA ProbeRequested ==
    ASSUME NEW p, ProberIsReady(p), NEW relay \in BOOLEAN, NEW cfg, Profile(cfg, relay),
           AllMild(p, relay), NEW e, e = RequestProbe(p, cfg)
    PROVE  ProberIsReady(e) /\ SameStart(p, e) /\ Restrained(e, relay)
<1>0. p \in ProbeControllers /\ p.before_drop \in Nat
    BY ControllerFields DEF ProberIsReady
<1>1. PICK r \in Nat : r = Scaled(p.before_drop, 85) /\ r <= p.before_drop
    BY <1>0, ScaledIs
<1> DEFINE due == /\ p.alr # Timeless \/ p.alr_end < kAlrEndedTimeout
                  /\ p.state = "complete"
                  /\ Scaled(r, 95) > p.estimated
                  /\ p.since_drop < kBitrateDropTimeout
                  /\ p.since_request > kMinTimeBetweenAlrProbes
<1>2. e = IF due THEN InitiateProbing([p EXCEPT !.since_request = 0], cfg, 0, <<r>>, FALSE, "recovery")
          ELSE p
    BY <1>1 DEF RequestProbe
<1>3. CASE ~due
  <2>1. e = p
    BY <1>2, <1>3
  <2> QED BY <2>1, MildIsRestrained DEF SameStart
<1>4. CASE due
  <2>0. p.available
    BY <1>4 DEF ProberIsReady
  <2> HIDE DEF due
  <2>1. PICK q : q = [p EXCEPT !.since_request = 0]
    OBVIOUS
  <2>2. /\ q \in ProbeControllers /\ q.state = p.state /\ q.available = p.available
        /\ q.start = p.start /\ q.sent = p.sent /\ q.before_drop = p.before_drop
    BY <1>0, <2>1 DEF ProbeControllers
  <2>3. ProberIsReady(q) /\ AllMild(q, relay) /\ q.available
    BY <2>0, <2>2 DEF ProberIsReady, AllMild
  <2>a. PICK rates : rates = <<r>>
    OBVIOUS
  <2>4. rates \in Seq(Nat) /\ rates # <<>> /\ \A i \in DOMAIN rates : rates[i] = r
    BY <2>a
  <2>5. e = InitiateProbing(q, cfg, 0, rates, FALSE, "recovery")
    BY <1>2, <1>4, <2>1, <2>a
  <2>6. ProberIsReady(e) /\ SamePath(q, e) /\ Requested(q, e, rates, "recovery")
    <3>1. FALSE \in BOOLEAN /\ "recovery" \in Whys /\ 0 \in Int
      BY DEF Whys
    <3> QED BY <2>3, <2>4, <2>5, <3>1, Initiated, Zenon
  <2>7. ASSUME NEW s \in e.sent
        PROVE  /\ e.available /\ s.rate <= MaxRate
               /\ Mild(s, relay) \/ (s.why = "recovery" /\ s.rate <= e.before_drop)
    <3>1. e.available
      BY <2>3, <2>6 DEF SamePath
    <3>2. CASE s \in q.sent
      BY <2>3, <3>1, <3>2 DEF AllMild, Mild
    <3>3. CASE s \notin q.sent
      <4>1. s.why = "recovery" /\ s.rate <= MaxRate /\ s.rate <= r
        BY <2>4, <2>6, <3>3 DEF Requested
      <4>2. s.rate \in Int
        BY <2>6, ControllerFields DEF ProberIsReady, Requests
      <4>3. e.before_drop = p.before_drop
        BY <2>2, <2>6 DEF SamePath
      <4> QED BY <1>0, <1>1, <3>1, <4>1, <4>2, <4>3
    <3> QED BY <3>2, <3>3
  <2> QED BY <2>2, <2>6, <2>7 DEF SamePath, SameStart, Restrained
<1> QED BY <1>3, <1>4

\* What the handlers do to a controller before they probe.
Kept(p, e) ==
    /\ ProberIsReady(e) /\ e.sent = {} /\ e.start = p.start /\ e.available = p.available

LEMMA FreshIs ==
    ASSUME NEW p, ProberIsReady(p), NEW e, e = Fresh(p)
    PROVE  Kept(p, e)
<1>1. p \in ProbeControllers
    BY DEF ProberIsReady
<1>2. e = [p EXCEPT !.sent = {}]
    BY DEF Fresh
<1>3. /\ e \in ProbeControllers /\ e.state = p.state /\ e.available = p.available
      /\ e.start = p.start /\ e.sent = {}
    BY <1>1, <1>2 DEF ProbeControllers
<1> QED BY <1>3 DEF Kept, ProberIsReady

LEMMA QuietIsMild ==
    ASSUME NEW p, NEW e, Kept(p, e), NEW relay
    PROVE  AllMild(e, relay)
BY DEF Kept, AllMild

LEMMA RepeatedIs ==
    ASSUME NEW p, ProberIsReady(p), p.sent = {}, NEW enable \in BOOLEAN,
           NEW e, e = EnableRepeatedInitialProbing(p, enable)
    PROVE  Kept(p, e)
<1>1. p \in ProbeControllers /\ p.last_allowed \in Int
    BY ControllerFields DEF ProberIsReady
<1>2. PICK x \in Int : x = IF enable THEN p.last_allowed ELSE 0
    BY <1>1
<1>3. e = [p EXCEPT !.repeated = enable, !.last_allowed = x]
    BY <1>1, <1>2 DEF EnableRepeatedInitialProbing
<1>4. /\ e \in ProbeControllers /\ e.state = p.state /\ e.available = p.available
      /\ e.start = p.start /\ e.sent = p.sent
    BY <1>1, <1>3 DEF ProbeControllers
<1> QED BY <1>4 DEF Kept, ProberIsReady

\* The age of the application limited region, and of its end.
LEMMA AlrIs ==
    ASSUME NEW p, ProberIsReady(p), NEW age \in Int, NEW e, e = [p EXCEPT !.alr = age]
    PROVE  ProberIsReady(e) /\ e.sent = p.sent /\ SameStart(p, e)
<1>1. p \in ProbeControllers
    BY DEF ProberIsReady
<1>2. /\ e \in ProbeControllers /\ e.state = p.state /\ e.available = p.available
      /\ e.start = p.start /\ e.sent = p.sent
    BY <1>1 DEF ProbeControllers
<1> QED BY <1>2 DEF SameStart, ProberIsReady

LEMMA AlrEndIs ==
    ASSUME NEW p, ProberIsReady(p), NEW age \in Int, NEW e, e = [p EXCEPT !.alr_end = age]
    PROVE  ProberIsReady(e) /\ e.sent = p.sent /\ SameStart(p, e)
<1>1. p \in ProbeControllers
    BY DEF ProberIsReady
<1>2. /\ e \in ProbeControllers /\ e.state = p.state /\ e.available = p.available
      /\ e.start = p.start /\ e.sent = p.sent
    BY <1>1 DEF ProbeControllers
<1> QED BY <1>2 DEF SameStart, ProberIsReady

LEMMA PeriodicIs ==
    ASSUME NEW p, ProberIsReady(p), NEW on \in BOOLEAN, NEW e, e = [p EXCEPT !.periodic = on]
    PROVE  ProberIsReady(e) /\ e.sent = p.sent /\ SameStart(p, e)
<1>1. p \in ProbeControllers
    BY DEF ProberIsReady
<1>2. /\ e \in ProbeControllers /\ e.state = p.state /\ e.available = p.available
      /\ e.start = p.start /\ e.sent = p.sent
    BY <1>1 DEF ProbeControllers
<1> QED BY <1>2 DEF SameStart, ProberIsReady

LEMMA SameSentIsMild ==
    ASSUME NEW p, NEW e, NEW relay, AllMild(p, relay), e.sent = p.sent, SameStart(p, e)
    PROVE  AllMild(e, relay)
BY DEF AllMild, SameStart

\* What a step must leave to the next one.
Behaves(p, available, relay) ==
    /\ ProberIsReady(p) /\ p.available = available /\ Restrained(p, relay)

LEMMA BehavesIsRestrained ==
    ASSUME Behaves(probe_controller', network_available', relay_path')
    PROVE  /\ ProberIsReady(probe_controller') /\ probe_controller'.available = network_available'
           /\ ProbesAreRestrained'
<1>1. ASSUME NEW s \in probe_controller'.sent
      PROVE  /\ network_available' /\ s.rate <= MaxRate
             /\ relay_path' => \/ s.rate <= Most(4 * RelayStart, 2 * s.of)
                               \/ s.why = "recovery" /\ s.rate <= probe_controller'.before_drop
    BY <1>1, Zenon DEF Behaves, Restrained, Mild
<1> QED BY <1>1 DEF Behaves, ProbesAreRestrained

\* MaybeTriggerOnNetworkChanged, as the timer and a change of the path call it.
LEMMA Triggered ==
    ASSUME NEW p, ProberIsReady(p), NEW relay \in BOOLEAN, NEW cfg, Profile(cfg, relay),
           AllMild(p, relay), NEW b \in [target : Nat, cause : Causes], NEW other,
           MaybeTriggerOnNetworkChanged(p, cfg, b, other)
    PROVE  /\ ProberIsReady(probe_controller') /\ SameStart(p, probe_controller')
           /\ AllMild(probe_controller', relay)
<1>1. b.target \in Nat /\ b.cause \in Causes
    OBVIOUS
<1>2. probe_controller' = IF Changed(b, other)
                          THEN SetEstimatedBitrate(p, cfg, b.target, b.cause) ELSE p
    BY Zenon DEF MaybeTriggerOnNetworkChanged
<1>3. CASE Changed(b, other)
  <2>1. probe_controller' = SetEstimatedBitrate(p, cfg, b.target, b.cause)
    BY <1>2, <1>3
  <2> QED BY <1>1, <2>1, EstimateSet, Zenon
<1>4. CASE ~Changed(b, other)
  <2>1. probe_controller' = p
    BY <1>2, <1>4
  <2> QED BY <2>1 DEF SameStart
<1> QED BY <1>3, <1>4

LEMMA ProbingFacts ==
    ASSUME ProbingInv
    PROVE  /\ network_available \in BOOLEAN /\ relay_path \in BOOLEAN /\ initial_config \in BOOLEAN
           /\ detector \in Int /\ bwe \in [target : Nat, cause : Causes]
           /\ ProberIsReady(probe_controller) /\ probe_controller.available = network_available
BY DEF ProbingInv, ProbingTypes

LEMMA AvailabilityStep ==
    ASSUME ProbingInv, OnNetworkAvailability
    PROVE  ProbingInv'
<1>0. /\ relay_path \in BOOLEAN /\ ProberIsReady(probe_controller)
      /\ probe_controller.available = network_available
    BY ProbingFacts
<1>1. PICK ready \in BOOLEAN, allow \in BOOLEAN :
          /\ network_available' = ready
          /\ probe_controller' =
                IF ready # network_available
                THEN ProbeOnNetworkAvailability(
                         EnableRepeatedInitialProbing(Fresh(probe_controller), allow),
                         Config(relay_path), ready)
                ELSE EnableRepeatedInitialProbing(Fresh(probe_controller), allow)
    BY Zenon DEF OnNetworkAvailability
<1>2. PICK f : f = Fresh(probe_controller)
    OBVIOUS
<1>3. Kept(probe_controller, f)
    BY <1>0, <1>2, FreshIs
<1>4. PICK p : p = EnableRepeatedInitialProbing(f, allow)
    OBVIOUS
<1>5. Kept(f, p)
  <2>1. ProberIsReady(f) /\ f.sent = {}
    BY <1>3 DEF Kept
  <2> QED BY <1>4, <2>1, RepeatedIs
<1>6. PICK cfg : cfg = Config(relay_path)
    OBVIOUS
<1>7. Profile(cfg, relay_path)
    BY <1>0, <1>6, ConfigIs
<1>8. relay_path /\ p.start # 0 => p.start = RelayStart
    BY <1>3, <1>5 DEF Kept, ProbingInv, ProbingTypes, StartOK
<1>9. /\ ProberIsReady(probe_controller') /\ AllMild(probe_controller', relay_path)
      /\ probe_controller'.available = ready /\ probe_controller'.start = p.start
  <2>1. CASE ready # network_available
    <3>1. probe_controller' = ProbeOnNetworkAvailability(p, cfg, ready)
      BY <1>1, <1>2, <1>4, <1>6, <2>1
    <3>2. ProberIsReady(p) /\ p.sent = {}
      BY <1>5 DEF Kept
    <3> QED BY <1>0, <1>7, <1>8, <3>1, <3>2, AvailabilitySet
  <2>2. CASE ready = network_available
    <3>1. probe_controller' = p
      BY <1>1, <1>2, <1>4, <2>2
    <3>2. ProberIsReady(p) /\ p.available = network_available
      BY <1>0, <1>3, <1>5 DEF Kept
    <3>3. AllMild(p, relay_path)
      BY <1>5, QuietIsMild
    <3> QED BY <2>2, <3>1, <3>2, <3>3
  <2> QED BY <2>1, <2>2
<1>10. UNCHANGED <<relay_path, initial_config, bwe, detector>>
    BY DEF OnNetworkAvailability
<1>11. Behaves(probe_controller', network_available', relay_path')
    BY <1>1, <1>9, <1>10, MildIsRestrained DEF Behaves
<1>12. probe_controller'.start = probe_controller.start
    BY <1>3, <1>5, <1>9 DEF Kept
<1>13. StartOK(probe_controller)'
    BY <1>10, <1>12 DEF ProbingInv, StartOK
<1>14. ProbingTypes'
    BY <1>1, <1>10 DEF ProbingInv, ProbingTypes
<1> QED BY <1>11, <1>13, <1>14, BehavesIsRestrained DEF ProbingInv

LEMMA TargetIs ==
    ASSUME NEW b \in [target : Nat, cause : Causes], NEW rate \in Nat
    PROVE  [b EXCEPT !.target = rate] \in [target : Nat, cause : Causes]
OBVIOUS

LEMMA RelayStep ==
    ASSUME ProbingInv, SetRelayPath
    PROVE  ProbingInv'
<1>0. /\ relay_path \in BOOLEAN /\ initial_config \in BOOLEAN /\ ProberIsReady(probe_controller)
      /\ probe_controller.available = network_available /\ bwe \in [target : Nat, cause : Causes]
    BY ProbingFacts
<1>1. PICK relay \in BOOLEAN : relay = ~relay_path /\ relay_path' = relay
    BY <1>0 DEF SetRelayPath
<1>2. PICK cfg : cfg = Config(relay)
    OBVIOUS
<1>3. Profile(cfg, relay)
    BY <1>2, ConfigIs
<1>4. PICK f : f = Fresh(probe_controller)
    OBVIOUS
<1>5. Kept(probe_controller, f)
    BY <1>0, <1>4, FreshIs
<1>6. UNCHANGED <<network_available, initial_config, detector>>
    BY DEF SetRelayPath
<1>7. CASE ~initial_config /\ AppliesStart(relay)
  <2>1. /\ bwe' = [bwe EXCEPT !.target = cfg.start]
        /\ MaybeTriggerOnNetworkChanged(SetBitrates(f, cfg, cfg.start, 0), cfg, bwe', moved)
    BY <1>1, <1>2, <1>4, <1>7 DEF SetRelayPath
  <2>2. cfg.start \in Nat /\ (relay => cfg.start = RelayStart)
    BY <1>3 DEF Profile
  <2>3. bwe' \in [target : Nat, cause : Causes]
    BY <1>0, <2>1, <2>2, TargetIs
  <2>4. PICK p : p = SetBitrates(f, cfg, cfg.start, 0)
    OBVIOUS
  <2>5. ProberIsReady(p) /\ AllMild(p, relay) /\ p.available = f.available /\ p.start = cfg.start
    <3>1. ProberIsReady(f) /\ AllMild(f, relay) /\ 0 \in Int
      BY <1>5, QuietIsMild DEF Kept
    <3> QED BY <1>3, <2>4, <3>1, BitratesSet
  <2>6. MaybeTriggerOnNetworkChanged(p, cfg, bwe', moved)
    BY <2>1, <2>4
  <2>7. /\ ProberIsReady(probe_controller') /\ SameStart(p, probe_controller')
        /\ AllMild(probe_controller', relay)
    BY <1>3, <2>3, <2>5, <2>6, Triggered, Zenon
  <2>8. probe_controller'.available = network_available /\ probe_controller'.start = cfg.start
    BY <1>0, <1>5, <2>5, <2>7 DEF SameStart, Kept
  <2>9. Behaves(probe_controller', network_available', relay_path')
    BY <1>1, <1>6, <2>7, <2>8, MildIsRestrained DEF Behaves
  <2>10. StartOK(probe_controller)'
    BY <1>1, <1>6, <1>7, <2>2, <2>8 DEF StartOK
  <2>11. ProbingTypes'
    BY <1>1, <1>6, <2>3 DEF ProbingInv, ProbingTypes
  <2> QED BY <2>9, <2>10, <2>11, BehavesIsRestrained DEF ProbingInv
<1>8. CASE ~(~initial_config /\ AppliesStart(relay))
  <2>1. probe_controller' = f /\ bwe' = bwe
    BY <1>1, <1>4, <1>8 DEF SetRelayPath
  <2>2. AllMild(f, relay)
    BY <1>5, QuietIsMild
  <2>3. Behaves(probe_controller', network_available', relay_path')
    BY <1>0, <1>1, <1>5, <1>6, <2>1, <2>2, MildIsRestrained DEF Behaves, Kept
  <2>4. StartOK(probe_controller)'
    BY <1>1, <1>5, <1>6, <1>8, <2>1 DEF ProbingInv, StartOK, Kept, AppliesStart
  <2>5. ProbingTypes'
    BY <1>1, <1>6, <2>1 DEF ProbingInv, ProbingTypes
  <2> QED BY <2>3, <2>4, <2>5, BehavesIsRestrained DEF ProbingInv
<1> QED BY <1>7, <1>8

LEMMA IntervalStep ==
    ASSUME ProbingInv, OnProcessInterval
    PROVE  ProbingInv'
<1>0. /\ relay_path \in BOOLEAN /\ initial_config \in BOOLEAN /\ ProberIsReady(probe_controller)
      /\ probe_controller.available = network_available /\ bwe \in [target : Nat, cause : Causes]
      /\ detector \in Int
    BY ProbingFacts
<1>1. PICK cfg : cfg = Config(relay_path)
    OBVIOUS
<1>2. Profile(cfg, relay_path)
    BY <1>0, <1>1, ConfigIs
<1>3. cfg.start \in Nat /\ (relay_path => cfg.start = RelayStart)
    BY <1>2 DEF Profile
<1>4. PICK f : f = Fresh(probe_controller)
    OBVIOUS
<1>5. Kept(probe_controller, f)
    BY <1>0, <1>4, FreshIs
<1>6. ProberIsReady(f) /\ AllMild(f, relay_path)
    BY <1>5, QuietIsMild DEF Kept
<1>7. PICK p : p = IF initial_config
                   THEN [SetBitrates(f, cfg, cfg.start, Timeless) EXCEPT !.periodic = TRUE]
                   ELSE f
    OBVIOUS
<1>8. /\ ProberIsReady(p) /\ AllMild(p, relay_path) /\ p.available = network_available
      /\ p.start = IF initial_config THEN cfg.start ELSE probe_controller.start
  <2>1. CASE initial_config
    <3>1. PICK s : s = SetBitrates(f, cfg, cfg.start, Timeless)
      OBVIOUS
    <3>2. Timeless \in Int
      BY AgesAre
    <3>3. ProberIsReady(s) /\ AllMild(s, relay_path) /\ s.available = f.available /\ s.start = cfg.start
      BY <1>0, <1>2, <1>6, <3>1, <3>2, BitratesSet
    <3>4. p = [s EXCEPT !.periodic = TRUE]
      BY <1>7, <2>1, <3>1
    <3>5. ProberIsReady(p) /\ p.sent = s.sent /\ SameStart(s, p)
      BY <3>3, <3>4, PeriodicIs
    <3>6. AllMild(p, relay_path)
      BY <3>3, <3>5, SameSentIsMild
    <3> QED BY <1>0, <1>5, <2>1, <3>3, <3>5, <3>6 DEF SameStart, Kept
  <2>2. CASE ~initial_config
    BY <1>0, <1>5, <1>6, <1>7, <2>2 DEF Kept
  <2> QED BY <2>1, <2>2
<1>9. PICK q : q = [p EXCEPT !.alr = detector]
    OBVIOUS
<1>10. ProberIsReady(q) /\ q.sent = p.sent /\ SameStart(p, q)
    BY <1>0, <1>8, <1>9, AlrIs
<1>11. AllMild(q, relay_path)
    BY <1>8, <1>10, SameSentIsMild
<1>12. PICK r : r = Process(q, cfg)
    OBVIOUS
<1>13. ProberIsReady(r) /\ SameStart(q, r) /\ AllMild(r, relay_path)
    BY <1>0, <1>2, <1>10, <1>11, <1>12, Processed
<1>14. bwe' \in [target : Nat, cause : Causes]
  <2>1. [bwe EXCEPT !.target = cfg.start] \in [target : Nat, cause : Causes]
    BY <1>0, <1>3, TargetIs
  <2>2. bwe' = IF initial_config THEN [bwe EXCEPT !.target = cfg.start] ELSE bwe
    BY <1>1 DEF OnProcessInterval
  <2> QED BY <1>0, <2>1, <2>2
<1>15. MaybeTriggerOnNetworkChanged(r, cfg, bwe', moved)
    BY <1>1, <1>4, <1>7, <1>9, <1>12, Zenon DEF OnProcessInterval
<1>16. /\ ProberIsReady(probe_controller') /\ SameStart(r, probe_controller')
       /\ AllMild(probe_controller', relay_path)
    BY <1>0, <1>2, <1>13, <1>14, <1>15, Triggered, Zenon
<1>17. UNCHANGED <<network_available, relay_path, detector>> /\ initial_config' = FALSE
    BY DEF OnProcessInterval
<1>18. /\ probe_controller'.available = network_available
       /\ probe_controller'.start = IF initial_config THEN cfg.start ELSE probe_controller.start
    BY <1>8, <1>10, <1>13, <1>16 DEF SameStart
<1>19. Behaves(probe_controller', network_available', relay_path')
    BY <1>16, <1>17, <1>18, MildIsRestrained DEF Behaves
<1>20. StartOK(probe_controller)'
    BY <1>0, <1>3, <1>17, <1>18 DEF ProbingInv, StartOK
<1>21. ProbingTypes'
    BY <1>14, <1>17 DEF ProbingInv, ProbingTypes
<1> QED BY <1>19, <1>20, <1>21, BehavesIsRestrained DEF ProbingInv

LEMMA FeedbackStep ==
    ASSUME ProbingInv, OnTransportPacketsFeedback
    PROVE  ProbingInv'
<1>0. /\ relay_path \in BOOLEAN /\ ProberIsReady(probe_controller)
      /\ probe_controller.available = network_available /\ detector \in Int
    BY ProbingFacts
<1>1. PICK cfg : cfg = Config(relay_path)
    OBVIOUS
<1>2. Profile(cfg, relay_path)
    BY <1>0, <1>1, ConfigIs
<1>3. PICK f : f = Fresh(probe_controller)
    OBVIOUS
<1>4. Kept(probe_controller, f)
    BY <1>0, <1>3, FreshIs
<1>5. ProberIsReady(f) /\ AllMild(f, relay_path) /\ SameStart(probe_controller, f)
    BY <1>4, QuietIsMild DEF Kept, SameStart
<1>6. PICK p : p = IF previously_in_alr /\ detector = Timeless THEN [f EXCEPT !.alr_end = 0] ELSE f
    OBVIOUS
<1>7. ProberIsReady(p) /\ AllMild(p, relay_path) /\ SameStart(probe_controller, p)
  <2>1. CASE p = f
    BY <1>5, <2>1
  <2>2. CASE p = [f EXCEPT !.alr_end = 0]
    <3>1. ProberIsReady(p) /\ p.sent = f.sent /\ SameStart(f, p)
      BY <1>5, <2>2, AlrEndIs
    <3>2. AllMild(p, relay_path)
      BY <1>5, <3>1, SameSentIsMild
    <3> QED BY <1>5, <3>1, <3>2 DEF SameStart
  <2> QED BY <1>6, <2>1, <2>2
<1>8. PICK rate \in Rates, cause \in Causes, updated \in BOOLEAN, recovered \in BOOLEAN, other \in BOOLEAN :
          /\ bwe' = [target |-> rate, cause |-> cause]
          /\ \E e \in {IF updated /\ Changed(bwe', moved \/ other)
                       THEN SetEstimatedBitrate(p, cfg, rate, cause) ELSE p} :
                probe_controller' =
                    IF recovered THEN RequestProbe([e EXCEPT !.alr = detector], cfg) ELSE e
  <2>1. PICK rate \in Rates, cause \in Causes, updated \in BOOLEAN, recovered \in BOOLEAN, other \in BOOLEAN :
            LET c == Config(relay_path)
                ended == previously_in_alr /\ detector = Timeless
                q == IF ended THEN [Fresh(probe_controller) EXCEPT !.alr_end = 0]
                     ELSE Fresh(probe_controller)
            IN  /\ bwe' = [target |-> rate, cause |-> cause]
                /\ last_target' = IF updated THEN rate ELSE last_target
                /\ moved' = (~updated /\ (moved \/ other))
                /\ \E e \in {IF updated /\ Changed(bwe', moved \/ other)
                             THEN SetEstimatedBitrate(q, c, rate, cause) ELSE q} :
                      probe_controller' =
                          IF recovered THEN RequestProbe([e EXCEPT !.alr = detector], c) ELSE e
    BY DEF OnTransportPacketsFeedback
  <2>2. p = IF previously_in_alr /\ detector = Timeless
            THEN [Fresh(probe_controller) EXCEPT !.alr_end = 0] ELSE Fresh(probe_controller)
    BY <1>3, <1>6
  <2> QED BY <1>1, <2>1, <2>2
<1>9. rate \in Nat
    BY ProbingConstants
<1>10. PICK e : /\ e = p \/ e = SetEstimatedBitrate(p, cfg, rate, cause)
                /\ probe_controller' = IF recovered THEN RequestProbe([e EXCEPT !.alr = detector], cfg)
                                       ELSE e
    BY <1>8
<1>11. ProberIsReady(e) /\ AllMild(e, relay_path) /\ SameStart(probe_controller, e)
  <2>1. CASE e = p
    BY <1>7, <2>1
  <2>2. CASE e = SetEstimatedBitrate(p, cfg, rate, cause)
    <3>1. ProberIsReady(e) /\ SameStart(p, e) /\ AllMild(e, relay_path)
      BY <1>0, <1>2, <1>7, <1>9, <2>2, EstimateSet, Zenon
    <3> QED BY <1>7, <3>1 DEF SameStart
  <2> QED BY <1>10, <2>1, <2>2
<1>12. /\ ProberIsReady(probe_controller') /\ SameStart(probe_controller, probe_controller')
       /\ Restrained(probe_controller', relay_path)
  <2>1. CASE ~recovered
    <3>1. probe_controller' = e
      BY <1>10, <2>1
    <3> QED BY <1>11, <3>1, MildIsRestrained
  <2>2. CASE recovered
    <3>1. PICK q : q = [e EXCEPT !.alr = detector]
      OBVIOUS
    <3>2. ProberIsReady(q) /\ q.sent = e.sent /\ SameStart(e, q)
      BY <1>0, <1>11, <3>1, AlrIs
    <3>3. AllMild(q, relay_path)
      BY <1>11, <3>2, SameSentIsMild
    <3>4. probe_controller' = RequestProbe(q, cfg)
      BY <1>10, <2>2, <3>1
    <3>5. ProberIsReady(probe_controller') /\ SameStart(q, probe_controller')
          /\ Restrained(probe_controller', relay_path)
      BY <1>0, <1>2, <3>2, <3>3, <3>4, ProbeRequested
    <3> QED BY <1>11, <3>2, <3>5 DEF SameStart
  <2> QED BY <2>1, <2>2
<1>13. UNCHANGED <<network_available, relay_path, initial_config, detector>>
    BY DEF OnTransportPacketsFeedback
<1>14. Behaves(probe_controller', network_available', relay_path')
    BY <1>0, <1>12, <1>13 DEF Behaves, SameStart
<1>15. StartOK(probe_controller)'
    BY <1>12, <1>13 DEF ProbingInv, StartOK, SameStart
<1>16. ProbingTypes'
  <2>1. bwe' \in [target : Nat, cause : Causes]
    BY <1>8, <1>9
  <2> QED BY <1>13, <2>1 DEF ProbingInv, ProbingTypes
<1> QED BY <1>14, <1>15, <1>16, BehavesIsRestrained DEF ProbingInv

\* A step that asks for no probe and keeps network, path and starting rate.
LEMMA QuietStep ==
    ASSUME ProbingInv, Kept(probe_controller, probe_controller'), detector' \in Int,
           UNCHANGED <<network_available, relay_path, initial_config, bwe>>
    PROVE  ProbingInv'
<1>0. /\ probe_controller.available = network_available
    BY ProbingFacts
<1>1. Behaves(probe_controller', network_available', relay_path')
    BY <1>0 DEF Behaves, Kept, Restrained
<1>2. StartOK(probe_controller)'
    BY DEF ProbingInv, StartOK, Kept
<1>3. ProbingTypes'
    BY DEF ProbingInv, ProbingTypes
<1> QED BY <1>1, <1>2, <1>3, BehavesIsRestrained DEF ProbingInv

LEMMA SentStep ==
    ASSUME ProbingInv, OnBytesSent
    PROVE  ProbingInv'
<1>1. Kept(probe_controller, probe_controller')
  <2>1. ProberIsReady(probe_controller)
    BY ProbingFacts
  <2>2. probe_controller' = Fresh(probe_controller)
    BY DEF OnBytesSent
  <2> QED BY <2>1, <2>2, FreshIs
<1>2. detector' \in Int
    BY AgesAre DEF OnBytesSent
<1>3. UNCHANGED <<network_available, relay_path, initial_config, bwe>>
    BY DEF OnBytesSent
<1> QED BY <1>1, <1>2, <1>3, QuietStep

LEMMA OlderIs ==
    ASSUME NEW age \in Int
    PROVE  Older(age) \in Int
BY AgesAre DEF Older, Least

LEMMA TickStep ==
    ASSUME ProbingInv, Tick
    PROVE  ProbingInv'
<1>1. ProberIsReady(probe_controller) /\ detector \in Int
    BY ProbingFacts
<1>2. PICK f : f = Fresh(probe_controller)
    OBVIOUS
<1>3. Kept(probe_controller, f)
    BY <1>1, <1>2, FreshIs
<1>4. /\ f.age \in Int /\ f.alr \in Int /\ f.alr_end \in Int /\ f.since_drop \in Int
      /\ f.since_request \in Int /\ f.last_allowed \in Int /\ f \in ProbeControllers
    BY <1>3, ControllerFields DEF Kept, ProberIsReady
<1>5. PICK a \in Int, b \in Int, c \in Int : a = Older(f.age) /\ b = Older(f.alr) /\ c = Older(f.alr_end)
    BY <1>4, OlderIs
<1>6. PICK d \in Int, g \in Int : d = Older(f.since_drop) /\ g = Older(f.since_request)
    BY <1>4, OlderIs
<1>7. PICK h \in Int : h = IF f.last_allowed = Forever THEN f.last_allowed ELSE Most(f.last_allowed - 1, 0)
    BY <1>4 DEF Most
<1>8. PICK e : e = [f EXCEPT !.age = a, !.alr = b, !.alr_end = c, !.since_drop = d,
                             !.since_request = g, !.last_allowed = h]
    OBVIOUS
<1>9. e \in ProbeControllers
    BY <1>4, <1>8 DEF ProbeControllers
<1>10. e.state = f.state /\ e.available = f.available /\ e.start = f.start /\ e.sent = f.sent
    BY <1>4, <1>8 DEF ProbeControllers
<1>11. probe_controller' = e
    BY <1>2, <1>4, <1>5, <1>6, <1>7, <1>8 DEF Tick, ProbeControllers
<1>12. Kept(probe_controller, probe_controller')
    BY <1>3, <1>9, <1>10, <1>11 DEF Kept, ProberIsReady
<1>13. detector' \in Int
    BY <1>1, OlderIs DEF Tick
<1>14. UNCHANGED <<network_available, relay_path, initial_config, bwe>>
    BY DEF Tick
<1> QED BY <1>12, <1>13, <1>14, QuietStep

LEMMA ProbingStarts == ProbingInit => ProbingInv
<1> SUFFICES ASSUME ProbingInit PROVE ProbingInv
    OBVIOUS
<1>1. probe_controller \in ProbeControllers
    BY AgesAre DEF ProbingInit, ProbeControllers, Causes
<1>2. /\ probe_controller.state = "init" /\ probe_controller.available = FALSE
      /\ probe_controller.start = 0 /\ probe_controller.sent = {}
    BY DEF ProbingInit
<1>3. ProbingTypes
    BY AgesAre DEF ProbingInit, ProbingTypes, Causes
<1> QED BY <1>1, <1>2, <1>3 DEF ProbingInit, ProbingInv, ProberIsReady, StartOK, ProbesAreRestrained

\* The inductive invariant of probing: the controller has the network that the
\* congestion control has, probes only with it, and on a relay its starting
\* rate is the relay's.
THEOREM ProbingInvariant == ProbingSpec => []ProbingInv
<1>1. ProbingInv /\ [ProbingNext]_probing_vars => ProbingInv'
  <2> SUFFICES ASSUME ProbingInv, [ProbingNext]_probing_vars PROVE ProbingInv'
    OBVIOUS
  <2>1. CASE UNCHANGED probing_vars
    BY <2>1, Zenon DEF probing_vars, ProbingInv, ProbingTypes, StartOK, ProbesAreRestrained
  <2>2. CASE ProbingNext
    BY <2>2, AvailabilityStep, RelayStep, IntervalStep, FeedbackStep, SentStep, TickStep
       DEF ProbingNext
  <2> QED BY <2>1, <2>2
<1> QED BY <1>1, ProbingStarts, PTL DEF ProbingSpec

\* Whatever the order of path, network and estimate events, for every setting of
\* rates and thresholds: no probe without a network or above the maximum, and on
\* a relay none above what the relay allows.
THEOREM ProbesStayRestrained == ProbingSpec => []ProbesAreRestrained
<1>1. ProbingInv => ProbesAreRestrained
    BY DEF ProbingInv
<1> QED BY <1>1, ProbingInvariant, PTL
=============================================================================
