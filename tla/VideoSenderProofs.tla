-------------------------- MODULE VideoSenderProofs --------------------------
(* Key frame requests, the pacer's flush and the packet history are right    *)
(* for every span of the sequence numbers, every capacity of the history and *)
(* any number of frames, packets, NACKs, FIRs and faults.                    *)
EXTENDS VideoSender, FiniteSetTheorems, NaturalsInduction, TLAPS

-----------------------------------------------------------------------------
(* Arithmetic modulo SeqSpan                                                 *)

Half == SeqSpan \div 2

LEMMA Span ==
    /\ SeqSpan \in Nat /\ Half \in Nat /\ SeqSpan = 2 * Half
    /\ kMaxCapacity \in Nat /\ kMaxCapacity > 0 /\ kMaxCapacity < Half
    /\ kMaxNacksPerTask \in Nat /\ kMaxNacksPerTask > 0
    /\ PktsPerFrame \in Nat /\ PktsPerFrame > 0
    /\ FirstSeqs \subseteq Seqs
    /\ MaxFrames \in Nat /\ MaxNacks \in Nat /\ MaxFirs \in Nat
    /\ MaxNackList \in Nat /\ MaxFaults \in Nat
BY SpanAssumption DEF Half, Seqs

\* Two multiples of the span that are less than a span apart are equal.
LEMMA Multiples ==
    ASSUME NEW M \in Nat, NEW q \in Int, NEW r \in Int,
           -M < q * M - r * M, q * M - r * M < M
    PROVE  q = r
<1>1. ASSUME NEW a \in Int, NEW b \in Int, a > b PROVE a * M - b * M >= M
  <2> DEFINE x == a - b - 1
  <2>1. x \in Nat
    BY <1>1
  <2>2. x * M >= 0
    BY <2>1
  <2>3. a * M - b * M = x * M + M
    OBVIOUS
  <2> QED BY <2>2, <2>3
<1>2. ~(q > r)
    BY <1>1
<1>3. ~(r > q)
    BY <1>1
<1> QED BY <1>2, <1>3

LEMMA ModSplit ==
    ASSUME NEW a \in Int
    PROVE  /\ a \div SeqSpan \in Int /\ a % SeqSpan \in Seqs
           /\ a = (a \div SeqSpan) * SeqSpan + (a % SeqSpan)
<1>1. SeqSpan \in Nat /\ SeqSpan > 0
    BY Span
<1>2. /\ a \div SeqSpan \in Int /\ a % SeqSpan \in 0 .. SeqSpan - 1
      /\ a = (a \div SeqSpan) * SeqSpan + (a % SeqSpan)
    BY <1>1
<1> QED BY <1>2 DEF Seqs

LEMMA ModIs ==
    ASSUME NEW a \in Int, NEW q \in Int, NEW v \in Seqs, a = q * SeqSpan + v
    PROVE  a % SeqSpan = v
<1> DEFINE r == a \div SeqSpan
           e == a % SeqSpan
<1>1. r \in Int /\ e \in Seqs /\ a = r * SeqSpan + e
    BY ModSplit
<1> HIDE DEF r, e
<1>2. q * SeqSpan \in Int /\ r * SeqSpan \in Int
    BY <1>1, Span
<1>3. q * SeqSpan - r * SeqSpan = e - v
    BY <1>1, <1>2, Span DEF Seqs
<1>4. -SeqSpan < q * SeqSpan - r * SeqSpan /\ q * SeqSpan - r * SeqSpan < SeqSpan
    BY <1>1, <1>3, Span DEF Seqs
<1>5. q = r
    BY <1>1, <1>4, Multiples, Span
<1>6. e = v
    BY <1>1, <1>2, <1>5, Span DEF Seqs
<1> QED BY <1>6 DEF e

\* A number k after or before a, less than a span away.
LEMMA Wrap ==
    ASSUME NEW a \in Seqs, NEW k \in Int, -SeqSpan < k, k < SeqSpan
    PROVE  /\ (a + k) % SeqSpan \in Seqs
           /\ (a + k) % SeqSpan = IF a + k < 0 THEN a + k + SeqSpan
                                  ELSE IF a + k < SeqSpan THEN a + k
                                  ELSE (a + k) - SeqSpan
<1>0. PICK x \in Int : x = a + k
    BY Span DEF Seqs
<1> SUFFICES /\ x % SeqSpan \in Seqs
             /\ x % SeqSpan = IF x < 0 THEN x + SeqSpan
                              ELSE IF x < SeqSpan THEN x ELSE x - SeqSpan
    BY <1>0, Zenon
<1>1. /\ x < 0 => x + SeqSpan \in Seqs /\ x = (-1) * SeqSpan + (x + SeqSpan)
      /\ 0 <= x /\ x < SeqSpan => x \in Seqs /\ x = 0 * SeqSpan + x
      /\ SeqSpan <= x => x - SeqSpan \in Seqs /\ x = 1 * SeqSpan + (x - SeqSpan)
      /\ x < 0 \/ (0 <= x /\ x < SeqSpan) \/ SeqSpan <= x
    BY <1>0, Span DEF Seqs
<1>2. \A q \in Int : \A v \in Seqs : x = q * SeqSpan + v => x % SeqSpan = v
    BY ModIs
<1>3. CASE x < 0
    BY <1>1, <1>2, <1>3, -1 \in Int, x % SeqSpan = x + SeqSpan
<1>4. CASE 0 <= x /\ x < SeqSpan
    BY <1>1, <1>2, <1>4, x % SeqSpan = x
<1>5. CASE SeqSpan <= x
  <2>1. x - SeqSpan \in Seqs /\ x = 1 * SeqSpan + (x - SeqSpan) /\ ~(x < 0) /\ ~(x < SeqSpan)
    BY <1>1, <1>5, Span
  <2>2. x % SeqSpan = x - SeqSpan
    BY <1>2, <2>1
  <2> QED BY <2>1, <2>2
<1> QED BY <1>1, <1>3, <1>4, <1>5

\* The distance from b to a.
LEMMA Distance ==
    ASSUME NEW a \in Seqs, NEW b \in Seqs
    PROVE  (a - b) % SeqSpan = IF a < b THEN a - b + SeqSpan ELSE a - b
<1>1. -b \in Int /\ -SeqSpan < -b /\ -b < SeqSpan /\ a + (-b) = a - b
    BY Span DEF Seqs
<1>2. (a + (-b)) % SeqSpan = IF a + (-b) < 0 THEN a + (-b) + SeqSpan
                             ELSE IF a + (-b) < SeqSpan THEN a + (-b)
                             ELSE (a + (-b)) - SeqSpan
    BY <1>1, Wrap
<1> QED BY <1>1, <1>2, Span DEF Seqs

\* Counting on, with the modulus taken on the way or not.
LEMMA NextSeq ==
    ASSUME NEW a \in Int
    PROVE  ((a % SeqSpan) + 1) % SeqSpan = (a + 1) % SeqSpan
<1> DEFINE q == a \div SeqSpan
           v == a % SeqSpan
<1>1. q \in Int /\ v \in Seqs /\ a = q * SeqSpan + v
    BY ModSplit
<1> HIDE DEF q, v
<1>2. v \in Int /\ q * SeqSpan \in Int /\ (q + 1) * SeqSpan = q * SeqSpan + SeqSpan
    BY <1>1, Span DEF Seqs
<1>3. CASE v + 1 < SeqSpan
  <2>1. v + 1 \in Seqs /\ v + 1 = 0 * SeqSpan + (v + 1) /\ a + 1 = q * SeqSpan + (v + 1)
    BY <1>1, <1>2, <1>3, Span DEF Seqs
  <2>2. (v + 1) % SeqSpan = v + 1
    BY <1>2, <2>1, ModIs
  <2>3. (a + 1) % SeqSpan = v + 1
    BY <1>1, <2>1, ModIs
  <2> QED BY <2>2, <2>3 DEF v
<1>4. CASE v + 1 >= SeqSpan
  <2>1. 0 \in Seqs /\ v + 1 = 1 * SeqSpan + 0 /\ a + 1 = (q + 1) * SeqSpan + 0
    BY <1>1, <1>2, <1>4, Span DEF Seqs
  <2>2. (v + 1) % SeqSpan = 0
    BY <1>2, <2>1, ModIs
  <2>3. (a + 1) % SeqSpan = 0
    BY <1>1, <2>1, ModIs
  <2> QED BY <2>2, <2>3 DEF v
<1> QED BY <1>2, <1>3, <1>4, Span
-----------------------------------------------------------------------------
(* Counting in sequences                                                     *)

LEMMA CountNat ==
    ASSUME NEW q, Len(q) \in Nat, NEW i \in Nat, NEW S
    PROVE  /\ IsFiniteSet({j \in i .. Len(q) : q[j] \in S})
           /\ Count(q, i, S) \in Nat
<1> DEFINE C == {j \in i .. Len(q) : q[j] \in S}
<1>1. IsFiniteSet(i .. Len(q))
    BY FS_Interval
<1>2. C \subseteq i .. Len(q)
    OBVIOUS
<1> HIDE DEF C
<1>3. IsFiniteSet(C)
    BY <1>1, <1>2, FS_Subset
<1>4. Cardinality(C) \in Nat
    BY <1>3, FS_CardinalityType
<1> QED BY <1>3, <1>4 DEF C, Count

\* Beyond the end there is nothing to count.
LEMMA CountType ==
    ASSUME NEW T, NEW q \in Seq(T), NEW i \in Nat, NEW S
    PROVE  Count(q, i, S) \in Nat
<1>1. Len(q) \in Nat
    OBVIOUS
<1> QED BY <1>1, CountNat, Zenon

LEMMA CountEnd ==
    ASSUME NEW q, Len(q) \in Nat, NEW i \in Nat, i > Len(q), NEW S
    PROVE  Count(q, i, S) = 0
<1>1. {j \in i .. Len(q) : q[j] \in S} = {}
    OBVIOUS
<1> QED BY <1>1, FS_EmptySet DEF Count

LEMMA CountFirst ==
    ASSUME NEW q, Len(q) \in Nat, NEW i \in 1 .. Len(q), NEW S
    PROVE  Count(q, i, S) = Count(q, i + 1, S) + IF q[i] \in S THEN 1 ELSE 0
<1> DEFINE C == {j \in i .. Len(q) : q[j] \in S}
           D == {j \in i + 1 .. Len(q) : q[j] \in S}
<1>0. i + 1 \in Nat
    OBVIOUS
<1>1. IsFiniteSet(D) /\ i \notin D
  <2>1. IsFiniteSet(D)
    BY <1>0, CountNat, Zenon
  <2> QED BY <2>1
<1>2. CASE q[i] \in S
  <2>1. C = D \cup {i}
    BY <1>2
  <2> HIDE DEF C, D
  <2>2. Cardinality(C) = Cardinality(D) + 1
    BY <1>1, <2>1, FS_AddElement
  <2> QED BY <1>2, <2>2 DEF Count, C, D
<1>3. CASE q[i] \notin S
  <2>1. C = D
    BY <1>3
  <2>2. Count(q, i, S) = Count(q, i + 1, S)
    BY <2>1, Zenon DEF Count
  <2>3. Count(q, i + 1, S) \in Nat
    BY <1>0, CountNat, Zenon
  <2> QED BY <1>3, <2>2, <2>3
<1> QED BY <1>2, <1>3

LEMMA CountAppend ==
    ASSUME NEW T, NEW q \in Seq(T), NEW x \in T, NEW i \in Nat, i > 0, i <= Len(q) + 1, NEW S
    PROVE  Count(Append(q, x), i, S) = Count(q, i, S) + IF x \in S THEN 1 ELSE 0
<1> DEFINE p == Append(q, x)
           n == Len(q) + 1
           C == {j \in i .. Len(q) : q[j] \in S}
           D == {j \in i .. Len(p) : p[j] \in S}
<1>1. /\ Len(q) \in Nat /\ Len(p) = n /\ p[n] = x
      /\ \A j \in 1 .. Len(q) : p[j] = q[j]
    OBVIOUS
<1> HIDE DEF p
<1>2. IsFiniteSet(C) /\ n \notin C
  <2>1. IsFiniteSet(C)
    BY <1>1, CountNat, Zenon
  <2> QED BY <1>1, <2>1
<1>3. CASE x \in S
  <2>1. D = C \cup {n}
    BY <1>1, <1>3
  <2> HIDE DEF C, D
  <2>2. Cardinality(D) = Cardinality(C) + 1
    BY <1>2, <2>1, FS_AddElement
  <2> QED BY <1>3, <2>2 DEF Count, C, D, p
<1>4. CASE x \notin S
  <2>1. D = C
    BY <1>1, <1>4
  <2>2. Count(p, i, S) = Count(q, i, S)
    BY <2>1, Zenon DEF Count
  <2>3. Count(q, i, S) \in Nat
    BY <1>1, CountNat
  <2> QED BY <1>4, <2>2, <2>3 DEF p
<1> QED BY <1>3, <1>4

LEMMA CountTail ==
    ASSUME NEW T, NEW q \in Seq(T), q # <<>>, NEW i \in Nat, i > 0, NEW S
    PROVE  Count(Tail(q), i, S) = Count(q, i + 1, S)
<1> DEFINE t == Tail(q)
           C == {j \in i .. Len(t) : t[j] \in S}
           D == {j \in i + 1 .. Len(q) : q[j] \in S}
           f == [j \in C |-> j + 1]
<1>1. /\ Len(q) \in Nat /\ Len(t) \in Nat /\ Len(t) = Len(q) - 1
      /\ \A j \in 1 .. Len(t) : t[j] = q[j + 1]
    OBVIOUS
<1> HIDE DEF t
<1>2. IsFiniteSet(C)
    BY <1>1, CountNat
<1>3. \A j \in C : j \in Int /\ j + 1 \in D
    BY <1>1
<1>4. \A k \in D : k - 1 \in C /\ (k - 1) + 1 = k
    BY <1>1
<1> HIDE DEF C, D
<1>5. f \in Bijection(C, D)
  <2>1. f \in [C -> D]
    BY <1>3
  <2>2. \A a, b \in C : f[a] = f[b] => a = b
    BY <1>3
  <2>3. \A k \in D : \E a \in C : f[a] = k
    <3> SUFFICES ASSUME NEW k \in D PROVE \E a \in C : f[a] = k
      OBVIOUS
    <3>1. f[k - 1] = k
      BY <1>4
    <3> QED BY <1>4, <3>1
  <2> QED BY <2>1, <2>2, <2>3, Zenon DEF Bijection, Injection, Surjection, IsInjective
<1>6. Cardinality(C) = Cardinality(D)
    BY <1>2, <1>5, FS_Bijection DEF ExistsBijection
<1> QED BY <1>6 DEF Count, C, D, t
-----------------------------------------------------------------------------
(* The numbers a NACK task takes                                             *)

LEMMA SmallestIs ==
    ASSUME NEW S \in SUBSET Int, IsFiniteSet(S), NEW n \in Nat
    PROVE  /\ Smallest(S, n) \subseteq S /\ IsFiniteSet(Smallest(S, n))
           /\ Cardinality(Smallest(S, n)) \in Nat /\ Cardinality(Smallest(S, n)) <= n
<1> DEFINE R == Smallest(S, n)
           below(s) == {t \in S : t < s}
           f == [s \in R |-> Cardinality(below(s))]
<1>1. R \subseteq S
    BY DEF Smallest
<1>2. \A s \in S : IsFiniteSet(below(s)) /\ Cardinality(below(s)) \in Nat
  <2> SUFFICES ASSUME NEW s \in S
               PROVE  IsFiniteSet(below(s)) /\ Cardinality(below(s)) \in Nat
    OBVIOUS
  <2>1. IsFiniteSet(below(s))
    BY FS_Subset
  <2> QED BY <2>1, FS_CardinalityType
<1>3. ASSUME NEW a \in S, NEW b \in S, a < b
      PROVE  Cardinality(below(a)) # Cardinality(below(b))
  <2>0. a \in Int /\ b \in Int /\ ~(a < a) /\ \A t \in S : t < a => t < b
    BY <1>3
  <2>1. below(a) \subseteq below(b) /\ a \in below(b) /\ a \notin below(a)
    BY <1>3, <2>0, Zenon
  <2> HIDE DEF below
  <2>2. below(a) # below(b)
    BY <2>1
  <2>3. IsFiniteSet(below(b))
    BY <1>2
  <2>4. /\ Cardinality(below(a)) <= Cardinality(below(b))
        /\ Cardinality(below(a)) = Cardinality(below(b)) => below(a) = below(b)
    BY <2>1, <2>3, FS_Subset, Zenon
  <2> QED BY <1>2, <2>2, <2>4
<1>4. \A s \in R : Cardinality(below(s)) < n
    BY DEF Smallest
<1> HIDE DEF R, below
<1>5. f \in [R -> 0 .. n - 1]
  <2>1. \A s \in R : Cardinality(below(s)) \in 0 .. n - 1
    BY <1>1, <1>2, <1>4
  <2> QED BY <2>1
<1>6. \A a, b \in R : f[a] = f[b] => a = b
  <2> SUFFICES ASSUME NEW a \in R, NEW b \in R, f[a] = f[b], a # b PROVE FALSE
    OBVIOUS
  <2>1. a < b \/ b < a
    BY <1>1
  <2> QED BY <1>1, <1>3, <2>1
<1>7. f \in Injection(R, 0 .. n - 1)
    BY <1>5, <1>6, Zenon DEF Injection, IsInjective
<1>8. IsFiniteSet(0 .. n - 1) /\ Cardinality(0 .. n - 1) = n
    BY FS_Interval
<1>9. IsFiniteSet(R) /\ Cardinality(R) <= n
    BY <1>7, <1>8, FS_Injection
<1>10. Cardinality(R) \in Nat
    BY <1>9, FS_CardinalityType
<1> QED BY <1>1, <1>9, <1>10 DEF R

LEMMA SeqsFinite ==
    ASSUME NEW S \in SUBSET Seqs
    PROVE  IsFiniteSet(S) /\ Cardinality(S) \in Nat /\ S \subseteq Int
<1>1. IsFiniteSet(Seqs)
    BY Span, FS_Interval DEF Seqs
<1>2. IsFiniteSet(S)
    BY <1>1, FS_Subset
<1>3. Seqs \subseteq Int
    BY Span DEF Seqs
<1> QED BY <1>2, <1>3, FS_CardinalityType
-----------------------------------------------------------------------------
(* The packet history                                                        *)

Packet == [seq : Seqs, pkt : VideoPackets, pending : BOOLEAN, resent : BOOLEAN]

Aligned(h) ==
    /\ h # <<>> => h[1] # Hole
    /\ \A i \in DOMAIN h : h[i] # Hole => h[i].seq = (h[1].seq + i - 1) % SeqSpan

\* A deque that can be indexed: aligned, and shorter than the span.
Deque(h) == h \in Seq(Slots) /\ Aligned(h) /\ Len(h) < SeqSpan

\* c is what remains of h when k slots at its front go.
Cut(h, c, k) ==
    /\ Len(c) = Len(h) - k
    /\ \A i \in 1 .. Len(c) : c[i] = h[k + i]

\* The packets of c are packets of h.
Within(c, h) == \A i \in DOMAIN c : c[i] # Hole => \E j \in DOMAIN h : h[j] = c[i]

LEMMA SlotIs ==
    ASSUME NEW x \in Slots, x # Hole
    PROVE  /\ x \in Packet /\ x.seq \in Seqs /\ x.seq \in Int /\ 0 <= x.seq /\ x.seq < SeqSpan
           /\ x.pkt \in VideoPackets /\ x.pending \in BOOLEAN
<1>1. x \in Packet
    BY DEF Slots, Packet
<1>2. x.seq \in Seqs /\ x.pkt \in VideoPackets /\ x.pending \in BOOLEAN
    BY <1>1 DEF Packet
<1> QED BY <1>1, <1>2, Span DEF Seqs

LEMMA StoredIs ==
    ASSUME NEW s \in Seqs, NEW p \in VideoPackets
    PROVE  /\ Stored(s, p) \in Slots /\ Stored(s, p) # Hole
           /\ Stored(s, p).seq = s /\ Stored(s, p).pkt = p /\ Stored(s, p).pending = FALSE
BY DEF Stored, Slots, Hole

\* Position i of an aligned deque holds the number i - 1 after the first.
LEMMA SeqAt ==
    ASSUME NEW h, Deque(h), NEW i \in 1 .. Len(h), h[i] # Hole
    PROVE  /\ h[1] # Hole /\ h[1].seq \in Seqs /\ h[i].seq \in Seqs
           /\ h[i].seq = IF h[1].seq + (i - 1) < SeqSpan THEN h[1].seq + (i - 1)
                         ELSE (h[1].seq + (i - 1)) - SeqSpan
<1>1. h \in Seq(Slots) /\ 1 \in 1 .. Len(h) /\ h # <<>> /\ Len(h) \in Nat
    BY DEF Deque
<1>2. h[1] # Hole /\ h[1] \in Slots /\ h[i] \in Slots
    BY <1>1 DEF Deque, Aligned
<1>3. h[1].seq \in Seqs /\ h[i].seq \in Seqs
    BY <1>2, SlotIs
<1>4. h[i].seq = (h[1].seq + (i - 1)) % SeqSpan
    BY <1>1 DEF Deque, Aligned
<1>5. PICK a \in Seqs : a = h[1].seq
    BY <1>3
<1>6. PICK k \in Int : k = i - 1 /\ 0 <= k /\ k < SeqSpan /\ -SeqSpan < k
    BY <1>1, Span DEF Deque
<1>7. (a + k) % SeqSpan = IF a + k < 0 THEN a + k + SeqSpan
                          ELSE IF a + k < SeqSpan THEN a + k ELSE (a + k) - SeqSpan
    BY <1>6, Wrap
<1>8. (a + k) % SeqSpan = IF a + k < SeqSpan THEN a + k ELSE (a + k) - SeqSpan
    BY <1>6, <1>7, Span DEF Seqs
<1> QED BY <1>2, <1>3, <1>4, <1>5, <1>6, <1>8

\* And the other way round.
LEMMA AlignedIf ==
    ASSUME NEW h \in Seq(Slots), Len(h) < SeqSpan, h # <<>> => h[1] # Hole,
           \A i \in 1 .. Len(h) : h[i] # Hole =>
               h[i].seq = IF h[1].seq + (i - 1) < SeqSpan THEN h[1].seq + (i - 1)
                          ELSE (h[1].seq + (i - 1)) - SeqSpan
    PROVE  Deque(h)
<1> SUFFICES ASSUME NEW i \in 1 .. Len(h), h[i] # Hole
             PROVE  h[i].seq = (h[1].seq + (i - 1)) % SeqSpan
    BY DEF Deque, Aligned
<1>1. Len(h) \in Nat /\ h # <<>> /\ h[1] \in Slots
    OBVIOUS
<1>2. PICK a \in Seqs : a = h[1].seq
    BY <1>1, SlotIs
<1>3. PICK k \in Int : k = i - 1 /\ 0 <= k /\ k < SeqSpan /\ -SeqSpan < k
    BY <1>1, Span
<1>4. (a + k) % SeqSpan = IF a + k < 0 THEN a + k + SeqSpan
                          ELSE IF a + k < SeqSpan THEN a + k ELSE (a + k) - SeqSpan
    BY <1>3, Wrap
<1>5. (a + k) % SeqSpan = IF a + k < SeqSpan THEN a + k ELSE (a + k) - SeqSpan
    BY <1>3, <1>4, Span DEF Seqs
<1>6. h[i].seq = IF a + k < SeqSpan THEN a + k ELSE (a + k) - SeqSpan
    BY <1>2, <1>3
<1> QED BY <1>2, <1>3, <1>5, <1>6

LEMMA CutDeque ==
    ASSUME NEW h, Deque(h), NEW k \in Nat, NEW c \in Seq(Slots), Cut(h, c, k),
           c # <<>> => c[1] # Hole
    PROVE  Deque(c) /\ Within(c, h)
<1>1. Len(c) \in Nat /\ Len(h) \in Nat /\ h \in Seq(Slots) /\ Len(c) = Len(h) - k
    BY DEF Deque, Cut
<1>2. \A i \in 1 .. Len(c) : k + i \in 1 .. Len(h) /\ c[i] = h[k + i]
    BY <1>1 DEF Cut
<1>3. ASSUME NEW i \in 1 .. Len(c), c[i] # Hole
      PROVE  c[i].seq = IF c[1].seq + (i - 1) < SeqSpan THEN c[1].seq + (i - 1)
                        ELSE (c[1].seq + (i - 1)) - SeqSpan
  <2> DEFINE a == h[1].seq
             x == c[1].seq
             y == c[i].seq
             m == k + i
             l == k + 1
  <2>1. /\ c # <<>> /\ 1 \in 1 .. Len(c) /\ l \in 1 .. Len(h) /\ m \in 1 .. Len(h)
        /\ h[l] # Hole /\ h[m] # Hole /\ x = h[l].seq /\ y = h[m].seq
    BY <1>1, <1>2, <1>3
  <2>2. /\ a \in Seqs
        /\ h[l].seq = IF a + (l - 1) < SeqSpan THEN a + (l - 1) ELSE (a + (l - 1)) - SeqSpan
    BY <2>1, SeqAt
  <2>3. h[m].seq = IF a + (m - 1) < SeqSpan THEN a + (m - 1) ELSE (a + (m - 1)) - SeqSpan
    BY <2>1, SeqAt
  <2>4. /\ x = IF a + k < SeqSpan THEN a + k ELSE (a + k) - SeqSpan
        /\ y = IF a + (m - 1) < SeqSpan THEN a + (m - 1) ELSE (a + (m - 1)) - SeqSpan
    BY <2>1, <2>2, <2>3
  <2>5. a \in Int /\ 0 <= a /\ a < SeqSpan /\ Len(h) < SeqSpan
    BY <2>2, Span DEF Seqs, Deque
  <2> HIDE DEF a, x, y
  <2>6. y = IF x + (i - 1) < SeqSpan THEN x + (i - 1) ELSE (x + (i - 1)) - SeqSpan
    BY <1>1, <2>1, <2>4, <2>5, Span, SMTT(40)
  <2> QED BY <2>6 DEF x, y
<1>4. Len(c) < SeqSpan
    BY <1>1, Span DEF Deque
<1>5. Deque(c)
    BY <1>3, <1>4, AlignedIf
<1>6. Within(c, h)
  <2>1. DOMAIN c = 1 .. Len(c) /\ DOMAIN h = 1 .. Len(h)
    BY <1>1
  <2> QED BY <1>2, <2>1, Zenon DEF Within
<1> QED BY <1>5, <1>6

LEMMA CullIs ==
    ASSUME NEW h \in Seq(Slots), NEW c \in RemoveDeadPackets(h)
    PROVE  \E k \in 0 .. Len(h) :
             /\ c \in Seq(Slots) /\ Cut(h, c, k)
             /\ c # <<>> => c[1] # Hole
             /\ Len(c) <= kMaxCapacity
<1>1. PICK k \in 0 .. Len(h) : c = SubSeq(h, k + 1, Len(h))
    BY DEF RemoveDeadPackets
<1>2. Len(h) \in Nat /\ k \in Nat
    OBVIOUS
<1>3. /\ Len(c) = Len(h) - k /\ Len(c) \in Nat
      /\ \A i \in 1 .. Len(c) : c[i] = h[k + i] /\ k + i \in 1 .. Len(h)
    BY <1>1, <1>2
<1>4. c \in Seq(Slots)
    BY <1>1, <1>2
<1>5. (c # <<>> => c[1] # Hole) /\ Len(c) <= kMaxCapacity
    BY DEF RemoveDeadPackets
<1> QED BY <1>3, <1>4, <1>5 DEF Cut

LEMMA CullDeque ==
    ASSUME NEW h, Deque(h), NEW c \in RemoveDeadPackets(h)
    PROVE  Deque(c) /\ Within(c, h) /\ Len(c) <= kMaxCapacity
<1>1. h \in Seq(Slots)
    BY DEF Deque
<1>2. PICK k \in 0 .. Len(h) :
             /\ c \in Seq(Slots) /\ Cut(h, c, k)
             /\ c # <<>> => c[1] # Hole
             /\ Len(c) <= kMaxCapacity
    BY <1>1, CullIs
<1>3. k \in Nat
    OBVIOUS
<1> QED BY <1>2, <1>3, CutDeque

\* The index of a number is its distance from the first, at most half a span.
LEMMA IndexIs ==
    ASSUME NEW h, Deque(h), h # <<>>, NEW s \in Seqs
    PROVE  /\ GetPacketIndex(h, s) \in -Half .. Half
           /\ h[1].seq \in Seqs
           /\ h[1].seq + GetPacketIndex(h, s) \in {s - SeqSpan, s, s + SeqSpan}
<1>1. h \in Seq(Slots) /\ 1 \in 1 .. Len(h)
    BY DEF Deque
<1>2. h[1] # Hole
    BY DEF Deque, Aligned
<1>3. PICK a \in Seqs : a = h[1].seq
    BY <1>1, <1>2, SeqAt
<1>4. PICK d : d = (s - a) % SeqSpan
    OBVIOUS
<1>5. PICK e : e = (a - s) % SeqSpan
    OBVIOUS
<1>6. d = IF s < a THEN s - a + SeqSpan ELSE s - a
    BY <1>4, Distance
<1>7. e = IF a < s THEN a - s + SeqSpan ELSE a - s
    BY <1>5, Distance
<1>8. GetPacketIndex(h, s) = IF IsNewer(s, a) \/ s = a THEN d ELSE -e
    BY <1>3, <1>4, <1>5, Zenon DEF GetPacketIndex
<1>9. IsNewer(s, a) <=> IF s - a = Half THEN s > a ELSE s # a /\ d < Half
    BY <1>4, Zenon DEF IsNewer, Half
<1>10. a \in Int /\ s \in Int /\ 0 <= a /\ a < SeqSpan /\ 0 <= s /\ s < SeqSpan
    BY Span DEF Seqs
<1>11. d \in Int /\ e \in Int
    BY <1>6, <1>7, <1>10, Span
<1> DEFINE x == GetPacketIndex(h, s)
<1>12. CASE IsNewer(s, a) \/ s = a
  <2>1. x = d
    BY <1>8, <1>12, Zenon
  <2>2. d <= Half /\ 0 <= d
    BY <1>6, <1>9, <1>10, <1>11, <1>12, Span
  <2> HIDE DEF x
  <2>3. x \in -Half .. Half /\ a + x \in {s - SeqSpan, s, s + SeqSpan}
    BY <1>6, <1>10, <1>11, <2>1, <2>2, Span
  <2> QED BY <1>3, <2>3 DEF x
<1>13. CASE ~(IsNewer(s, a) \/ s = a)
  <2>1. x = -e
    BY <1>8, <1>13, Zenon
  <2>2. e <= Half /\ 0 <= e
    BY <1>6, <1>7, <1>9, <1>10, <1>11, <1>13, Span
  <2> HIDE DEF x
  <2>3. x \in -Half .. Half /\ a + x \in {s - SeqSpan, s, s + SeqSpan}
    BY <1>7, <1>10, <1>11, <2>1, <2>2, Span
  <2> QED BY <1>3, <2>3 DEF x
<1> QED BY <1>12, <1>13

\* A number less than half a span after the first has that distance as its index.
LEMMA IndexAfter ==
    ASSUME NEW h, Deque(h), h # <<>>, NEW s \in Seqs, NEW k \in Nat, k < Half,
           h[1].seq + k \in {s, s + SeqSpan}
    PROVE  GetPacketIndex(h, s) = k
<1>1. h \in Seq(Slots) /\ 1 \in 1 .. Len(h)
    BY DEF Deque
<1>2. h[1] # Hole
    BY DEF Deque, Aligned
<1>3. PICK a \in Seqs : a = h[1].seq
    BY <1>1, <1>2, SeqAt
<1>4. PICK d : d = (s - a) % SeqSpan
    OBVIOUS
<1>6. d = IF s < a THEN s - a + SeqSpan ELSE s - a
    BY <1>4, Distance
<1>10. a \in Int /\ s \in Int /\ 0 <= a /\ a < SeqSpan /\ 0 <= s /\ s < SeqSpan
    BY Span DEF Seqs
<1>7. d = k
    BY <1>3, <1>6, <1>10, Span
<1>8. IsNewer(s, a) \/ s = a
  <2>1. IsNewer(s, a) <=> IF s - a = Half THEN s > a ELSE s # a /\ d < Half
    BY <1>4, Zenon DEF IsNewer, Half
  <2> QED BY <1>7, <1>10, <2>1, Span
<1>9. GetPacketIndex(h, s) = d
    BY <1>3, <1>4, <1>8, Zenon DEF GetPacketIndex
<1> QED BY <1>7, <1>9

\* GetStoredPacket finds the packet of number s, and finds it when it is there.
LEMMA StoredPacketIs ==
    ASSUME NEW h, Deque(h), NEW s \in Seqs
    PROVE  LET i == GetStoredPacket(h, s)
           IN  i = 0 \/ (i \in 1 .. Len(h) /\ h[i] # Hole /\ h[i].seq = s)
<1> DEFINE x == GetPacketIndex(h, s)
<1>1. GetStoredPacket(h, s) = IF x + 1 \in 1 .. Len(h) /\ h[x + 1] # Hole THEN x + 1 ELSE 0
    BY Zenon DEF GetStoredPacket
<1>2. CASE x + 1 \in 1 .. Len(h) /\ h[x + 1] # Hole
  <2>1. h \in Seq(Slots) /\ h # <<>> /\ Len(h) \in Nat
    BY <1>2 DEF Deque
  <2>2. PICK i \in 1 .. Len(h) : i = x + 1
    BY <1>2
  <2>3. /\ x \in -Half .. Half /\ h[1].seq \in Seqs
        /\ h[1].seq + x \in {s - SeqSpan, s, s + SeqSpan}
    BY <2>1, IndexIs
  <2> HIDE DEF x
  <2>4. /\ h[i] # Hole
        /\ h[i].seq = IF h[1].seq + (i - 1) < SeqSpan THEN h[1].seq + (i - 1)
                      ELSE (h[1].seq + (i - 1)) - SeqSpan
    BY <1>2, <2>2, SeqAt
  <2>5. PICK a \in Seqs : a = h[1].seq
    BY <2>3
  <2>6. i - 1 = x /\ a \in Int /\ s \in Int /\ 0 <= a /\ a < SeqSpan /\ 0 <= s /\ s < SeqSpan
        /\ 0 <= x /\ x <= Half
    BY <2>1, <2>2, <2>3, Span DEF Seqs
  <2>7. h[i].seq = s
    BY <2>3, <2>4, <2>5, <2>6, Span
  <2>8. GetStoredPacket(h, s) = i
    BY <1>1, <1>2, <2>2
  <2> QED BY <2>4, <2>7, <2>8
<1>3. CASE ~(x + 1 \in 1 .. Len(h) /\ h[x + 1] # Hole)
    BY <1>1, <1>3, Zenon
<1> QED BY <1>2, <1>3

LEMMA StoredPacketFinds ==
    ASSUME NEW h, Deque(h), Len(h) <= kMaxCapacity, NEW i \in 1 .. Len(h), h[i] # Hole
    PROVE  GetStoredPacket(h, h[i].seq) = i
<1>1. h \in Seq(Slots) /\ h # <<>> /\ Len(h) \in Nat
    BY DEF Deque
<1>2. /\ h[1].seq \in Seqs /\ h[i].seq \in Seqs
      /\ h[i].seq = IF h[1].seq + (i - 1) < SeqSpan THEN h[1].seq + (i - 1)
                    ELSE (h[1].seq + (i - 1)) - SeqSpan
    BY SeqAt
<1>3. PICK k \in Nat : k = i - 1 /\ k < Half
    BY <1>1, Span
<1>4. h[1].seq + k \in {h[i].seq, h[i].seq + SeqSpan}
    BY <1>2, <1>3, Span DEF Seqs
<1>5. GetPacketIndex(h, h[i].seq) = k
    BY <1>1, <1>2, <1>3, <1>4, IndexAfter
<1>6. k + 1 = i
    BY <1>3
<1> QED BY <1>5, <1>6, Zenon DEF GetStoredPacket

\* A nonempty set of naturals has a least element.
LEMMA Least ==
    ASSUME NEW T \in SUBSET Nat, T # {}
    PROVE  \E x \in T : \A y \in T : x <= y
<1> DEFINE R == OpToRel(<, Nat)
<1>1. IsWellFoundedOn(R, Nat)
    BY NatLessThanWellFounded
<1>2. \A x, y \in Nat : x < y => <<x, y>> \in R
    BY DEF OpToRel
<1> HIDE DEF R
<1>3. PICK x \in T : \A y \in T : ~(<<y, x>> \in R)
    BY <1>1, WFMin
<1>4. \A y \in T : ~(y < x)
    BY <1>2, <1>3, Zenon
<1> QED BY <1>4

LEMMA RemoveDeque ==
    ASSUME NEW h, Deque(h), NEW i \in 1 .. Len(h)
    PROVE  LET e == RemovePacket(h, i)
           IN  Deque(e) /\ Within(e, h) /\ Len(e) <= Len(h)
<1>0. h \in Seq(Slots) /\ Len(h) \in Nat /\ Hole \in Slots /\ Len(h) < SeqSpan
      /\ DOMAIN h = 1 .. Len(h)
    BY DEF Deque, Slots
<1>1. CASE i > 1
  <2> DEFINE e == [h EXCEPT ![i] = Hole]
  <2>1. /\ e \in Seq(Slots) /\ Len(e) = Len(h) /\ DOMAIN e = 1 .. Len(h) /\ e[1] = h[1]
        /\ \A j \in 1 .. Len(h) : e[j] # Hole => e[j] = h[j]
    BY <1>0, <1>1
  <2>2. RemovePacket(h, i) = e
    BY <1>1, Zenon DEF RemovePacket
  <2> HIDE DEF e
  <2>3. Aligned(e)
    BY <1>0, <1>1, <2>1 DEF Deque, Aligned
  <2>4. Within(e, h)
    BY <1>0, <2>1 DEF Within
  <2> QED BY <1>0, <2>1, <2>2, <2>3, <2>4 DEF Deque
<1>2. CASE ~(i > 1)
  <2> DEFINE real == {j \in 2 .. Len(h) : h[j] # Hole}
             first == CHOOSE j \in real : \A k \in real : j <= k
  <2>1. RemovePacket(h, i) = IF real = {} THEN <<>> ELSE SubSeq(h, first, Len(h))
    BY <1>2, Zenon DEF RemovePacket
  <2>2. CASE real = {}
    <3>1. RemovePacket(h, i) = <<>>
      BY <2>1, <2>2
    <3>2. Deque(<<>>) /\ Within(<<>>, h) /\ Len(<<>>) <= Len(h)
      BY <1>0, Span DEF Deque, Aligned, Within
    <3> QED BY <3>1, <3>2
  <2>3. CASE real # {}
    <3>1. real \in SUBSET Nat
      BY <1>0
    <3>2. \E j \in real : \A k \in real : j <= k
      BY <2>3, <3>1, Least
    <3>3. first \in real
      BY <3>2, Zenon
    <3>4. PICK j \in 2 .. Len(h) : j = first /\ h[j] # Hole
      BY <3>3
    <3> DEFINE c == SubSeq(h, j, Len(h))
    <3>5. RemovePacket(h, i) = c
      BY <2>1, <2>3, <3>4
    <3>6. /\ c \in Seq(Slots) /\ Len(c) = Len(h) - (j - 1) /\ j - 1 \in Nat /\ Len(c) <= Len(h)
          /\ \A k \in 1 .. Len(c) : c[k] = h[(j - 1) + k]
          /\ c[1] = h[j]
      BY <1>0
    <3> HIDE DEF c
    <3>7. Cut(h, c, j - 1) /\ c[1] # Hole
      BY <3>4, <3>6 DEF Cut
    <3>8. Deque(c) /\ Within(c, h)
      BY <3>6, <3>7, CutDeque
    <3> QED BY <3>5, <3>6, <3>8
  <2> QED BY <2>2, <2>3
<1> QED BY <1>1, <1>2

LEMMA DuplicateDeque ==
    ASSUME NEW h, Deque(h), NEW s \in Seqs
    PROVE  LET e == WithoutDuplicate(h, s)
           IN  /\ Deque(e) /\ Within(e, h) /\ Len(e) <= Len(h)
               /\ GetStoredPacket(h, s) = 0 => e = h
<1> DEFINE i == GetStoredPacket(h, s)
<1>1. i = 0 \/ i \in 1 .. Len(h)
    BY StoredPacketIs
<1>2. CASE i = 0
  <2>1. WithoutDuplicate(h, s) = h
    BY <1>2 DEF WithoutDuplicate
  <2>2. Within(h, h) /\ Len(h) <= Len(h)
    BY DEF Within, Deque
  <2> QED BY <2>1, <2>2
<1>3. CASE i \in 1 .. Len(h)
  <2>1. i > 0 /\ i # 0
    BY <1>3
  <2>2. WithoutDuplicate(h, s) = RemovePacket(h, i)
    BY <2>1, Zenon DEF WithoutDuplicate
  <2>3. PICK k \in 1 .. Len(h) : k = i
    BY <1>3
  <2>4. LET e == RemovePacket(h, k) IN Deque(e) /\ Within(e, h) /\ Len(e) <= Len(h)
    BY RemoveDeque
  <2> QED BY <2>1, <2>2, <2>3, <2>4
<1> QED BY <1>1, <1>2, <1>3

\* g is h, moved o slots back, with packet x at position m and holes around.
Put(h, g, x, o, m) ==
    /\ g \in Seq(Slots) /\ Len(g) < SeqSpan /\ m \in 1 .. Len(g) /\ o + Len(h) <= Len(g)
    /\ g[m] = x
    /\ \A j \in 1 .. Len(g) : j # m =>
          g[j] = IF j - o \in 1 .. Len(h) THEN h[j - o] ELSE Hole
    /\ m = 1 \/ o = 0
    /\ Len(g) \in {o + Len(h), m}

LEMMA HolesAre ==
    ASSUME NEW n \in Nat
    PROVE  LET H == [k \in 1 .. n |-> Hole]
           IN  H \in Seq(Slots) /\ Len(H) = n /\ \A k \in 1 .. n : H[k] = Hole
BY DEF Slots

LEMMA Joined ==
    ASSUME NEW T, NEW v \in Seq(T), NEW w \in Seq(T), NEW n, n = Len(v), NEW z, z = v \o w
    PROVE  /\ z \in Seq(T) /\ Len(z) = n + Len(w) /\ DOMAIN z = 1 .. Len(z)
           /\ \A j \in 1 .. Len(z) : z[j] = IF j <= n THEN v[j] ELSE w[j - n]
OBVIOUS

LEMMA PlacedIs ==
    ASSUME NEW h, Deque(h), Len(h) <= kMaxCapacity, NEW s \in Seqs, NEW p \in VideoPackets
    PROVE  \E o \in Nat, m \in Nat :
             /\ Put(h, Placed(h, s, p), Stored(s, p), o, m)
             /\ o + GetPacketIndex(h, s) = m - 1
<1> DEFINE i == GetPacketIndex(h, s)
           E == Expanded(h, i)
           g == [E EXCEPT ![IF i < 0 THEN 1 ELSE i + 1] = Stored(s, p)]
           H(n) == [k \in 1 .. n |-> Hole]
<1>1. h \in Seq(Slots) /\ Len(h) \in Nat
    BY DEF Deque
<1>2. i \in -Half .. Half
  <2>1. CASE h = <<>>
    BY <2>1, Span DEF GetPacketIndex
  <2>2. CASE h # <<>>
    BY <2>2, IndexIs
  <2> QED BY <2>1, <2>2
<1>3. i \in Int /\ -Half <= i /\ i <= Half /\ Half > 1
    BY <1>2, Span
<1>4. Placed(h, s, p) = g
    BY Zenon DEF Placed
<1>5. E = IF i < 0 THEN H(-i) \o h ELSE IF i >= Len(h) THEN h \o H(i + 1 - Len(h)) ELSE h
    BY Zenon DEF Expanded
<1> HIDE DEF i, E, H
<1>6. PICK x : x = Stored(s, p) /\ x \in Slots
    BY StoredIs
<1>7. CASE i < 0
  <2>1. PICK n \in Nat : n = -i
    BY <1>3, <1>7
  <2>2. H(n) \in Seq(Slots) /\ Len(H(n)) = n /\ \A k \in 1 .. n : H(n)[k] = Hole
    BY HolesAre DEF H
  <2>3. E = H(n) \o h
    BY <1>5, <1>7, <2>1
  <2>4. /\ E \in Seq(Slots) /\ Len(E) = n + Len(h) /\ DOMAIN E = 1 .. Len(E)
        /\ \A j \in 1 .. Len(E) : E[j] = IF j <= n THEN H(n)[j] ELSE h[j - n]
    <3>1. PICK w \in Seq(Slots) : w = H(n) /\ Len(w) = n
      BY <2>2
    <3>2. E = w \o h
      BY <2>3, <3>1
    <3>3. /\ E \in Seq(Slots) /\ Len(E) = n + Len(h) /\ DOMAIN E = 1 .. Len(E)
          /\ \A j \in 1 .. Len(E) : E[j] = IF j <= n THEN w[j] ELSE h[j - n]
      BY <1>1, <3>1, <3>2, Joined
    <3> QED BY <3>1, <3>3, Zenon
  <2>5. g = [E EXCEPT ![1] = x]
    BY <1>6, <1>7
  <2> HIDE DEF g
  <2>6. 1 \in DOMAIN E
    BY <1>1, <1>7, <1>3, <2>1, <2>4
  <2>7. /\ g \in Seq(Slots) /\ Len(g) = n + Len(h) /\ g[1] = x
        /\ \A j \in 1 .. Len(g) : j # 1 => g[j] = E[j]
    BY <1>6, <2>4, <2>5, <2>6
  <2>8. \A j \in 1 .. Len(g) : j # 1 => g[j] = IF j - n \in 1 .. Len(h) THEN h[j - n] ELSE Hole
    BY <1>1, <2>2, <2>4, <2>7
  <2>9. Len(g) < SeqSpan /\ n + i = 0 /\ 1 \in 1 .. Len(g) /\ n + Len(h) <= Len(g)
    BY <1>1, <1>3, <1>7, <2>1, <2>7, Span
  <2>10. Put(h, g, x, n, 1) /\ n + i = 1 - 1
    BY <2>7, <2>8, <2>9 DEF Put
  <2> QED BY <1>4, <1>6, <2>10 DEF i
<1>8. CASE i >= Len(h)
  <2>1. PICK n \in Nat : n = i + 1 - Len(h)
    BY <1>1, <1>3, <1>8
  <2>2. H(n) \in Seq(Slots) /\ Len(H(n)) = n /\ \A k \in 1 .. n : H(n)[k] = Hole
    BY HolesAre DEF H
  <2>3. E = h \o H(n)
    BY <1>1, <1>3, <1>5, <1>8, <2>1
  <2>4. /\ E \in Seq(Slots) /\ Len(E) = i + 1 /\ DOMAIN E = 1 .. Len(E)
        /\ \A j \in 1 .. Len(E) : E[j] = IF j <= Len(h) THEN h[j] ELSE H(n)[j - Len(h)]
    BY <1>1, <1>3, <2>1, <2>2, <2>3
  <2>5. g = [E EXCEPT ![i + 1] = x]
    <3>1. ~(i < 0)
      BY <1>1, <1>3, <1>8
    <3> QED BY <1>6, <3>1, Zenon
  <2> HIDE DEF g
  <2>6. i + 1 \in DOMAIN E /\ i + 1 \in Nat
    BY <1>1, <1>3, <1>8, <2>4
  <2>7. /\ g \in Seq(Slots) /\ Len(g) = i + 1 /\ g[i + 1] = x
        /\ \A j \in 1 .. Len(g) : j # i + 1 => g[j] = E[j]
    BY <1>6, <2>4, <2>5, <2>6
  <2>8. \A j \in 1 .. Len(g) : j # i + 1 =>
            g[j] = IF j - 0 \in 1 .. Len(h) THEN h[j - 0] ELSE Hole
    <3> SUFFICES ASSUME NEW j \in 1 .. Len(g), j # i + 1
                 PROVE  g[j] = IF j - 0 \in 1 .. Len(h) THEN h[j - 0] ELSE Hole
      OBVIOUS
    <3>1. j \in Int /\ 1 <= j /\ j <= i + 1 /\ j - 0 = j /\ g[j] = E[j]
      BY <1>3, <2>7
    <3>2. CASE j <= Len(h)
      BY <1>1, <2>4, <2>7, <3>1, <3>2
    <3>3. CASE j > Len(h)
      <4>1. j - Len(h) \in 1 .. n
        BY <1>1, <1>3, <2>1, <3>1, <3>3
      <4> QED BY <1>1, <2>2, <2>4, <2>7, <3>1, <3>3, <4>1
    <3> QED BY <1>1, <3>1, <3>2, <3>3
  <2>9. Len(g) < SeqSpan /\ 0 + i = (i + 1) - 1 /\ i + 1 \in 1 .. Len(g) /\ 0 + Len(h) <= Len(g)
    BY <1>1, <1>3, <1>8, <2>7, Span
  <2>10. Put(h, g, x, 0, i + 1) /\ 0 + i = (i + 1) - 1
    BY <2>7, <2>8, <2>9 DEF Put
  <2> QED BY <1>4, <1>6, <2>6, <2>10 DEF i
<1>9. CASE 0 <= i /\ i < Len(h)
  <2>1. E = h
    BY <1>1, <1>3, <1>5, <1>9
  <2>2. g = [h EXCEPT ![i + 1] = x]
    <3>1. ~(i < 0)
      BY <1>3, <1>9
    <3> QED BY <1>6, <2>1, <3>1, Zenon
  <2> HIDE DEF g
  <2>3. i + 1 \in 1 .. Len(h) /\ i + 1 \in Nat
    BY <1>1, <1>3, <1>9
  <2>4. /\ g \in Seq(Slots) /\ Len(g) = Len(h) /\ g[i + 1] = x
        /\ \A j \in 1 .. Len(g) : j # i + 1 => g[j] = h[j]
    BY <1>1, <1>6, <2>2, <2>3
  <2>5. \A j \in 1 .. Len(g) : j # i + 1 =>
            g[j] = IF j - 0 \in 1 .. Len(h) THEN h[j - 0] ELSE Hole
    BY <1>1, <2>4
  <2>6. Len(g) < SeqSpan /\ 0 + i = (i + 1) - 1 /\ i + 1 \in 1 .. Len(g) /\ 0 + Len(h) <= Len(g)
    BY <1>1, <1>3, <2>3, <2>4, Span
  <2>7. Put(h, g, x, 0, i + 1) /\ 0 + i = (i + 1) - 1
    BY <2>4, <2>5, <2>6 DEF Put
  <2> QED BY <1>4, <1>6, <2>3, <2>7 DEF i
<1> QED BY <1>1, <1>3, <1>7, <1>8, <1>9

\* The number at some distance from a, counted from another number s.
LEMMA Shift ==
    ASSUME NEW a \in Seqs, NEW s \in Seqs, NEW x \in Int,
           a + x \in {s - SeqSpan, s, s + SeqSpan},
           NEW i \in 1 .. SeqSpan - 1, NEW k \in 1 .. SeqSpan - 1, k = i + x
    PROVE  (IF a + (k - 1) < SeqSpan THEN a + (k - 1) ELSE (a + (k - 1)) - SeqSpan)
           = (IF s + (i - 1) < SeqSpan THEN s + (i - 1) ELSE (s + (i - 1)) - SeqSpan)
BY Span DEF Seqs

LEMMA PlacedDeque ==
    ASSUME NEW h, Deque(h), NEW s \in Seqs, NEW p \in VideoPackets,
           NEW o \in Nat, NEW m \in Nat, NEW g, Put(h, g, Stored(s, p), o, m),
           o + GetPacketIndex(h, s) = m - 1
    PROVE  /\ Deque(g)
           /\ \A j \in DOMAIN g : g[j] # Hole =>
                 g[j] = Stored(s, p) \/ \E k \in DOMAIN h : h[k] = g[j]
<1>1. h \in Seq(Slots) /\ Len(h) \in Nat /\ DOMAIN h = 1 .. Len(h) /\ Len(h) < SeqSpan
    BY DEF Deque
<1>2. /\ g \in Seq(Slots) /\ Len(g) \in Nat /\ DOMAIN g = 1 .. Len(g) /\ Len(g) < SeqSpan
      /\ m \in 1 .. Len(g) /\ g[m] = Stored(s, p)
      /\ m = 1 \/ o = 0
    BY DEF Put
<1>3. \A j \in 1 .. Len(g) : j # m =>
          g[j] = IF j - o \in 1 .. Len(h) THEN h[j - o] ELSE Hole
    BY DEF Put
<1>4. g[m] # Hole /\ g[m].seq = s
  <2>1. Stored(s, p) # Hole /\ Stored(s, p).seq = s
    BY StoredIs
  <2> QED BY <1>2, <2>1
<1>5. \A j \in DOMAIN g : g[j] # Hole =>
         g[j] = Stored(s, p) \/ \E k \in DOMAIN h : h[k] = g[j]
  <2> SUFFICES ASSUME NEW j \in DOMAIN g, g[j] # Hole, j # m
               PROVE  \E k \in DOMAIN h : h[k] = g[j]
    BY <1>2
  <2>1. j - o \in 1 .. Len(h) /\ g[j] = h[j - o]
    BY <1>2, <1>3
  <2> QED BY <1>1, <2>1
<1>6. s \in Int /\ 0 <= s /\ s < SeqSpan
    BY Span DEF Seqs
<1>7. CASE h = <<>>
  <2>1. m = 1 /\ o = 0 /\ Len(h) = 0
    BY <1>2, <1>7 DEF GetPacketIndex
  <2>2. \A j \in 1 .. Len(g) : g[j] # Hole => j = 1
    BY <1>3, <2>1
  <2>3. \A i \in 1 .. Len(g) : g[i] # Hole =>
           g[i].seq = IF g[1].seq + (i - 1) < SeqSpan THEN g[1].seq + (i - 1)
                      ELSE (g[1].seq + (i - 1)) - SeqSpan
    BY <1>4, <1>6, <2>1, <2>2
  <2>4. Deque(g)
    BY <1>2, <1>4, <2>1, <2>3, AlignedIf
  <2> QED BY <1>5, <2>4
<1>8. CASE h # <<>>
  <2>1. PICK x \in -Half .. Half : x = GetPacketIndex(h, s)
    BY <1>8, IndexIs
  <2>2. PICK a \in Seqs : a = h[1].seq /\ a + x \in {s - SeqSpan, s, s + SeqSpan}
    BY <1>8, <2>1, IndexIs
  <2>3. /\ a \in Int /\ 0 <= a /\ a < SeqSpan /\ x \in Int /\ -Half <= x /\ x <= Half
        /\ o + x = m - 1 /\ h[1] # Hole
    BY <1>8, <2>1, Span DEF Seqs, Deque, Aligned
  <2>4. \A k \in 1 .. Len(h) : h[k] # Hole =>
           h[k].seq = IF a + (k - 1) < SeqSpan THEN a + (k - 1) ELSE (a + (k - 1)) - SeqSpan
    BY <2>2, SeqAt
  <2>5. g[1] # Hole /\ g[1].seq = IF m = 1 THEN s ELSE a
    <3>1. CASE m = 1
      BY <1>4, <3>1
    <3>2. CASE m # 1
      <4>1. o = 0 /\ 1 \in 1 .. Len(g) /\ 1 - o = 1 /\ 1 \in 1 .. Len(h)
        BY <1>1, <1>2, <1>8, <3>2
      <4>2. g[1] = h[1]
        BY <1>3, <3>2, <4>1
      <4> QED BY <2>2, <2>3, <3>2, <4>2
    <3> QED BY <3>1, <3>2
  <2>6. ASSUME NEW i \in 1 .. Len(g), g[i] # Hole
        PROVE  g[i].seq = IF g[1].seq + (i - 1) < SeqSpan THEN g[1].seq + (i - 1)
                          ELSE (g[1].seq + (i - 1)) - SeqSpan
    <3>1. PICK b : b = g[1].seq
      OBVIOUS
    <3>2. PICK y : y = g[i].seq
      OBVIOUS
    <3>3. b = IF m = 1 THEN s ELSE a
      BY <2>5, <3>1
    <3>4. i \in Int /\ 1 <= i /\ i < SeqSpan
      BY <1>2, Span
    <3>5. CASE i = m
      <4>1. y = s
        BY <1>4, <3>2, <3>5
      <4>2. y = IF b + (i - 1) < SeqSpan THEN b + (i - 1) ELSE (b + (i - 1)) - SeqSpan
        BY <1>2, <1>6, <2>2, <2>3, <3>3, <3>4, <3>5, <4>1, Span
      <4> QED BY <3>1, <3>2, <4>2
    <3>6. CASE i # m
      <4>1. PICK k \in 1 .. Len(h) : k = i - o /\ g[i] = h[k]
        BY <1>3, <2>6, <3>6
      <4>2. y = IF a + (k - 1) < SeqSpan THEN a + (k - 1) ELSE (a + (k - 1)) - SeqSpan
        BY <2>4, <2>6, <3>2, <4>1
      <4>3. k \in Int /\ 1 <= k /\ k < SeqSpan
        BY <1>1, Span
      <4>4. y = IF b + (i - 1) < SeqSpan THEN b + (i - 1) ELSE (b + (i - 1)) - SeqSpan
        <5>1. CASE m = 1
          <6>1. b = s /\ o = -x
            BY <2>3, <3>3, <5>1
          <6>2. k = i + x /\ i \in 1 .. SeqSpan - 1 /\ k \in 1 .. SeqSpan - 1 /\ x \in Int
            BY <2>3, <3>4, <4>1, <4>3, <6>1, Span
          <6>3. a + x \in {s - SeqSpan, s, s + SeqSpan}
            BY <2>2
          <6>4. y = IF s + (i - 1) < SeqSpan THEN s + (i - 1) ELSE (s + (i - 1)) - SeqSpan
            BY <4>2, <6>2, <6>3, Shift
          <6> QED BY <6>1, <6>4
        <5>2. CASE m # 1
          <6>1. b = a /\ o = 0
            BY <1>2, <3>3, <5>2
          <6> QED BY <2>3, <3>4, <4>1, <4>2, <4>3, <6>1, Span
        <5> QED BY <5>1, <5>2
      <4> QED BY <3>1, <3>2, <4>4
    <3> QED BY <3>5, <3>6
  <2>7. Deque(g)
    BY <1>2, <2>5, <2>6, AlignedIf
  <2> QED BY <1>5, <2>7
<1> QED BY <1>7, <1>8

LEMMA PutSteps ==
    ASSUME NEW h, NEW s, NEW p, NEW r \in PutRtpPacket(h, s, p)
    PROVE  \E c \in RemoveDeadPackets(h) :
             r \in RemoveDeadPackets(Placed(WithoutDuplicate(c, s), s, p))
BY DEF PutRtpPacket

\* Whatever the numbers are, the history stays a deque, and gains one packet.
LEMMA PutDeque ==
    ASSUME NEW h, Deque(h), NEW s \in Seqs, NEW p \in VideoPackets,
           NEW r \in PutRtpPacket(h, s, p)
    PROVE  /\ Deque(r) /\ Len(r) <= kMaxCapacity
           /\ \A j \in DOMAIN r : r[j] # Hole =>
                 r[j] = Stored(s, p) \/ \E k \in DOMAIN h : h[k] = r[j]
<1>1. PICK c \in RemoveDeadPackets(h) :
         r \in RemoveDeadPackets(Placed(WithoutDuplicate(c, s), s, p))
    BY PutSteps
<1>2. Deque(c) /\ Within(c, h) /\ Len(c) <= kMaxCapacity /\ Len(c) \in Nat
    BY CullDeque DEF Deque
<1>3. PICK e : e = WithoutDuplicate(c, s)
    OBVIOUS
<1>4. Deque(e) /\ Within(e, c) /\ Len(e) <= Len(c)
    BY <1>2, <1>3, DuplicateDeque
<1>5. Len(e) <= kMaxCapacity
    BY <1>2, <1>4, Span DEF Deque
<1>6. PICK g : g = Placed(e, s, p)
    OBVIOUS
<1>7. PICK o \in Nat, m \in Nat :
         Put(e, g, Stored(s, p), o, m) /\ o + GetPacketIndex(e, s) = m - 1
    BY <1>4, <1>5, <1>6, PlacedIs
<1>8. /\ Deque(g)
      /\ \A j \in DOMAIN g : g[j] # Hole =>
            g[j] = Stored(s, p) \/ \E k \in DOMAIN e : e[k] = g[j]
    BY <1>4, <1>7, PlacedDeque
<1>9. r \in RemoveDeadPackets(g)
    BY <1>1, <1>3, <1>6
<1>10. Deque(r) /\ Within(r, g) /\ Len(r) <= kMaxCapacity
    BY <1>8, <1>9, CullDeque
<1>11. ASSUME NEW j \in DOMAIN r, r[j] # Hole
       PROVE  r[j] = Stored(s, p) \/ \E k \in DOMAIN h : h[k] = r[j]
  <2>1. PICK y : y = r[j]
    OBVIOUS
  <2>2. PICK j1 \in DOMAIN g : g[j1] = y
    BY <1>10, <1>11, <2>1 DEF Within
  <2>3. CASE y # Stored(s, p)
    <3>1. PICK j2 \in DOMAIN e : e[j2] = y
      BY <1>8, <1>11, <2>1, <2>2, <2>3
    <3>2. PICK j3 \in DOMAIN c : c[j3] = y
      BY <1>4, <1>11, <2>1, <3>1 DEF Within
    <3>3. \E k \in DOMAIN h : h[k] = y
      BY <1>2, <1>11, <2>1, <3>2 DEF Within
    <3> QED BY <2>1, <3>3
  <2> QED BY <2>1, <2>3
<1> QED BY <1>10, <1>11

\* The deque has no holes, and its newest packet is number s - 1.
Full(h, s) ==
    /\ \A i \in 1 .. Len(h) : h[i] # Hole
    /\ h # <<>> => h[1].seq + Len(h) \in {s, s + SeqSpan}

\* The next number in turn goes to the back, and some packets from the front.
LEMMA PutNext ==
    ASSUME NEW h, Deque(h), Len(h) <= kMaxCapacity, NEW s \in Seqs, NEW p \in VideoPackets,
           Full(h, s), NEW r \in PutRtpPacket(h, s, p)
    PROVE  \E k \in 0 .. Len(h) + 1 : Cut(Append(h, Stored(s, p)), r, k)
<1>0. h \in Seq(Slots) /\ Len(h) \in Nat /\ Len(h) < SeqSpan
    BY DEF Deque
<1>1. PICK c \in RemoveDeadPackets(h) :
         r \in RemoveDeadPackets(Placed(WithoutDuplicate(c, s), s, p))
    BY PutSteps
<1>2. Deque(c) /\ Len(c) <= kMaxCapacity /\ Len(c) \in Nat /\ c \in Seq(Slots)
    BY CullDeque DEF Deque
<1>3. PICK n \in 0 .. Len(h) : Cut(h, c, n)
    BY <1>0, CullIs
<1>4. n \in Nat /\ Len(c) = Len(h) - n /\ \A i \in 1 .. Len(c) : c[i] = h[n + i]
    BY <1>0, <1>3 DEF Cut
<1>l. PICK y \in Nat, z \in Nat : y = Len(h) /\ z = Len(c) /\ z = y - n
    BY <1>0, <1>2, <1>4
<1>5. GetPacketIndex(c, s) = Len(c)
  <2>1. CASE c = <<>>
    BY <2>1 DEF GetPacketIndex
  <2>2. CASE c # <<>>
    <3>1. Len(c) < Half /\ n + 1 \in 1 .. Len(h) /\ 1 \in 1 .. Len(c) /\ h # <<>>
      BY <1>0, <1>2, <1>4, <2>2, Span
    <3>2. /\ h[1].seq \in Seqs /\ c[1] = h[n + 1]
          /\ h[n + 1].seq = IF h[1].seq + ((n + 1) - 1) < SeqSpan
                            THEN h[1].seq + ((n + 1) - 1)
                            ELSE (h[1].seq + ((n + 1) - 1)) - SeqSpan
      BY <1>4, <3>1, SeqAt DEF Full
    <3>3. PICK a \in Seqs : a = h[1].seq /\ a + Len(h) \in {s, s + SeqSpan}
      BY <3>1, <3>2 DEF Full
    <3>4. PICK b : b = c[1].seq
      OBVIOUS
    <3>5. b = IF a + n < SeqSpan THEN a + n ELSE (a + n) - SeqSpan
      BY <1>4, <3>2, <3>3, <3>4, Span DEF Seqs
    <3>6. c[1] # Hole
      BY <2>2, <1>2 DEF Deque, Aligned
    <3>7. b \in Seqs
      BY <1>2, <3>1, <3>4, <3>6, SeqAt
    <3>8. b + Len(c) \in {s, s + SeqSpan}
      <4>1. a \in Int /\ b \in Int /\ 0 <= b /\ s \in Int /\ s < SeqSpan
        BY <3>7, Span DEF Seqs
      <4>2. b + Len(c) = a + Len(h) \/ b + Len(c) = (a + Len(h)) - SeqSpan
        <5>0. b = a + n \/ b = (a + n) - SeqSpan
          BY <3>5, Zenon
        <5>2. z = y - n /\ n \in Nat
          BY <1>4, <1>l
        <5>1. b + z = a + y \/ b + z = (a + y) - SeqSpan
          BY <4>1, <5>0, <5>2, Span
        <5> QED BY <1>l, <5>1
      <4>3. b + Len(c) \in Int /\ 0 <= b + Len(c)
        BY <1>2, <4>1
      <4>4. a + Len(h) = s \/ a + Len(h) = s + SeqSpan
        BY <3>3
      <4>5. b + Len(c) # s - SeqSpan
        BY <4>1, <4>3, Span
      <4> QED BY <4>1, <4>2, <4>4, <4>5, Span
    <3> QED BY <1>2, <2>2, <3>1, <3>4, <3>8, IndexAfter
  <2> QED BY <2>1, <2>2
<1>6. WithoutDuplicate(c, s) = c
  <2>1. ~(Len(c) + 1 \in 1 .. Len(c))
    BY <1>2
  <2>2. GetStoredPacket(c, s) = 0
    BY <1>5, <2>1, Zenon DEF GetStoredPacket
  <2> QED BY <1>2, <2>2, DuplicateDeque
<1>7. PICK g : g = Placed(c, s, p) /\ r \in RemoveDeadPackets(g)
    BY <1>1, <1>6
<1>8. PICK o \in Nat, m \in Nat :
         Put(c, g, Stored(s, p), o, m) /\ o + GetPacketIndex(c, s) = m - 1
    BY <1>2, <1>7, PlacedIs
<1>9. /\ o = 0 /\ m = Len(c) + 1 /\ Len(g) = Len(c) + 1 /\ g \in Seq(Slots)
      /\ g[m] = Stored(s, p)
    BY <1>2, <1>5, <1>8 DEF Put
<1>10. \A j \in 1 .. Len(c) : g[j] = c[j]
  <2> SUFFICES ASSUME NEW j \in 1 .. Len(c) PROVE g[j] = c[j]
    OBVIOUS
  <2>1. j \in 1 .. Len(g) /\ j # m /\ j - o = j
    BY <1>2, <1>9
  <2>2. g[j] = IF j - o \in 1 .. Len(c) THEN c[j - o] ELSE Hole
    BY <1>8, <2>1 DEF Put
  <2> QED BY <2>1, <2>2
<1>11. PICK l \in 0 .. Len(g) : Cut(g, r, l) /\ r \in Seq(Slots)
    BY <1>7, <1>9, CullIs
<1>12. PICK x \in Slots : x = Stored(s, p)
    BY StoredIs
<1>13. PICK q : q = Append(h, x)
    OBVIOUS
<1>14. /\ q \in Seq(Slots) /\ Len(q) = Len(h) + 1 /\ q[Len(h) + 1] = x
       /\ \A i \in 1 .. Len(h) : q[i] = h[i]
    BY <1>0, <1>13
<1>15. Len(r) \in Nat /\ Len(r) = Len(g) - l /\ \A i \in 1 .. Len(r) : r[i] = g[l + i]
    BY <1>11 DEF Cut
<1>16. PICK k \in 0 .. Len(h) + 1 : k = n + l
    BY <1>0, <1>4, <1>9
<1>17. Len(r) = Len(q) - k
    BY <1>0, <1>4, <1>9, <1>14, <1>15, <1>16
<1>18. ASSUME NEW i \in 1 .. Len(r) PROVE r[i] = q[k + i]
  <2>1. r[i] = g[l + i] /\ l + i \in 1 .. Len(g) /\ l + i \in Int
    BY <1>9, <1>15
  <2>2. CASE l + i <= Len(c)
    <3>1. l + i \in 1 .. Len(c) /\ n + (l + i) = k + i /\ k + i \in 1 .. Len(h)
      BY <1>0, <1>2, <1>4, <1>16, <2>1, <2>2
    <3>2. g[l + i] = h[n + (l + i)]
      BY <1>4, <1>10, <3>1
    <3>3. q[k + i] = h[k + i]
      BY <1>14, <3>1
    <3> QED BY <2>1, <3>1, <3>2, <3>3
  <2>3. CASE l + i > Len(c)
    <3>1. l + i = m /\ k + i = Len(h) + 1
      <4>1. l + i = m
        BY <1>2, <1>9, <2>1, <2>3
      <4>2. k + i = n + (l + i)
        BY <1>4, <1>16, <1>15
      <4>3. m = z + 1 /\ n + (z + 1) = y + 1
        BY <1>4, <1>9, <1>l
      <4> QED BY <1>l, <4>1, <4>2, <4>3
    <3> QED BY <1>9, <1>12, <1>14, <2>1, <3>1
  <2> QED BY <1>2, <2>1, <2>2, <2>3
<1>19. Cut(q, r, k)
    BY <1>17, <1>18 DEF Cut
<1> QED BY <1>12, <1>13, <1>19

\* A change of the marks of one packet.
Remarked(h, g) ==
    /\ DOMAIN g = DOMAIN h
    /\ \A i \in DOMAIN h : (g[i] = Hole) <=> (h[i] = Hole)
    /\ \A i \in DOMAIN h : h[i] # Hole => g[i].seq = h[i].seq /\ g[i].pkt = h[i].pkt

\* g is h with x, the same packet, at i.
Changed(h, g, i, x) ==
    /\ i \in 1 .. Len(h) /\ h[i] # Hole
    /\ x \in Packet /\ x.seq = h[i].seq /\ x.pkt = h[i].pkt
    /\ g \in Seq(Slots) /\ Len(g) = Len(h) /\ g[i] = x
    /\ \A j \in 1 .. Len(h) : j # i => g[j] = h[j]

LEMMA ChangedIs ==
    ASSUME NEW h, Deque(h), NEW i \in 1 .. Len(h), h[i] # Hole,
           NEW x \in Packet, x.seq = h[i].seq, x.pkt = h[i].pkt
    PROVE  Changed(h, [h EXCEPT ![i] = x], i, x)
<1>1. h \in Seq(Slots)
    BY DEF Deque
<1>2. x \in Slots
    BY DEF Slots, Packet
<1>3. PICK g : g = [h EXCEPT ![i] = x]
    OBVIOUS
<1>4. /\ g \in Seq(Slots) /\ Len(g) = Len(h) /\ g[i] = x
      /\ \A j \in 1 .. Len(h) : j # i => g[j] = h[j]
    BY <1>1, <1>2, <1>3
<1> QED BY <1>3, <1>4 DEF Changed

LEMMA RemarkDeque ==
    ASSUME NEW h, Deque(h), NEW g, NEW i, NEW x, Changed(h, g, i, x)
    PROVE  Deque(g) /\ Len(g) = Len(h) /\ Remarked(h, g)
<1>1. h \in Seq(Slots) /\ Len(h) \in Nat /\ DOMAIN h = 1 .. Len(h) /\ h # <<>>
    BY DEF Deque, Changed
<1>2. x \in Slots /\ x # Hole
    BY DEF Changed, Slots, Packet, Hole
<1>3. /\ g \in Seq(Slots) /\ Len(g) = Len(h) /\ DOMAIN g = 1 .. Len(h)
      /\ g[i] = x /\ \A j \in 1 .. Len(h) : j # i => g[j] = h[j]
      /\ i \in 1 .. Len(h) /\ h[i] # Hole /\ x.seq = h[i].seq /\ x.pkt = h[i].pkt
    BY <1>1 DEF Changed
<1>4. Remarked(h, g)
    BY <1>1, <1>2, <1>3 DEF Remarked
<1>5. Deque(g)
  <2>1. h[1] # Hole /\ 1 \in 1 .. Len(h)
    BY <1>1 DEF Deque, Aligned
  <2>2. g[1] # Hole /\ g[1].seq = h[1].seq
    BY <1>1, <1>4, <2>1 DEF Remarked
  <2>3. \A j \in 1 .. Len(h) : g[j] # Hole => g[j].seq = (g[1].seq + j - 1) % SeqSpan
    BY <1>1, <1>4, <2>2 DEF Deque, Aligned, Remarked
  <2> QED BY <1>3, <2>2, <2>3 DEF Deque, Aligned
<1> QED BY <1>3, <1>4, <1>5
-----------------------------------------------------------------------------
(* The invariant                                                             *)

\* Capture and encode threads: every frame admitted is waiting, with the
\* encoder, or was given a number.
CaptureInv ==
    /\ b_force_i_frame \in BOOLEAN /\ force_i_frame \in BOOLEAN
    /\ idr \in BOOLEAN /\ owed \in Places
    /\ encode_queue \in Seq(BOOLEAN) /\ Len(encode_queue) <= 1
    /\ encoding \in Seq(BOOLEAN) /\ Len(encoding) <= 1
    /\ captured \in 0 .. MaxFrames /\ frame \in Nat
    /\ frame + Len(encode_queue) + Len(encoding) <= captured
    /\ firs \in 0 .. MaxFirs
    /\ KeyRequestIsHeld

\* The shutdown goes from the pacer to the history queue.
ShutdownInv ==
    /\ rtx_enabled \in BOOLEAN /\ pacer_shutdown \in BOOLEAN
    /\ history_shutdown \in BOOLEAN /\ history_stopped \in BOOLEAN
    /\ destroy \in {"no", "joining", "detached", "done"}
    /\ destroy # "no" => pacer_shutdown
    /\ history_shutdown => pacer_shutdown
    /\ history_stopped => history_shutdown

PacerTypes ==
    /\ pacer_tasks \in Seq(FrameTasks \cup RtxTasks(Seqs))
    /\ video_queue \in Seq(VideoPackets) /\ rtx_queue \in Seq(RtxPackets(Seqs))
    /\ ssrc_seq \in Seqs /\ out \in Seq(SentPackets)

\* The last frame that the pacer has taken.
Enqueued == frame - Count(pacer_tasks, 1, FrameTasks)

\* The frames on their way to the pacer are the next ones, in order.
FramesInOrder ==
    \A i \in DOMAIN pacer_tasks : pacer_tasks[i] \in FrameTasks =>
        pacer_tasks[i].f = frame - Count(pacer_tasks, i + 1, FrameTasks)

\* The packets at m and n of S have only padding between them.
Adjacent(S, m, n) ==
    /\ m < n /\ S[m].f # 0 /\ S[n].f # 0
    /\ \A k \in m + 1 .. n - 1 : S[k].f = 0

Follows(a, b) ==
    \/ b.f = a.f /\ b.i = a.i + 1 /\ b.key = a.key
    \/ b.i = 1 /\ b.f = a.f + 1 /\ a.i = PktsPerFrame
    \/ b.i = 1 /\ b.f > a.f /\ b.key /\ (a.key => a.i = PktsPerFrame)

\* A stream in which the last frame is complete and has number f.
StreamOK(S, f) ==
    /\ \A n \in 1 .. Len(S) : S[n].f <= f
    /\ \A m, n \in 1 .. Len(S) : Adjacent(S, m, n) => Follows(S[m], S[n])
    /\ \A n \in 1 .. Len(S) :
         S[n].f # 0 /\ (\A k \in n + 1 .. Len(S) : S[k].f = 0) =>
            S[n].f = f /\ S[n].i = PktsPerFrame

StreamInv ==
    /\ FramesInOrder
    /\ \A i \in 1 .. Len(video_queue) : video_queue[i].f # 0
    /\ StreamOK(Stream, Enqueued)

\* A number still to be answered is in hand of one task, and one was negotiated.
NackInv ==
    /\ in_nack_task \in BOOLEAN /\ nack_task_scheduled \in BOOLEAN /\ nack_post \in BOOLEAN
    /\ nacks \in 0 .. MaxNacks
    /\ batch \subseteq Seqs /\ Cardinality(batch) <= kMaxNacksPerTask
    /\ pending_nacks \subseteq Seqs /\ Cardinality(pending_nacks) <= kMaxCapacity
    /\ pending_nacks \cup batch # {} => rtx_enabled
    /\ NacksHaveTask

\* The numbers of what was sent run up to the next one.
NumbersInv ==
    \A i \in DOMAIN out : ssrc_seq = (out[i].seq + ((Len(out) + 1) - i)) % SeqSpan

HistoryInv ==
    /\ Deque(packet_history) /\ Len(packet_history) <= kMaxCapacity
    /\ history_tasks \in Seq(HistoryTasks)
    /\ NumbersInv
    /\ HistoryIsTailOfOut

IInv ==
    /\ faults \in 0 .. MaxFaults
    /\ CaptureInv
    /\ ShutdownInv
    /\ PacerTypes
    /\ StreamInv
    /\ NackInv
    /\ HistoryInv
-----------------------------------------------------------------------------
(* Retransmissions in flight, as long as no number was used twice            *)

\* Number s is among the first n of o.
Passed(s, o, n) == \E i \in 1 .. n : o[i].seq = s

\* What is in flight has been in the history.
FlightInv ==
    ~pacer_shutdown /\ Len(out) <= SeqSpan =>
      /\ \A s \in Seqs : InFlight(s) # 0 =>
            rtx_enabled /\ Passed(s, out, Len(out) - Count(history_tasks, 1, Puts))
      /\ PendingIsInFlight
-----------------------------------------------------------------------------
(* Capture, key frame requests, encoding                                     *)

CaptureStep ==
    SendVideo \/ FullIntraRequest \/ EncodeTaskStarts \/ EncodeTaskGivesUp \/ EncodeTask

\* A sequence of at most one element.
LEMMA AtMostOne ==
    ASSUME NEW S, NEW q \in Seq(S), Len(q) <= 1
    PROVE  q = <<>> \/ (q = <<q[1]>> /\ q[1] \in S /\ q # <<>> /\ Len(q) = 1)
<1>1. Len(q) \in Nat /\ (Len(q) = 0 <=> q = <<>>)
    OBVIOUS
<1>2. CASE Len(q) = 1
  <2>1. q[1] \in S /\ DOMAIN q = 1 .. 1
    BY <1>2
  <2>2. q = <<q[1]>>
    BY <1>2, <2>1
  <2> QED BY <1>1, <1>2, <2>1, <2>2
<1>3. Len(q) = 0 \/ Len(q) = 1
  <2>1. PICK n \in Nat : n = Len(q) /\ n <= 1
    OBVIOUS
  <2> QED BY <2>1
<1> QED BY <1>1, <1>2, <1>3, Zenon

LEMMA Single ==
    ASSUME NEW S, NEW x \in S
    PROVE  /\ <<x>> \in Seq(S) /\ Len(<<x>>) = 1 /\ <<x>> # <<>> /\ <<x>>[1] = x
           /\ Head(<<x>>) = x /\ Tail(<<x>>) = <<>>
           /\ <<>> \in Seq(S) /\ Len(<<>>) = 0
OBVIOUS

\* Where the newest request has to be, it is.
Held(f, i, o, q, e) ==
    /\ o = "asked" => f
    /\ o = "admitted" => q = <<TRUE>>
    /\ o = "encoding" => e = <<TRUE>>
    /\ o = "told" => i

LEMMA CaptureKeeps ==
    ASSUME IInv, CaptureStep
    PROVE  CaptureInv' /\ (faults \in 0 .. MaxFaults)'
<1> DEFINE Types(b, f, i, o, q, e, c, n, r) ==
             /\ b \in BOOLEAN /\ f \in BOOLEAN /\ i \in BOOLEAN /\ o \in Places
             /\ q \in Seq(BOOLEAN) /\ Len(q) <= 1 /\ e \in Seq(BOOLEAN) /\ Len(e) <= 1
             /\ c \in 0 .. MaxFrames /\ n \in Nat /\ n + Len(q) + Len(e) <= c
             /\ r \in 0 .. MaxFirs
<1>1. /\ Types(b_force_i_frame, force_i_frame, idr, owed, encode_queue, encoding, captured,
               frame, firs)
      /\ faults \in 0 .. MaxFaults
    BY DEF IInv, CaptureInv
<1>2. Held(force_i_frame, idr, owed, encode_queue, encoding)
    BY DEF IInv, CaptureInv, KeyRequestIsHeld, Held
<1> SUFFICES /\ Types(b_force_i_frame', force_i_frame', idr', owed', encode_queue', encoding',
                      captured', frame', firs')
             /\ faults' \in 0 .. MaxFaults
             /\ Held(force_i_frame', idr', owed', encode_queue', encoding')
  <2>1. ASSUME Types(b_force_i_frame', force_i_frame', idr', owed', encode_queue', encoding',
                     captured', frame', firs'),
               Held(force_i_frame', idr', owed', encode_queue', encoding')
        PROVE  CaptureInv'
    <3>1. KeyRequestIsHeld'
      BY <2>1, Zenon DEF KeyRequestIsHeld, Held
    <3> QED BY <2>1, <3>1 DEF CaptureInv
  <2> QED BY <2>1
<1>3. encode_queue = <<>> \/ (encode_queue = <<encode_queue[1]>> /\ encode_queue[1] \in BOOLEAN
                              /\ encode_queue # <<>> /\ Len(encode_queue) = 1)
    BY <1>1, AtMostOne
<1>4. encoding = <<>> \/ (encoding = <<encoding[1]>> /\ encoding[1] \in BOOLEAN
                          /\ encoding # <<>> /\ Len(encoding) = 1)
    BY <1>1, AtMostOne
<1>a. <<>> # <<TRUE>>
    OBVIOUS
<1>5. CASE SendVideo
  <2>1. PICK x \in BOOLEAN : x = (b_force_i_frame \/ force_i_frame)
    OBVIOUS
  <2>2. /\ encode_queue = <<>> /\ encode_queue' = <<x>> /\ captured' = captured + 1
        /\ captured < MaxFrames /\ b_force_i_frame' = FALSE /\ force_i_frame' = FALSE
        /\ owed' = IF owed = "asked" THEN "admitted" ELSE owed
        /\ UNCHANGED <<encoding, idr, frame, firs, faults>>
    BY <1>5, <2>1 DEF SendVideo
  <2>3. /\ encode_queue' \in Seq(BOOLEAN) /\ Len(encode_queue') = 1 /\ encode_queue' # <<>>
        /\ encode_queue'[1] = x
    BY <2>2, Single, Zenon
  <2>4. Held(force_i_frame', idr', owed', encode_queue', encoding') /\ owed' \in Places
    <3>1. CASE owed = "asked"
      <4>1. owed' = "admitted" /\ x = TRUE
        BY <1>2, <2>1, <2>2, <3>1 DEF Held
      <4>2. encode_queue' = <<TRUE>>
        BY <2>2, <4>1
      <4> QED BY <4>1, <4>2 DEF Held, Places
    <3>2. CASE owed # "asked"
      <4>1. owed' = owed /\ owed # "admitted"
        BY <1>2, <1>a, <2>2, <3>2 DEF Held
      <4> QED BY <1>1, <1>2, <2>2, <3>2, <4>1, Zenon DEF Held
    <3> QED BY <3>1, <3>2
  <2>5. captured' \in 0 .. MaxFrames /\ frame' + Len(encode_queue') + Len(encoding') <= captured'
    <3>1. Len(encode_queue) = 0
      BY <2>2
    <3>2. frame + 0 + Len(encoding) <= captured /\ Len(encoding) \in Nat
      BY <1>1, <3>1
    <3> QED BY <1>1, <2>2, <2>3, <3>2, Span
  <2>6. Len(encode_queue') <= 1
    BY <2>3
  <2> QED BY <1>1, <2>2, <2>3, <2>4, <2>5, <2>6, Zenon
<1>6. CASE FullIntraRequest
  <2>1. /\ owed' = "asked" /\ force_i_frame' = TRUE
        /\ UNCHANGED <<b_force_i_frame, encode_queue, encoding, idr, captured, frame, faults>>
    BY <1>6 DEF FullIntraRequest
  <2>2. Held(force_i_frame', idr', owed', encode_queue', encoding') /\ owed' \in Places
    BY <2>1 DEF Held, Places
  <2>3. firs' \in 0 .. MaxFirs
    BY <1>1, <1>6, Span DEF FullIntraRequest
  <2> QED BY <1>1, <2>1, <2>2, <2>3
<1>7. CASE EncodeTaskStarts
  <2>1. /\ encoding = <<>> /\ encode_queue # <<>> /\ encoding' = <<encode_queue[1]>>
        /\ encode_queue' = <<>>
        /\ owed' = IF owed = "admitted" THEN "encoding" ELSE owed
        /\ UNCHANGED <<b_force_i_frame, force_i_frame, idr, captured, frame, firs, faults>>
    <3>1. encode_queue # <<>> /\ encoding' = <<Head(encode_queue)>> /\ encode_queue' = Tail(encode_queue)
      BY <1>7 DEF EncodeTaskStarts
    <3>2. Head(encode_queue) = encode_queue[1] /\ Tail(encode_queue) = <<>>
      BY <1>3, <3>1, Single, Zenon
    <3>3. /\ encoding = <<>> /\ owed' = IF owed = "admitted" THEN "encoding" ELSE owed
          /\ UNCHANGED <<b_force_i_frame, force_i_frame, idr, captured, frame, firs, faults>>
      BY <1>7 DEF EncodeTaskStarts
    <3> QED BY <3>1, <3>2, <3>3, Zenon
  <2>2. Held(force_i_frame', idr', owed', encode_queue', encoding') /\ owed' \in Places
    <3>1. CASE owed = "admitted"
      <4>1. owed' = "encoding" /\ encoding' = <<TRUE>>
        BY <1>2, <1>3, <2>1, <3>1 DEF Held
      <4> QED BY <4>1 DEF Held, Places
    <3>2. CASE owed # "admitted"
      <4>1. owed' = owed /\ owed # "encoding"
        BY <1>2, <1>a, <2>1, <3>2 DEF Held
      <4> QED BY <1>1, <1>2, <2>1, <3>2, <4>1, Zenon DEF Held
    <3> QED BY <3>1, <3>2
  <2> QED BY <1>1, <1>3, <2>1, <2>2
<1>8. CASE EncodeTaskGivesUp
  <2>1. /\ encoding # <<>> /\ encoding' = <<>>
        /\ owed' = IF owed = "encoding" THEN "lost" ELSE owed
        /\ UNCHANGED <<b_force_i_frame, force_i_frame, encode_queue, idr, captured, frame, firs>>
    BY <1>8 DEF EncodeTaskGivesUp
  <2>2. faults' \in 0 .. MaxFaults
    BY <1>1, <1>8, Span DEF EncodeTaskGivesUp
  <2>3. Held(force_i_frame', idr', owed', encode_queue', encoding') /\ owed' \in Places
    <3>1. CASE owed = "encoding"
      BY <2>1, <3>1 DEF Held, Places
    <3>2. CASE owed # "encoding"
      BY <1>1, <1>2, <2>1, <3>2, Zenon DEF Held
    <3> QED BY <3>1, <3>2
  <2> QED BY <1>1, <1>4, <2>1, <2>2, <2>3
<1>9. CASE EncodeTask
  <2>1. PICK failed \in BOOLEAN, kept \in BOOLEAN, output \in {"none", "delta", "key"} :
         LET told == idr \/ (encoding[1] /\ ~failed)
             key  == output = "key"
         IN /\ failed => encoding[1] /\ faults < MaxFaults
            /\ output = "delta" => ~told
            /\ kept => told /\ output = "none"
            /\ faults' = faults + Cardinality({x \in {1} : failed})
                                + Cardinality({x \in {1} : output = "none"})
            /\ faults' <= MaxFaults
            /\ force_i_frame' = RequestAfterForceIdr(failed)
            /\ idr' = kept
            /\ owed' = OwedAfterEncode(failed, kept, key)
            /\ IF output = "none"
               THEN UNCHANGED <<frame, pacer_tasks>>
               ELSE /\ frame' = frame + 1
                    /\ pacer_tasks' =
                         Append(pacer_tasks,
                                [op |-> "frame", f |-> frame + 1, key |-> key])
    BY <1>9, Zenon DEF EncodeTask
  <2>2. /\ encoding # <<>> /\ encoding' = <<>>
        /\ UNCHANGED <<b_force_i_frame, encode_queue, captured, firs>>
    BY <1>9 DEF EncodeTask
  <2>3. \A P \in BOOLEAN : Cardinality({x \in {1} : P}) \in 0 .. 1
    <3>1. ASSUME NEW P \in BOOLEAN PROVE {x \in {1} : P} = {} \/ {x \in {1} : P} = {1}
      OBVIOUS
    <3>2. Cardinality({}) = 0 /\ Cardinality({1}) = 1
      BY FS_EmptySet, FS_Singleton
    <3> QED BY <3>1, <3>2
  <2>4. faults' \in 0 .. MaxFaults
    <3>1. PICK c1 \in 0 .. 1 : c1 = Cardinality({x \in {1} : failed})
      BY <2>3
    <3>2. PICK c2 \in 0 .. 1 : c2 = Cardinality({x \in {1} : output = "none"})
      BY <2>3
    <3>3. faults' = faults + c1 + c2 /\ faults' <= MaxFaults
      BY <2>1, <3>1, <3>2, Zenon
    <3> QED BY <1>1, <3>3, Span
  <2>5. /\ force_i_frame' = (force_i_frame \/ failed) /\ idr' = kept
        /\ \/ owed = "encoding" /\ failed /\ owed' = "asked"
           \/ owed \notin {"encoding", "told"} /\ owed' = owed
           \/ owed' \in {"no", "lost"}
           \/ owed' = "told" /\ kept
        /\ frame' \in {frame, frame + 1}
    BY <2>1 DEF RequestAfterForceIdr, OwedAfterEncode
  <2>6. Held(force_i_frame', idr', owed', encode_queue', encoding') /\ owed' \in Places
    <3>1. CASE owed = "encoding" /\ failed /\ owed' = "asked"
      BY <2>5, <3>1 DEF Held, Places
    <3>2. CASE owed \notin {"encoding", "told"} /\ owed' = owed
      BY <1>1, <1>2, <2>2, <2>5, <3>2 DEF Held
    <3>3. CASE owed' \in {"no", "lost"}
      BY <3>3 DEF Held, Places
    <3>4. CASE owed' = "told" /\ kept
      BY <2>5, <3>4 DEF Held, Places
    <3> QED BY <2>5, <3>1, <3>2, <3>3, <3>4
  <2>7. force_i_frame' \in BOOLEAN /\ idr' \in BOOLEAN
    BY <2>5
  <2>8. Len(encoding) = 1 /\ Len(encoding') = 0 /\ encoding' \in Seq(BOOLEAN)
    BY <1>4, <2>2
  <2>9. frame' \in Nat /\ frame' + Len(encode_queue') + Len(encoding') <= captured'
    BY <1>1, <2>2, <2>5, <2>8
  <2> QED BY <1>1, <2>2, <2>4, <2>6, <2>7, <2>8, <2>9
<1> QED BY <1>5, <1>6, <1>7, <1>8, <1>9 DEF CaptureStep
-----------------------------------------------------------------------------
(* The stream                                                                *)

\* Nothing but padding comes after n.
LastMedia(S, n) == S[n].f # 0 /\ \A k \in n + 1 .. Len(S) : S[k].f = 0

LEMMA PacketsAre ==
    ASSUME NEW f, NEW key
    PROVE  /\ Len(Packets(f, key)) = PktsPerFrame
           /\ DOMAIN Packets(f, key) = 1 .. PktsPerFrame
           /\ \A i \in 1 .. PktsPerFrame :
                 /\ Packets(f, key)[i] = [f |-> f, i |-> i, key |-> key]
                 /\ Packets(f, key)[i].f = f /\ Packets(f, key)[i].i = i
                 /\ Packets(f, key)[i].key = key
<1>1. PktsPerFrame \in Nat
    BY Span
<1> QED BY <1>1 DEF Packets

LEMMA PacketsType ==
    ASSUME NEW f \in 0 .. MaxFrames, NEW key \in BOOLEAN
    PROVE  Packets(f, key) \in Seq(VideoPackets)
<1>1. \A i \in 1 .. PktsPerFrame : [f |-> f, i |-> i, key |-> key] \in VideoPackets
    BY Span DEF VideoPackets
<1> QED BY <1>1, Span DEF Packets

\* A frame joins the stream when its first packet may follow the last one.
LEMMA StreamJoins ==
    ASSUME NEW S \in Seq(VideoPackets), NEW f \in 1 .. MaxFrames, NEW key \in BOOLEAN,
           \A n \in 1 .. Len(S) : S[n].f <= f,
           \A m, n \in 1 .. Len(S) : Adjacent(S, m, n) => Follows(S[m], S[n]),
           \A n \in 1 .. Len(S) : LastMedia(S, n) =>
               Follows(S[n], [f |-> f, i |-> 1, key |-> key])
    PROVE  StreamOK(S \o Packets(f, key), f)
<1> DEFINE G == S \o Packets(f, key)
           P == PktsPerFrame
<1>0. PICK L \in Nat : L = Len(S)
    OBVIOUS
<1>1. /\ P \in Nat /\ P > 0 /\ Packets(f, key) \in Seq(VideoPackets)
      /\ Len(Packets(f, key)) = P /\ f \in Int
    BY PacketsType, PacketsAre, Span
<1>2. /\ Len(G) = L + P /\ \A n \in 1 .. L : G[n] = S[n]
      /\ \A i \in 1 .. P : G[L + i] = Packets(f, key)[i]
  <2>1. PICK w \in Seq(VideoPackets) : w = Packets(f, key) /\ Len(w) = P
    BY <1>1
  <2>2. /\ Len(S \o w) = L + P /\ \A n \in 1 .. L : (S \o w)[n] = S[n]
        /\ \A i \in 1 .. P : (S \o w)[L + i] = w[i]
    BY <1>0, <1>1, <2>1
  <2> QED BY <2>1, <2>2, Zenon
<1> HIDE DEF G
<1>3. \A i \in 1 .. P : G[L + i] = [f |-> f, i |-> i, key |-> key]
    BY <1>2, PacketsAre
<1>4. ASSUME NEW n \in L + 1 .. L + P
      PROVE  G[n].f = f /\ G[n].f # 0 /\ G[n].i = n - L /\ G[n].key = key
  <2>1. PICK i \in 1 .. P : i = n - L
    BY <1>1
  <2>2. n = L + i
    BY <1>1, <2>1
  <2>3. G[n] = [f |-> f, i |-> i, key |-> key]
    BY <1>3, <2>2
  <2>4. f # 0
    OBVIOUS
  <2> QED BY <2>1, <2>3, <2>4
<1>5. \A n \in 1 .. Len(G) : G[n].f <= f
  <2> SUFFICES ASSUME NEW n \in 1 .. Len(G) PROVE G[n].f <= f
    OBVIOUS
  <2>1. CASE n <= L
    BY <1>0, <1>1, <1>2, <2>1
  <2>2. CASE n > L
    BY <1>1, <1>2, <1>4, <2>2
  <2> QED BY <1>1, <1>2, <2>1, <2>2
<1>6. ASSUME NEW m \in 1 .. Len(G), NEW n \in 1 .. Len(G), Adjacent(G, m, n)
      PROVE  Follows(G[m], G[n])
  <2>0. /\ m \in Int /\ n \in Int /\ m < n /\ 1 <= m /\ n <= L + P /\ G[m].f # 0 /\ G[n].f # 0
        /\ \A k \in m + 1 .. n - 1 : G[k].f = 0
    BY <1>2, <1>6 DEF Adjacent
  <2>1. CASE n <= L
    <3>1. m \in 1 .. L /\ n \in 1 .. L
      BY <1>1, <2>0, <2>1
    <3>2. \A k \in m + 1 .. n - 1 : k \in 1 .. L
      BY <1>1, <3>1
    <3>3. Adjacent(S, m, n)
      BY <1>2, <2>0, <3>1, <3>2 DEF Adjacent
    <3> QED BY <1>0, <1>2, <3>1, <3>3
  <2>2. CASE m <= L /\ n > L
    <3>1. n = L + 1
      <4> SUFFICES ASSUME n # L + 1 PROVE FALSE
        OBVIOUS
      <4>1. L + 1 \in m + 1 .. n - 1 /\ L + 1 \in L + 1 .. L + P
        BY <1>1, <2>0, <2>2
      <4> QED BY <1>4, <2>0, <4>1
    <3>2. m \in 1 .. L /\ G[m] = S[m] /\ \A k \in m + 1 .. L : k \in 1 .. L /\ k \in m + 1 .. n - 1
      BY <1>1, <1>2, <2>0, <2>2, <3>1
    <3>3. LastMedia(S, m)
      BY <1>0, <1>2, <2>0, <3>2 DEF LastMedia
    <3>4. G[n] = [f |-> f, i |-> 1, key |-> key]
      BY <1>1, <1>3, <3>1
    <3> QED BY <1>0, <3>2, <3>3, <3>4
  <2>3. CASE m > L
    <3>1. m \in L + 1 .. L + P /\ n \in L + 1 .. L + P /\ m + 1 \in L + 1 .. L + P
      BY <1>1, <2>0, <2>3
    <3>2. n = m + 1
      <4> SUFFICES ASSUME n # m + 1 PROVE FALSE
        OBVIOUS
      <4>1. m + 1 \in m + 1 .. n - 1
        BY <2>0
      <4> QED BY <1>4, <2>0, <3>1, <4>1
    <3>3. G[m].f = f /\ G[n].f = f /\ G[m].i = m - L /\ G[n].i = n - L /\ G[m].key = G[n].key
      BY <1>4, <3>1
    <3>4. n - L = (m - L) + 1
      BY <1>1, <2>0, <3>2
    <3> QED BY <3>3, <3>4 DEF Follows
  <2> QED BY <1>1, <2>0, <2>1, <2>2, <2>3
<1>7. ASSUME NEW n \in 1 .. Len(G), G[n].f # 0, \A k \in n + 1 .. Len(G) : G[k].f = 0
      PROVE  G[n].f = f /\ G[n].i = PktsPerFrame
  <2>1. n = L + P
    <3> SUFFICES ASSUME n # L + P PROVE FALSE
      OBVIOUS
    <3>0. n \in Int /\ n <= L + P /\ Len(G) = L + P
      BY <1>1, <1>2
    <3>1. L + P \in n + 1 .. Len(G) /\ L + P \in L + 1 .. L + P
      BY <1>1, <3>0
    <3> QED BY <1>4, <1>7, <3>1
  <2>2. n \in L + 1 .. L + P /\ n - L = P
    BY <1>1, <2>1
  <2> QED BY <1>4, <2>2
<1>8. StreamOK(G, f)
    BY <1>5, <1>6, <1>7 DEF StreamOK
<1> QED BY <1>8 DEF G

\* Where position j of a stream is once padding stands after position L.
Shifted(j, L) == IF j <= L THEN j ELSE j + 1

\* G is S with padding after position L.
LEMMA StreamPadded ==
    ASSUME NEW S \in Seq(VideoPackets), NEW f \in Int, StreamOK(S, f), S # <<>>,
           NEW L \in 0 .. Len(S), NEW G, Len(G) = Len(S) + 1, G[L + 1].f = 0,
           \A j \in 1 .. Len(S) : G[Shifted(j, L)] = S[j]
    PROVE  StreamOK(G, f)
<1>0. PICK M \in Nat : M = Len(S) /\ M > 0
    OBVIOUS
<1>1. \A n \in 1 .. M : S[n].f \in Nat
  <2>1. \A y \in VideoPackets : y.f \in Nat
    BY Span DEF VideoPackets
  <2> QED BY <1>0, <2>1
<1>2. f >= 0
  <2>1. 1 \in 1 .. M
    BY <1>0
  <2>2. S[1].f <= f /\ S[1].f \in Nat
    BY <1>0, <1>1, <2>1 DEF StreamOK
  <2> QED BY <2>2
<1>3. ASSUME NEW n \in 1 .. Len(G), n # L + 1
      PROVE  \E j \in 1 .. M : n = Shifted(j, L)
  <2>1. CASE n <= L
    BY <1>0, <2>1 DEF Shifted
  <2>2. CASE n > L + 1
    <3>1. n - 1 \in 1 .. M /\ ~(n - 1 <= L) /\ n = (n - 1) + 1
      BY <1>0, <2>2
    <3>2. n = Shifted(n - 1, L)
      BY <3>1 DEF Shifted
    <3> QED BY <3>1, <3>2
  <2> QED BY <1>0, <1>3, <2>1, <2>2
<1>4. ASSUME NEW n \in 1 .. Len(G) PROVE G[n].f <= f
  <2>1. CASE n = L + 1
    BY <1>2, <2>1
  <2>2. CASE n # L + 1
    <3>1. PICK j \in 1 .. M : n = Shifted(j, L)
      BY <1>3, <2>2
    <3>2. G[n] = S[j] /\ S[j].f <= f
      BY <1>0, <3>1 DEF StreamOK
    <3> QED BY <3>2
  <2> QED BY <2>1, <2>2
<1>5. ASSUME NEW m \in 1 .. Len(G), NEW n \in 1 .. Len(G), Adjacent(G, m, n)
      PROVE  Follows(G[m], G[n])
  <2>0. /\ m < n /\ m # L + 1 /\ n # L + 1 /\ G[m].f # 0 /\ G[n].f # 0
        /\ \A k \in m + 1 .. n - 1 : G[k].f = 0
    BY <1>5 DEF Adjacent
  <2>1. PICK a \in 1 .. M : m = Shifted(a, L)
    BY <1>3, <2>0
  <2>2. PICK b \in 1 .. M : n = Shifted(b, L)
    BY <1>3, <2>0
  <2>3. G[m] = S[a] /\ G[n] = S[b]
    BY <1>0, <2>1, <2>2
  <2>4. a < b
    BY <2>0, <2>1, <2>2 DEF Shifted
  <2>5. ASSUME NEW k \in a + 1 .. b - 1 PROVE S[k].f = 0
    <3>1. k \in 1 .. M /\ Shifted(k, L) \in m + 1 .. n - 1
      BY <1>0, <2>1, <2>2, <2>4 DEF Shifted
    <3>2. G[Shifted(k, L)] = S[k]
      BY <1>0, <3>1
    <3>3. G[Shifted(k, L)].f = 0
      BY <2>0, <3>1
    <3> QED BY <3>2, <3>3
  <2>6. Adjacent(S, a, b)
    BY <2>0, <2>3, <2>4, <2>5 DEF Adjacent
  <2>7. Follows(S[a], S[b])
    BY <1>0, <2>6 DEF StreamOK
  <2> QED BY <2>3, <2>7
<1>6. ASSUME NEW n \in 1 .. Len(G), G[n].f # 0, \A k \in n + 1 .. Len(G) : G[k].f = 0
      PROVE  G[n].f = f /\ G[n].i = PktsPerFrame
  <2>1. PICK a \in 1 .. M : n = Shifted(a, L)
    BY <1>3, <1>6
  <2>2. G[n] = S[a]
    BY <1>0, <2>1
  <2>3. ASSUME NEW k \in a + 1 .. M PROVE S[k].f = 0
    <3>1. k \in 1 .. M /\ Shifted(k, L) \in n + 1 .. Len(G)
      BY <1>0, <2>1 DEF Shifted
    <3>2. G[Shifted(k, L)] = S[k]
      BY <1>0, <3>1
    <3>3. G[Shifted(k, L)].f = 0
      BY <1>6, <3>1
    <3> QED BY <3>2, <3>3
  <2>4. S[a].f # 0
    BY <1>6, <2>2
  <2> QED BY <1>0, <2>2, <2>3, <2>4 DEF StreamOK
<1> QED BY <1>4, <1>5, <1>6 DEF StreamOK

\* What was sent, o, and what waits, q, as one stream.
StreamOf(o, q) == [i \in DOMAIN o |-> o[i].pkt] \o q

LEMMA StreamOfIs ==
    ASSUME NEW o \in Seq(SentPackets), NEW q \in Seq(VideoPackets)
    PROVE  /\ StreamOf(o, q) \in Seq(VideoPackets)
           /\ Len(StreamOf(o, q)) = Len(o) + Len(q)
           /\ \A i \in 1 .. Len(o) : StreamOf(o, q)[i] = o[i].pkt
           /\ \A i \in 1 .. Len(q) : StreamOf(o, q)[Len(o) + i] = q[i]
<1>1. PICK L \in Nat : L = Len(o) /\ DOMAIN o = 1 .. L
    OBVIOUS
<1>2. \A x \in SentPackets : x.pkt \in VideoPackets
    BY DEF SentPackets
<1>3. \A i \in 1 .. L : o[i].pkt \in VideoPackets
    BY <1>1, <1>2
<1>4. PICK p : p = [i \in DOMAIN o |-> o[i].pkt]
    OBVIOUS
<1>5. p \in Seq(VideoPackets) /\ Len(p) = L /\ \A i \in 1 .. L : p[i] = o[i].pkt
    BY <1>1, <1>3, <1>4
<1>6. /\ p \o q \in Seq(VideoPackets) /\ Len(p \o q) = L + Len(q)
      /\ \A i \in 1 .. L : (p \o q)[i] = p[i]
      /\ \A i \in 1 .. Len(q) : (p \o q)[L + i] = q[i]
  <2>1. PICK z : z = p \o q
    OBVIOUS
  <2>2. /\ z \in Seq(VideoPackets) /\ Len(z) = L + Len(q)
        /\ \A j \in 1 .. Len(z) : z[j] = IF j <= L THEN p[j] ELSE q[j - L]
    BY <1>5, <2>1, Joined
  <2>3. \A i \in 1 .. L : z[i] = p[i]
    BY <2>2
  <2>4. ASSUME NEW i \in 1 .. Len(q) PROVE z[L + i] = q[i]
    <3>1. L + i \in 1 .. Len(z) /\ ~(L + i <= L) /\ (L + i) - L = i
      BY <2>2
    <3> QED BY <2>2, <3>1
  <2> QED BY <2>1, <2>2, <2>3, <2>4, Zenon
<1> QED BY <1>1, <1>4, <1>5, <1>6 DEF StreamOf

LEMMA SameSeq ==
    ASSUME NEW S, NEW a \in Seq(S), NEW b \in Seq(S), Len(a) = Len(b),
           \A i \in 1 .. Len(a) : a[i] = b[i]
    PROVE  a = b
OBVIOUS

\* A packet that is sent moves from the queue to the packets sent.
LEMMA StreamSends ==
    ASSUME NEW o \in Seq(SentPackets), NEW q \in Seq(VideoPackets), q # <<>>,
           NEW x \in SentPackets, x.pkt = Head(q)
    PROVE  StreamOf(Append(o, x), Tail(q)) = StreamOf(o, q)
<1>1. PICK L \in Nat, M \in Nat : L = Len(o) /\ M = Len(q) /\ M > 0
    OBVIOUS
<1>2. /\ Append(o, x) \in Seq(SentPackets) /\ Len(Append(o, x)) = L + 1
      /\ Append(o, x)[L + 1] = x /\ \A i \in 1 .. L : Append(o, x)[i] = o[i]
    BY <1>1
<1>3. /\ Tail(q) \in Seq(VideoPackets) /\ Len(Tail(q)) = M - 1 /\ Head(q) = q[1]
      /\ \A i \in 1 .. M - 1 : Tail(q)[i] = q[i + 1]
    BY <1>1
<1>4. PICK a \in Seq(VideoPackets) :
         /\ a = StreamOf(Append(o, x), Tail(q)) /\ Len(a) = L + M
         /\ \A i \in 1 .. L + 1 : a[i] = Append(o, x)[i].pkt
         /\ \A i \in 1 .. M - 1 : a[(L + 1) + i] = q[i + 1]
  <2>1. PICK y, t : y = Append(o, x) /\ t = Tail(q)
    OBVIOUS
  <2>2. /\ y \in Seq(SentPackets) /\ t \in Seq(VideoPackets) /\ Len(y) = L + 1
        /\ Len(t) = M - 1
    BY <1>2, <1>3, <2>1
  <2>3. PICK a : a = StreamOf(y, t)
    OBVIOUS
  <2>4. /\ a \in Seq(VideoPackets) /\ Len(a) = Len(y) + Len(t)
        /\ \A i \in 1 .. Len(y) : a[i] = y[i].pkt
        /\ \A i \in 1 .. Len(t) : a[Len(y) + i] = t[i]
    BY <2>2, <2>3, StreamOfIs, Zenon
  <2>5. Len(a) = L + M
    BY <1>1, <2>2, <2>4
  <2>6. \A i \in 1 .. M - 1 : a[(L + 1) + i] = q[i + 1]
    BY <1>3, <2>1, <2>2, <2>4
  <2> QED BY <2>1, <2>2, <2>3, <2>4, <2>5, <2>6, Zenon
<1>5. PICK b \in Seq(VideoPackets) :
         /\ b = StreamOf(o, q) /\ Len(b) = L + M
         /\ \A i \in 1 .. L : b[i] = o[i].pkt
         /\ \A i \in 1 .. M : b[L + i] = q[i]
    BY <1>1, StreamOfIs
<1>6. ASSUME NEW i \in 1 .. L + M PROVE a[i] = b[i]
  <2>1. CASE i <= L
    BY <1>1, <1>2, <1>4, <1>5, <2>1
  <2>2. CASE i = L + 1
    <3>1. a[L + 1] = q[1]
      <4>1. a[L + 1] = Append(o, x)[L + 1].pkt
        BY <1>1, <1>4
      <4> QED BY <1>2, <1>3, <4>1, Zenon
    <3>2. b[L + 1] = q[1]
      BY <1>1, <1>5
    <3> QED BY <2>2, <3>1, <3>2
  <2>3. CASE i > L + 1
    <3>1. PICK j \in 1 .. M - 1 : i = (L + 1) + j
      <4>1. i - (L + 1) \in 1 .. M - 1 /\ i = (L + 1) + (i - (L + 1))
        BY <1>1, <2>3
      <4> QED BY <4>1
    <3>2. a[i] = q[j + 1]
      BY <1>4, <3>1
    <3>3. i = L + (j + 1) /\ j + 1 \in 1 .. M
      BY <1>1, <3>1
    <3>4. b[i] = q[j + 1]
      BY <1>5, <3>3
    <3> QED BY <3>2, <3>4
  <2> QED BY <1>1, <2>1, <2>2, <2>3
<1>7. a = b
    BY <1>4, <1>5, <1>6, SameSeq
<1> QED BY <1>4, <1>5, <1>7

\* Padding goes out past the packets that wait.
LEMMA StreamPads ==
    ASSUME NEW o \in Seq(SentPackets), NEW q \in Seq(VideoPackets), NEW x \in SentPackets,
           NEW S, S = StreamOf(o, q), NEW G, G = StreamOf(Append(o, x), q)
    PROVE  /\ S \in Seq(VideoPackets) /\ Len(o) \in 0 .. Len(S) /\ Len(G) = Len(S) + 1
           /\ G[Len(o) + 1] = x.pkt
           /\ \A j \in 1 .. Len(S) : G[Shifted(j, Len(o))] = S[j]
<1>1. PICK L \in Nat, M \in Nat : L = Len(o) /\ M = Len(q)
    OBVIOUS
<1>4. PICK y : y = Append(o, x)
    OBVIOUS
<1>5. /\ y \in Seq(SentPackets) /\ Len(y) = L + 1 /\ y[L + 1] = x
      /\ \A i \in 1 .. L : y[i] = o[i]
    BY <1>1, <1>4
<1>6. /\ Len(G) = Len(y) + Len(q) /\ \A i \in 1 .. Len(y) : G[i] = y[i].pkt
      /\ \A i \in 1 .. Len(q) : G[Len(y) + i] = q[i]
    BY <1>4, <1>5, StreamOfIs, Zenon
<1>7. /\ S \in Seq(VideoPackets) /\ Len(S) = Len(o) + Len(q)
      /\ \A i \in 1 .. Len(o) : S[i] = o[i].pkt
      /\ \A i \in 1 .. Len(q) : S[Len(o) + i] = q[i]
    BY StreamOfIs, Zenon
<1>8. L \in 0 .. Len(S) /\ Len(G) = Len(S) + 1 /\ Len(S) = L + M
    BY <1>1, <1>5, <1>6, <1>7
<1>9. G[L + 1] = x.pkt
  <2>1. L + 1 \in 1 .. Len(y)
    BY <1>1, <1>5
  <2>2. G[L + 1] = y[L + 1].pkt
    BY <1>6, <2>1
  <2> QED BY <1>5, <2>2, Zenon
<1>10. ASSUME NEW j \in 1 .. Len(S) PROVE G[Shifted(j, L)] = S[j]
  <2>1. CASE j <= L
    <3>1. Shifted(j, L) = j /\ j \in 1 .. L /\ j \in 1 .. Len(y)
      BY <1>1, <1>5, <1>8, <2>1 DEF Shifted
    <3>2. G[j] = y[j].pkt /\ y[j] = o[j] /\ S[j] = o[j].pkt
      BY <1>1, <1>5, <1>6, <1>7, <3>1
    <3> QED BY <3>1, <3>2
  <2>2. CASE j > L
    <3>1. PICK i \in 1 .. M : j = L + i
      <4>1. j - L \in 1 .. M /\ j = L + (j - L)
        BY <1>1, <1>8, <2>2
      <4> QED BY <4>1
    <3>2. Shifted(j, L) = (L + 1) + i
      BY <1>1, <2>2, <3>1 DEF Shifted
    <3>3. G[(L + 1) + i] = q[i]
      BY <1>1, <1>5, <1>6, <3>1
    <3>4. S[j] = q[i]
      BY <1>1, <1>7, <3>1
    <3> QED BY <3>2, <3>3, <3>4
  <2> QED BY <1>1, <1>8, <2>1, <2>2
<1> QED BY <1>1, <1>7, <1>8, <1>9, <1>10, Zenon

LEMMA StreamGrows ==
    ASSUME NEW o \in Seq(SentPackets), NEW q \in Seq(VideoPackets), NEW w \in Seq(VideoPackets)
    PROVE  StreamOf(o, q \o w) = StreamOf(o, q) \o w
<1>1. PICK p : p = [i \in DOMAIN o |-> o[i].pkt]
    OBVIOUS
<1>2. p \in Seq(VideoPackets)
  <2>1. \A y \in SentPackets : y.pkt \in VideoPackets
    BY DEF SentPackets
  <2>2. \A i \in 1 .. Len(o) : o[i] \in SentPackets
    OBVIOUS
  <2> QED BY <1>1, <2>1, <2>2
<1>3. p \o (q \o w) = (p \o q) \o w
    BY <1>2
<1> QED BY <1>1, <1>3 DEF StreamOf

PacerTask == FrameTasks \cup RtxTasks(Seqs)

LEMMA TaskIs ==
    ASSUME NEW t \in PacerTask
    PROVE  /\ t \in FrameTasks => t.op = "frame" /\ t.f \in 1 .. MaxFrames /\ t.key \in BOOLEAN
           /\ t \notin FrameTasks => /\ t \in RtxTasks(Seqs) /\ t.op = "rtx"
                                     /\ t.osn \in Seqs /\ t.pkt \in VideoPackets
BY DEF PacerTask, FrameTasks, RtxTasks

\* The frames in q are in order, and n is the last of them.
Ordered(q, n) ==
    \A i \in 1 .. Len(q) : q[i] \in FrameTasks => q[i].f = n - Count(q, i + 1, FrameTasks)

LEMMA OrderedTail ==
    ASSUME NEW q \in Seq(PacerTask), q # <<>>, NEW n \in Int, Ordered(q, n)
    PROVE  /\ Ordered(Tail(q), n)
           /\ Count(Tail(q), 1, FrameTasks) = Count(q, 1, FrameTasks)
                                              - (IF Head(q) \in FrameTasks THEN 1 ELSE 0)
           /\ Head(q) \in FrameTasks => Head(q).f = n - Count(Tail(q), 1, FrameTasks)
<1>1. PICK L \in Nat : L = Len(q) /\ L > 0
    OBVIOUS
<1>2. /\ Head(q) = q[1] /\ Tail(q) \in Seq(PacerTask) /\ Len(Tail(q)) = L - 1
      /\ \A i \in 1 .. L - 1 : Tail(q)[i] = q[i + 1]
    BY <1>1
<1>3. \A i \in Nat : i > 0 => Count(Tail(q), i, FrameTasks) = Count(q, i + 1, FrameTasks)
    BY CountTail
<1>4. Count(Tail(q), 1, FrameTasks) = Count(q, 2, FrameTasks)
    BY <1>3
<1>5. /\ Count(q, 1, FrameTasks) = Count(q, 2, FrameTasks) + IF q[1] \in FrameTasks THEN 1 ELSE 0
      /\ Count(q, 2, FrameTasks) \in Nat
  <2>1. 1 \in 1 .. Len(q) /\ Len(q) \in Nat /\ 1 + 1 = 2 /\ 2 \in Nat
    BY <1>1
  <2>2. Count(q, 1, FrameTasks) = Count(q, 1 + 1, FrameTasks)
                                  + IF q[1] \in FrameTasks THEN 1 ELSE 0
    BY <2>1, CountFirst, Zenon
  <2> QED BY <2>1, <2>2, CountType
<1>6. Ordered(Tail(q), n)
  <2> SUFFICES ASSUME NEW i \in 1 .. L - 1, Tail(q)[i] \in FrameTasks
               PROVE  Tail(q)[i].f = n - Count(Tail(q), i + 1, FrameTasks)
    BY <1>2 DEF Ordered
  <2>1. i + 1 \in 1 .. L /\ i + 1 \in Nat /\ i + 1 > 0
    BY <1>1
  <2>2. Tail(q)[i] = q[i + 1]
    BY <1>2
  <2>3. q[i + 1].f = n - Count(q, (i + 1) + 1, FrameTasks)
    BY <1>1, <2>1, <2>2 DEF Ordered
  <2>4. Count(Tail(q), i + 1, FrameTasks) = Count(q, (i + 1) + 1, FrameTasks)
    BY <1>3, <2>1
  <2> QED BY <2>2, <2>3, <2>4
<1>7. q[1] \in FrameTasks => q[1].f = n - Count(q, 2, FrameTasks)
    BY <1>1 DEF Ordered
<1> QED BY <1>2, <1>4, <1>5, <1>6, <1>7

LEMMA OrderedAppend ==
    ASSUME NEW q \in Seq(PacerTask), NEW x \in PacerTask, NEW n \in Nat, Ordered(q, n),
           NEW m \in Nat, m = n + (IF x \in FrameTasks THEN 1 ELSE 0),
           x \in FrameTasks => x.f = m
    PROVE  /\ Ordered(Append(q, x), m)
           /\ Count(Append(q, x), 1, FrameTasks) = Count(q, 1, FrameTasks) + (m - n)
<1>1. PICK L \in Nat : L = Len(q)
    OBVIOUS
<1>2. PICK g : g = Append(q, x)
    OBVIOUS
<1>3. /\ g \in Seq(PacerTask) /\ Len(g) = L + 1 /\ g[L + 1] = x
      /\ \A i \in 1 .. L : g[i] = q[i]
    BY <1>1, <1>2
<1>4. \A i \in 1 .. L + 1 : /\ Count(g, i, FrameTasks) = Count(q, i, FrameTasks) + (m - n)
                            /\ Count(q, i, FrameTasks) \in Nat
  <2> SUFFICES ASSUME NEW i \in 1 .. L + 1
               PROVE  /\ Count(g, i, FrameTasks) = Count(q, i, FrameTasks) + (m - n)
                      /\ Count(q, i, FrameTasks) \in Nat
    OBVIOUS
  <2>1. Count(g, i, FrameTasks) = Count(q, i, FrameTasks) + IF x \in FrameTasks THEN 1 ELSE 0
    <3>1. i \in Nat /\ i > 0 /\ i <= Len(q) + 1
      BY <1>1
    <3>2. Count(Append(q, x), i, FrameTasks)
             = Count(q, i, FrameTasks) + IF x \in FrameTasks THEN 1 ELSE 0
      BY <3>1, CountAppend
    <3> QED BY <1>2, <3>2
  <2>2. Count(q, i, FrameTasks) \in Nat
    BY CountType
  <2> QED BY <2>1, <2>2
<1>5. Ordered(g, m)
  <2> SUFFICES ASSUME NEW i \in 1 .. L + 1, g[i] \in FrameTasks
               PROVE  g[i].f = m - Count(g, i + 1, FrameTasks)
    BY <1>3 DEF Ordered
  <2>1. CASE i = L + 1
    <3>1. Count(g, i + 1, FrameTasks) = 0
      BY <1>1, <1>3, <2>1, CountEnd
    <3> QED BY <1>3, <2>1, <3>1
  <2>2. CASE i \in 1 .. L
    <3>1. i + 1 \in 1 .. L + 1
      BY <2>2
    <3>2. q[i].f = n - Count(q, i + 1, FrameTasks)
      BY <1>1, <1>3, <2>2 DEF Ordered
    <3>3. Count(g, i + 1, FrameTasks) = Count(q, i + 1, FrameTasks) + (m - n)
      BY <1>4, <3>1
    <3>4. Count(q, i + 1, FrameTasks) \in Nat
      BY <1>4, <3>1
    <3> QED BY <1>3, <2>2, <3>2, <3>3, <3>4
  <2> QED BY <2>1, <2>2
<1>6. 1 \in 1 .. L + 1
    OBVIOUS
<1> QED BY <1>2, <1>4, <1>5, <1>6

\* The tasks t of the pacer, its queue q and what it sent, o, are in order.
PacerOK(t, n, q, o) ==
    /\ Ordered(t, n)
    /\ \A i \in 1 .. Len(q) : q[i].f # 0
    /\ StreamOK(StreamOf(o, q), n - Count(t, 1, FrameTasks))

LEMMA PacerFacts ==
    ASSUME PacerTypes, StreamInv
    PROVE  /\ pacer_tasks \in Seq(PacerTask) /\ PacerOK(pacer_tasks, frame, video_queue, out)
           /\ video_queue \in Seq(VideoPackets) /\ rtx_queue \in Seq(RtxPackets(Seqs))
           /\ ssrc_seq \in Seqs /\ out \in Seq(SentPackets)
<1>1. pacer_tasks \in Seq(PacerTask)
    BY DEF PacerTypes, PacerTask
<1>2. DOMAIN pacer_tasks = 1 .. Len(pacer_tasks)
    BY <1>1
<1>3. Ordered(pacer_tasks, frame)
    BY <1>2, Zenon DEF StreamInv, FramesInOrder, Ordered
<1>4. StreamOK(StreamOf(out, video_queue), frame - Count(pacer_tasks, 1, FrameTasks))
    BY Zenon DEF StreamInv, Stream, StreamOf, Enqueued
<1> QED BY <1>1, <1>3, <1>4 DEF PacerOK, PacerTypes, StreamInv

LEMMA PacerStep ==
    ASSUME pacer_tasks' \in Seq(PacerTask), PacerOK(pacer_tasks', frame', video_queue', out'),
           video_queue' \in Seq(VideoPackets), rtx_queue' \in Seq(RtxPackets(Seqs)),
           ssrc_seq' \in Seqs, out' \in Seq(SentPackets)
    PROVE  PacerTypes' /\ StreamInv'
<1>1. PacerTypes'
    BY DEF PacerTypes, PacerTask
<1>2. DOMAIN pacer_tasks' = 1 .. Len(pacer_tasks')
    OBVIOUS
<1>3. FramesInOrder'
    BY <1>2, Zenon DEF PacerOK, FramesInOrder, Ordered
<1>4. StreamOK(Stream, Enqueued)'
    BY Zenon DEF PacerOK, StreamOK, Adjacent, Follows, Stream, StreamOf, Enqueued, Count
<1> QED BY <1>1, <1>3, <1>4 DEF PacerOK, StreamInv

\* The first packet of a key frame may follow whatever the flush leaves.
LEMMA FlushedJoins ==
    ASSUME NEW o \in Seq(SentPackets), NEW q \in Seq(VideoPackets), NEW e \in Int,
           \A i \in 1 .. Len(q) : q[i].f # 0, StreamOK(StreamOf(o, q), e),
           NEW f \in 1 .. MaxFrames, f = e + 1, NEW key \in BOOLEAN
    PROVE  /\ Flushed(q, key) \o Packets(f, key) \in Seq(VideoPackets)
           /\ \A i \in 1 .. Len(Flushed(q, key) \o Packets(f, key)) :
                 (Flushed(q, key) \o Packets(f, key))[i].f # 0
           /\ StreamOK(StreamOf(o, Flushed(q, key) \o Packets(f, key)), f)
<1>1. PICK r : r = Flushed(q, key)
    OBVIOUS
<1>2. r = q \/ (r = <<>> /\ key /\ ~HasKeyframePackets(q))
    BY <1>1 DEF Flushed
<1>3. r \in Seq(VideoPackets) /\ \A i \in 1 .. Len(r) : r[i].f # 0
  <2>1. CASE r = q
    BY <2>1
  <2>2. CASE r = <<>>
    BY <2>2
  <2> QED BY <1>2, <2>1, <2>2
<1>4. PICK w : w = Packets(f, key)
    OBVIOUS
<1>5. /\ w \in Seq(VideoPackets) /\ Len(w) = PktsPerFrame
      /\ \A i \in 1 .. PktsPerFrame : w[i] = [f |-> f, i |-> i, key |-> key]
    BY <1>4, PacketsAre, PacketsType
<1>6. \A i \in 1 .. Len(w) : w[i].f # 0
    BY <1>5
<1>7. r \o w \in Seq(VideoPackets) /\ \A i \in 1 .. Len(r \o w) : (r \o w)[i].f # 0
    BY <1>3, <1>5, <1>6
<1>8. PICK S : S = StreamOf(o, r)
    OBVIOUS
<1>9. PICK T : T = StreamOf(o, q)
    OBVIOUS
<1>10. PICK L \in Nat, M \in Nat, N \in Nat : L = Len(o) /\ M = Len(q) /\ N = Len(r)
    BY <1>3
<1>11. /\ S \in Seq(VideoPackets) /\ Len(S) = L + N
       /\ \A i \in 1 .. L : S[i] = o[i].pkt
       /\ \A i \in 1 .. N : S[L + i] = r[i]
    BY <1>3, <1>8, <1>10, StreamOfIs
<1>12. /\ T \in Seq(VideoPackets) /\ Len(T) = L + M
       /\ \A i \in 1 .. L : T[i] = o[i].pkt
       /\ \A i \in 1 .. M : T[L + i] = q[i]
    BY <1>9, <1>10, StreamOfIs
<1>13. Len(S) <= Len(T) /\ \A i \in 1 .. Len(S) : S[i] = T[i]
  <2>1. CASE r = q
    BY <1>8, <1>9, <1>11, <2>1
  <2>2. CASE r = <<>>
    <3>1. N = 0
      BY <1>10, <2>2
    <3> QED BY <1>11, <1>12, <3>1
  <2> QED BY <1>2, <2>1, <2>2
<1>14. /\ \A n \in 1 .. Len(T) : T[n].f <= e
       /\ \A m, n \in 1 .. Len(T) : Adjacent(T, m, n) => Follows(T[m], T[n])
       /\ \A n \in 1 .. Len(T) : LastMedia(T, n) => T[n].f = e /\ T[n].i = PktsPerFrame
    BY <1>9 DEF StreamOK, LastMedia
<1>15. PICK K \in Nat, H \in Nat : K = Len(S) /\ H = Len(T) /\ K <= H
    BY <1>11, <1>12, <1>13
<1>16. \A n \in 1 .. K : S[n].f <= f
  <2> SUFFICES ASSUME NEW n \in 1 .. K PROVE S[n].f <= f
    OBVIOUS
  <2>1. n \in 1 .. Len(T) /\ S[n] = T[n]
    BY <1>13, <1>15
  <2>2. T[n].f \in Int
    <3>1. T[n] \in VideoPackets
      BY <1>12, <2>1
    <3> QED BY <3>1 DEF VideoPackets
  <2>3. T[n].f <= e
    BY <1>14, <2>1
  <2> QED BY <2>1, <2>2, <2>3
<1>17. ASSUME NEW m \in 1 .. K, NEW n \in 1 .. K, Adjacent(S, m, n)
       PROVE  Follows(S[m], S[n])
  <2>1. m \in 1 .. H /\ n \in 1 .. H /\ S[m] = T[m] /\ S[n] = T[n]
    BY <1>13, <1>15
  <2>2. \A k \in m + 1 .. n - 1 : S[k] = T[k]
    BY <1>13, <1>15
  <2>3. Adjacent(T, m, n)
    BY <1>17, <2>1, <2>2 DEF Adjacent
  <2> QED BY <1>14, <1>15, <2>1, <2>3
<1>18. ASSUME NEW n \in 1 .. K, LastMedia(S, n)
       PROVE  Follows(S[n], [f |-> f, i |-> 1, key |-> key])
  <2> DEFINE b == [f |-> f, i |-> 1, key |-> key]
  <2>0. b.f = f /\ b.i = 1 /\ b.key = key
    OBVIOUS
  <2> SUFFICES Follows(S[n], b)
    OBVIOUS
  <2> HIDE DEF b
  <2>1. n \in 1 .. H /\ S[n] = T[n] /\ T[n].f # 0
    BY <1>13, <1>15, <1>18 DEF LastMedia
  <2>2. CASE K = H
    <3>1. \A k \in n + 1 .. H : S[k] = T[k]
      BY <1>13, <1>15, <2>2
    <3>2. LastMedia(T, n)
      BY <1>15, <1>18, <2>1, <2>2, <3>1 DEF LastMedia
    <3>3. T[n].f = e /\ T[n].i = PktsPerFrame
      BY <1>14, <1>15, <2>1, <3>2
    <3> QED BY <2>0, <2>1, <3>3 DEF Follows
  <2>3. CASE K # H
    <3>1. N = 0 /\ M > 0 /\ K = L /\ key = TRUE /\ ~HasKeyframePackets(q)
      <4>1. r # q
        BY <1>10, <1>11, <1>12, <1>15, <2>3
      <4>2. r = <<>> /\ key = TRUE /\ ~HasKeyframePackets(q)
        BY <1>2, <4>1
      <4>3. N = 0
        BY <1>10, <4>2
      <4> QED BY <1>11, <1>12, <1>15, <2>3, <4>2, <4>3
    <3>2. L + 1 \in 1 .. H /\ T[L + 1] = q[1] /\ q[1].f # 0 /\ ~q[1].key
      <4>1. 1 \in 1 .. M /\ L + 1 \in 1 .. H
        BY <1>12, <1>15, <3>1
      <4>2. DOMAIN q = 1 .. M
        BY <1>10
      <4>3. ~q[1].key
        BY <3>1, <4>1, <4>2, Zenon DEF HasKeyframePackets
      <4> QED BY <1>10, <1>12, <4>1, <4>3
    <3>3. \A k \in n + 1 .. (L + 1) - 1 : k \in n + 1 .. K /\ S[k] = T[k]
      BY <1>13, <1>15, <3>1
    <3>4. Adjacent(T, n, L + 1)
      BY <1>15, <1>18, <2>1, <3>1, <3>2, <3>3 DEF Adjacent, LastMedia
    <3>5. Follows(T[n], q[1])
      BY <1>14, <1>15, <2>1, <3>2, <3>4
    <3>6. T[n].key => T[n].i = PktsPerFrame
      BY <3>2, <3>5 DEF Follows
    <3>7. T[n].f <= e /\ T[n].f \in Int
      <4>1. T[n] \in VideoPackets
        BY <1>12, <1>15, <2>1
      <4>2. T[n].f \in Int
        BY <4>1 DEF VideoPackets
      <4> QED BY <1>14, <1>15, <2>1, <4>2
    <3>8. f > T[n].f
      BY <3>7
    <3> QED BY <2>0, <2>1, <3>1, <3>6, <3>8 DEF Follows
  <2> QED BY <2>2, <2>3
<1>19. StreamOK(S \o w, f)
    BY <1>4, <1>11, <1>15, <1>16, <1>17, <1>18, StreamJoins
<1>20. StreamOf(o, r \o w) = S \o w
    BY <1>3, <1>5, <1>8, StreamGrows
<1> QED BY <1>1, <1>4, <1>7, <1>19, <1>20

LEMMA AppendTask ==
    ASSUME PacerTypes, StreamInv, frame \in Nat, NEW x \in PacerTask,
           frame' \in Nat, frame' = frame + (IF x \in FrameTasks THEN 1 ELSE 0),
           x \in FrameTasks => x.f = frame',
           pacer_tasks' = Append(pacer_tasks, x),
           UNCHANGED <<video_queue, rtx_queue, ssrc_seq, out>>
    PROVE  PacerTypes' /\ StreamInv'
<1>1. /\ pacer_tasks \in Seq(PacerTask) /\ PacerOK(pacer_tasks, frame, video_queue, out)
      /\ video_queue \in Seq(VideoPackets) /\ rtx_queue \in Seq(RtxPackets(Seqs))
      /\ ssrc_seq \in Seqs /\ out \in Seq(SentPackets)
    BY PacerFacts
<1>2. PICK q, m, n : q = pacer_tasks /\ m = frame' /\ n = frame
    OBVIOUS
<1>3. /\ Ordered(Append(q, x), m)
      /\ Count(Append(q, x), 1, FrameTasks) = Count(q, 1, FrameTasks) + (m - n)
    BY <1>1, <1>2, OrderedAppend DEF PacerOK
<1>4. Count(q, 1, FrameTasks) \in Nat
    BY <1>1, <1>2, CountType
<1>5. m - Count(Append(q, x), 1, FrameTasks) = n - Count(q, 1, FrameTasks)
    BY <1>2, <1>3, <1>4
<1>6. PacerOK(Append(q, x), m, video_queue, out)
    BY <1>1, <1>2, <1>3, <1>5 DEF PacerOK
<1>7. PacerOK(pacer_tasks', frame', video_queue', out')
    BY <1>2, <1>6
<1>8. pacer_tasks' \in Seq(PacerTask)
    BY <1>1
<1> QED BY <1>1, <1>7, <1>8, PacerStep

\* Steps that leave the pacer and the encoder's count of frames alone.
LEMMA PacerSame ==
    ASSUME PacerTypes, StreamInv, UNCHANGED <<pacer_vars, frame>>
    PROVE  PacerTypes' /\ StreamInv'
<1>1. /\ pacer_tasks \in Seq(PacerTask) /\ PacerOK(pacer_tasks, frame, video_queue, out)
      /\ video_queue \in Seq(VideoPackets) /\ rtx_queue \in Seq(RtxPackets(Seqs))
      /\ ssrc_seq \in Seqs /\ out \in Seq(SentPackets)
    BY PacerFacts
<1>2. UNCHANGED <<pacer_tasks, video_queue, rtx_queue, ssrc_seq, out, frame>>
    BY DEF pacer_vars
<1>3. PacerOK(pacer_tasks', frame', video_queue', out')
    BY <1>1, <1>2
<1> QED BY <1>1, <1>2, <1>3, PacerStep

LEMMA EncodePaces ==
    ASSUME PacerTypes, StreamInv, CaptureInv, EncodeTask
    PROVE  PacerTypes' /\ StreamInv'
<1>1. UNCHANGED <<video_queue, rtx_queue, ssrc_seq, out>> /\ frame \in Nat /\ encoding # <<>>
    BY DEF EncodeTask, CaptureInv
<1>2. PICK key \in BOOLEAN :
         \/ UNCHANGED <<frame, pacer_tasks>>
         \/ /\ frame' = frame + 1
            /\ pacer_tasks' = Append(pacer_tasks, [op |-> "frame", f |-> frame + 1, key |-> key])
  <2>1. PICK output \in {"none", "delta", "key"} :
           IF output = "none"
           THEN UNCHANGED <<frame, pacer_tasks>>
           ELSE /\ frame' = frame + 1
                /\ pacer_tasks' =
                     Append(pacer_tasks,
                            [op |-> "frame", f |-> frame + 1, key |-> (output = "key")])
    BY Zenon DEF EncodeTask
  <2>2. (output = "key") \in BOOLEAN
    OBVIOUS
  <2> QED BY <2>1, <2>2, Zenon
<1>3. CASE UNCHANGED <<frame, pacer_tasks>>
    BY <1>1, <1>3, PacerSame DEF pacer_vars
<1>4. CASE /\ frame' = frame + 1
           /\ pacer_tasks' = Append(pacer_tasks, [op |-> "frame", f |-> frame + 1, key |-> key])
  <2>1. frame + 1 \in 1 .. MaxFrames
    <3>1. /\ encoding \in Seq(BOOLEAN) /\ Len(encode_queue) \in Nat
          /\ captured \in 0 .. MaxFrames /\ MaxFrames \in Nat
          /\ frame + Len(encode_queue) + Len(encoding) <= captured
      BY Span DEF CaptureInv
    <3>2. Len(encoding) \in Nat /\ Len(encoding) > 0
      BY <1>1, <3>1
    <3> QED BY <1>1, <3>1, <3>2
  <2>2. PICK x : x = [op |-> "frame", f |-> frame + 1, key |-> key]
    OBVIOUS
  <2>3. x \in FrameTasks /\ x.f = frame + 1
    BY <2>1, <2>2 DEF FrameTasks
  <2>4. x \in PacerTask /\ frame' \in Nat /\ frame' = frame + (IF x \in FrameTasks THEN 1 ELSE 0)
    BY <1>1, <1>4, <2>3 DEF PacerTask
  <2>5. pacer_tasks' = Append(pacer_tasks, x) /\ x.f = frame'
    BY <1>4, <2>2, <2>3
  <2> QED BY <1>1, <2>4, <2>5, AppendTask
<1> QED BY <1>2, <1>3, <1>4

LEMMA EnqueuePaces ==
    ASSUME PacerTypes, StreamInv, frame \in Nat, EnqueuePacketsOnQueue
    PROVE  PacerTypes' /\ StreamInv'
<1>1. /\ pacer_tasks \in Seq(PacerTask) /\ PacerOK(pacer_tasks, frame, video_queue, out)
      /\ video_queue \in Seq(VideoPackets) /\ rtx_queue \in Seq(RtxPackets(Seqs))
      /\ ssrc_seq \in Seqs /\ out \in Seq(SentPackets)
    BY PacerFacts
<1>2. PICK q, n, t : q = pacer_tasks /\ n = frame /\ t = Head(pacer_tasks)
    OBVIOUS
<1>3. /\ q # <<>> /\ pacer_tasks' = Tail(q) /\ UNCHANGED <<ssrc_seq, out, frame>>
      /\ t.op = "frame" => /\ video_queue' = Flushed(video_queue, t.key) \o Packets(t.f, t.key)
                           /\ UNCHANGED rtx_queue
      /\ t.op # "frame" => /\ rtx_queue' = Append(rtx_queue, [osn |-> t.osn, pkt |-> t.pkt])
                           /\ UNCHANGED video_queue
    BY <1>2 DEF EnqueuePacketsOnQueue, capture_vars
<1>4. t \in PacerTask /\ Tail(q) \in Seq(PacerTask)
    BY <1>1, <1>2, <1>3
<1>5. /\ Ordered(Tail(q), n)
      /\ Count(Tail(q), 1, FrameTasks) = Count(q, 1, FrameTasks)
                                         - (IF t \in FrameTasks THEN 1 ELSE 0)
      /\ t \in FrameTasks => t.f = n - Count(Tail(q), 1, FrameTasks)
  <2>1. q \in Seq(PacerTask) /\ n \in Int /\ Ordered(q, n)
    BY <1>1, <1>2 DEF PacerOK
  <2> QED BY <1>2, <1>3, <2>1, OrderedTail
<1>6. PICK c \in Nat : c = Count(q, 1, FrameTasks)
    BY <1>1, <1>2, CountType
<1>7. CASE t \in FrameTasks
  <2>1. t.op = "frame" /\ t.f \in 1 .. MaxFrames /\ t.key \in BOOLEAN
    BY <1>4, <1>7, TaskIs
  <2>2. /\ n - c \in Int /\ t.f = (n - c) + 1 /\ t.f = n - Count(Tail(q), 1, FrameTasks)
    BY <1>2, <1>5, <1>6, <1>7
  <2>3. /\ video_queue' \in Seq(VideoPackets)
        /\ \A i \in 1 .. Len(video_queue') : video_queue'[i].f # 0
        /\ StreamOK(StreamOf(out, video_queue'), t.f)
    <3>1. PICK e, v, o, w : /\ e = n - c /\ v = video_queue /\ o = out
                            /\ w = Flushed(video_queue, t.key) \o Packets(t.f, t.key)
      OBVIOUS
    <3>2. /\ v \in Seq(VideoPackets) /\ o \in Seq(SentPackets)
          /\ \A i \in 1 .. Len(v) : v[i].f # 0
          /\ StreamOK(StreamOf(o, v), e)
      BY <1>1, <1>2, <1>6, <3>1 DEF PacerOK
    <3>3. /\ w \in Seq(VideoPackets) /\ \A i \in 1 .. Len(w) : w[i].f # 0
          /\ StreamOK(StreamOf(o, w), t.f)
      BY <2>1, <2>2, <3>1, <3>2, FlushedJoins, Zenon
    <3>4. video_queue' = w
      BY <1>3, <2>1, <3>1
    <3> QED BY <3>1, <3>3, <3>4
  <2>4. PacerOK(Tail(q), n, video_queue', out)
    BY <1>5, <2>2, <2>3 DEF PacerOK
  <2>5. PacerOK(pacer_tasks', frame', video_queue', out')
    BY <1>2, <1>3, <2>4
  <2> QED BY <1>1, <1>3, <1>4, <2>1, <2>3, <2>5, PacerStep
<1>8. CASE t \notin FrameTasks
  <2>1. t.op # "frame" /\ [osn |-> t.osn, pkt |-> t.pkt] \in RtxPackets(Seqs)
    BY <1>4, <1>8, TaskIs DEF RtxPackets
  <2>2. rtx_queue' \in Seq(RtxPackets(Seqs)) /\ UNCHANGED video_queue
    <3>1. PICK x : x = [osn |-> t.osn, pkt |-> t.pkt]
      OBVIOUS
    <3>2. x \in RtxPackets(Seqs) /\ rtx_queue' = Append(rtx_queue, x) /\ UNCHANGED video_queue
      BY <1>3, <2>1, <3>1
    <3> QED BY <1>1, <3>2
  <2>3. Count(Tail(q), 1, FrameTasks) = Count(q, 1, FrameTasks)
    BY <1>5, <1>6, <1>8
  <2>4. PacerOK(Tail(q), n, video_queue, out)
    BY <1>1, <1>2, <1>5, <2>3 DEF PacerOK
  <2>5. PacerOK(pacer_tasks', frame', video_queue', out')
    BY <1>2, <1>3, <2>2, <2>4
  <2> QED BY <1>1, <1>3, <1>4, <2>2, <2>5, PacerStep
<1> QED BY <1>7, <1>8

LEMMA SendPaces ==
    ASSUME PacerTypes, StreamInv, SendPacket
    PROVE  PacerTypes' /\ StreamInv'
<1>1. /\ pacer_tasks \in Seq(PacerTask) /\ PacerOK(pacer_tasks, frame, video_queue, out)
      /\ video_queue \in Seq(VideoPackets) /\ rtx_queue \in Seq(RtxPackets(Seqs))
      /\ ssrc_seq \in Seqs /\ out \in Seq(SentPackets)
    BY PacerFacts
<1>2. UNCHANGED <<pacer_tasks, frame>>
    BY DEF SendPacket, capture_vars
<1>3. CASE /\ video_queue # <<>> /\ video_queue' = Tail(video_queue) /\ UNCHANGED rtx_queue
           /\ ssrc_seq' = (ssrc_seq + 1) % SeqSpan
           /\ out' = Append(out, [seq |-> ssrc_seq, pkt |-> Head(video_queue)])
  <2>1. PICK x : x = [seq |-> ssrc_seq, pkt |-> Head(video_queue)]
    OBVIOUS
  <2>2. x \in SentPackets /\ x.pkt = Head(video_queue)
    BY <1>1, <1>3, <2>1 DEF SentPackets
  <2>3. ssrc_seq' \in Seqs
    BY <1>1, <1>3, ModSplit DEF Seqs
  <2>4. video_queue' \in Seq(VideoPackets) /\ out' \in Seq(SentPackets)
    BY <1>1, <1>3, <2>1, <2>2
  <2>5. StreamOf(out', video_queue') = StreamOf(out, video_queue)
    BY <1>1, <1>3, <2>1, <2>2, StreamSends
  <2>6. \A i \in 1 .. Len(video_queue') : video_queue'[i].f # 0
    <3>1. PICK q : q = video_queue
      OBVIOUS
    <3>2. /\ q \in Seq(VideoPackets) /\ q # <<>> /\ video_queue' = Tail(q)
          /\ \A i \in 1 .. Len(q) : q[i].f # 0
      BY <1>1, <1>3, <3>1 DEF PacerOK
    <3>3. Len(Tail(q)) = Len(q) - 1 /\ \A i \in 1 .. Len(q) - 1 : Tail(q)[i] = q[i + 1]
      BY <3>2
    <3>4. \A i \in 1 .. Len(q) - 1 : i + 1 \in 1 .. Len(q)
      BY <3>2
    <3> QED BY <3>2, <3>3, <3>4
  <2>7. PacerOK(pacer_tasks', frame', video_queue', out')
    BY <1>1, <1>2, <2>5, <2>6 DEF PacerOK
  <2> QED BY <1>1, <1>2, <1>3, <2>3, <2>4, <2>7, PacerStep
<1>4. CASE UNCHANGED <<video_queue, ssrc_seq, out>> /\ rtx_queue # <<>> /\ rtx_queue' = Tail(rtx_queue)
  <2>1. rtx_queue' \in Seq(RtxPackets(Seqs))
    BY <1>1, <1>4
  <2>2. PacerOK(pacer_tasks', frame', video_queue', out')
    BY <1>1, <1>2, <1>4
  <2> QED BY <1>1, <1>2, <1>4, <2>1, <2>2, PacerStep
<1> QED BY <1>3, <1>4 DEF SendPacket, PopIsMedia

LEMMA PaddingPaces ==
    ASSUME PacerTypes, StreamInv, frame \in Nat, SendPadding
    PROVE  PacerTypes' /\ StreamInv'
<1>1. /\ pacer_tasks \in Seq(PacerTask) /\ PacerOK(pacer_tasks, frame, video_queue, out)
      /\ video_queue \in Seq(VideoPackets) /\ rtx_queue \in Seq(RtxPackets(Seqs))
      /\ ssrc_seq \in Seqs /\ out \in Seq(SentPackets)
    BY PacerFacts
<1>2. PICK p, x : p = [f |-> 0, i |-> 0, key |-> FALSE] /\ x = [seq |-> ssrc_seq, pkt |-> p]
    OBVIOUS
<1>3. /\ out # <<>> /\ UNCHANGED <<pacer_tasks, video_queue, rtx_queue, frame>>
      /\ ssrc_seq' = (ssrc_seq + 1) % SeqSpan /\ out' = Append(out, x)
    BY <1>2 DEF SendPadding, capture_vars
<1>4. p \in VideoPackets /\ p.f = 0
    BY <1>2, Span DEF VideoPackets
<1>5. x \in SentPackets /\ x.pkt = p
    BY <1>1, <1>2, <1>4 DEF SentPackets
<1>6. ssrc_seq' \in Seqs /\ out' \in Seq(SentPackets)
    BY <1>1, <1>3, <1>5, ModSplit DEF Seqs
<1>7. PICK S, G, e : /\ S = StreamOf(out, video_queue) /\ G = StreamOf(Append(out, x), video_queue)
                     /\ e = frame - Count(pacer_tasks, 1, FrameTasks)
    OBVIOUS
<1>8. PICK L : L = Len(out)
    OBVIOUS
<1>9. /\ S \in Seq(VideoPackets) /\ L \in 0 .. Len(S) /\ Len(G) = Len(S) + 1
      /\ G[L + 1] = x.pkt /\ \A j \in 1 .. Len(S) : G[Shifted(j, L)] = S[j]
  <2>1. out \in Seq(SentPackets) /\ video_queue \in Seq(VideoPackets) /\ x \in SentPackets
    BY <1>1, <1>5
  <2>2. S = StreamOf(out, video_queue) /\ G = StreamOf(Append(out, x), video_queue)
    BY <1>7
  <2>3. /\ S \in Seq(VideoPackets) /\ Len(out) \in 0 .. Len(S) /\ Len(G) = Len(S) + 1
        /\ G[Len(out) + 1] = x.pkt /\ \A j \in 1 .. Len(S) : G[Shifted(j, Len(out))] = S[j]
    BY <2>1, <2>2, StreamPads
  <2> QED BY <1>8, <2>3
<1>10. S # <<>> /\ G[L + 1].f = 0
  <2>1. Len(out) \in Nat /\ Len(out) # 0
    BY <1>1, <1>3
  <2>2. S # <<>>
    BY <1>8, <1>9, <2>1
  <2> QED BY <1>4, <1>5, <1>9, <2>2, Zenon
<1>11. e \in Int /\ StreamOK(S, e)
  <2>1. Count(pacer_tasks, 1, FrameTasks) \in Nat
    BY <1>1, CountType
  <2> QED BY <1>1, <1>3, <1>7, <2>1 DEF PacerOK
<1>12. StreamOK(StreamOf(out', video_queue'), e)
  <2>1. StreamOK(G, e)
    BY <1>9, <1>10, <1>11, StreamPadded, Zenon
  <2> QED BY <1>3, <1>7, <2>1, Zenon
<1>13. PacerOK(pacer_tasks', frame', video_queue', out')
    BY <1>1, <1>3, <1>7, <1>12 DEF PacerOK
<1> QED BY <1>1, <1>3, <1>6, <1>13, PacerStep
-----------------------------------------------------------------------------
(* The shutdown, and the task that answers NACKs                             *)

LEMMA ShutdownKeeps ==
    ASSUME ShutdownInv, [Next]_vars
    PROVE  ShutdownInv'
<1>1. CASE UNCHANGED <<rtx_enabled, destroy_vars>>
    BY <1>1 DEF ShutdownInv, destroy_vars
<1>2. CASE DestroyBegins
    BY <1>2 DEF ShutdownInv, DestroyBegins
<1>3. CASE DestroyDetaches
    BY <1>3 DEF ShutdownInv, DestroyDetaches
<1>4. CASE ChannelShutsDown
    BY <1>4 DEF ShutdownInv, ChannelShutsDown
<1>5. CASE ChannelStops
    BY <1>5 DEF ShutdownInv, ChannelStops
<1>6. CASE ChannelJoined
    BY <1>6 DEF ShutdownInv, ChannelJoined
<1>7. CASE SendVideo \/ FullIntraRequest \/ EncodeThread
    BY <1>1, <1>7 DEF SendVideo, FullIntraRequest, EncodeThread, EncodeTaskStarts,
        EncodeTaskGivesUp, EncodeTask
<1>8. CASE PacerThread \/ SendPadding \/ HistoryThread
    BY <1>1, <1>8 DEF PacerThread, EnqueuePacketsOnQueue, SendPacket, SendPadding,
        HistoryThread, HistoryTask, ProcessPendingNacks, ReSendPacket, FinishPendingNacks
<1>9. CASE OnReceiveNack \/ OnReceiveNackPosts \/ OnRttUpdate
    BY <1>1, <1>9 DEF OnReceiveNack, OnReceiveNackPosts, OnRttUpdate
<1>10. CASE UNCHANGED vars
    BY <1>1, <1>10 DEF vars
<1> QED BY <1>2, <1>3, <1>4, <1>5, <1>6, <1>7, <1>8, <1>9, <1>10 DEF Next, DestroyThread, Done

LEMMA HistoryTaskIs ==
    ASSUME NEW t \in HistoryTasks
    PROVE  /\ t.op \in {"put", "sent", "aborted", "nacks", "rtt"}
           /\ t \in Puts <=> t.op = "put"
           /\ t \in Puts => t.seq \in Seqs /\ t.pkt \in VideoPackets
           /\ t \in Outcomes(Seqs) <=> t.op \in {"sent", "aborted"}
           /\ t \in Outcomes(Seqs) => t.seq \in Seqs
           /\ t \in NackTasks <=> t.op = "nacks"
<1>1. CASE t \in Puts
    BY <1>1 DEF Puts, Outcomes, NackTasks
<1>2. CASE t \in Outcomes(Seqs)
    BY <1>2 DEF Puts, Outcomes, NackTasks
<1>3. CASE t \in NackTasks
    BY <1>3 DEF Puts, Outcomes, NackTasks
<1>4. CASE t \in [op : {"rtt"}]
    BY <1>4 DEF Puts, Outcomes, NackTasks
<1> QED BY <1>1, <1>2, <1>3, <1>4 DEF HistoryTasks

LEMMA IsHistoryTask ==
    /\ [op |-> "nacks"] \in NackTasks /\ [op |-> "nacks"] \in HistoryTasks
    /\ [op |-> "rtt"] \in HistoryTasks /\ [op |-> "rtt"].op = "rtt"
    /\ \A s \in Seqs, p \in VideoPackets :
         [op |-> "put", seq |-> s, pkt |-> p] \in Puts
    /\ \A s \in Seqs, o \in {"sent", "aborted"} : [op |-> o, seq |-> s] \in Outcomes(Seqs)
    /\ Puts \subseteq HistoryTasks /\ Outcomes(Seqs) \subseteq HistoryTasks
BY DEF HistoryTasks, NackTasks, Puts, Outcomes

LEMMA CountPosted ==
    ASSUME NEW q \in Seq(HistoryTasks), NEW t \in HistoryTasks, NEW S
    PROVE  /\ Append(q, t) \in Seq(HistoryTasks) /\ Count(q, 1, S) \in Nat
           /\ t \in S => Count(Append(q, t), 1, S) = Count(q, 1, S) + 1
           /\ t \notin S => Count(Append(q, t), 1, S) = Count(q, 1, S)
<1>1. 1 \in Nat /\ 1 > 0 /\ 1 <= Len(q) + 1 /\ Append(q, t) \in Seq(HistoryTasks)
    OBVIOUS
<1>2. Count(Append(q, t), 1, S) = Count(q, 1, S) + IF t \in S THEN 1 ELSE 0
    BY <1>1, CountAppend
<1>3. Count(q, 1, S) \in Nat
    BY CountType
<1> QED BY <1>1, <1>2, <1>3

LEMMA CountTaken ==
    ASSUME NEW q \in Seq(HistoryTasks), q # <<>>, NEW S
    PROVE  /\ Tail(q) \in Seq(HistoryTasks) /\ Head(q) \in HistoryTasks
           /\ Count(Tail(q), 1, S) \in Nat
           /\ Count(q, 1, S) = Count(Tail(q), 1, S) + IF Head(q) \in S THEN 1 ELSE 0
<1>1. /\ Tail(q) \in Seq(HistoryTasks) /\ Head(q) \in HistoryTasks /\ Head(q) = q[1]
      /\ 1 \in 1 .. Len(q) /\ Len(q) \in Nat /\ 1 \in Nat /\ 1 > 0
    OBVIOUS
<1>2. PICK m : m = 1 + 1
    OBVIOUS
<1>3. Count(q, 1, S) = Count(q, m, S) + IF q[1] \in S THEN 1 ELSE 0
    BY <1>1, <1>2, CountFirst
<1>4. Count(Tail(q), 1, S) = Count(q, m, S)
    BY <1>1, <1>2, CountTail, Zenon
<1>5. Count(Tail(q), 1, S) \in Nat
    BY <1>1, CountType
<1> QED BY <1>1, <1>3, <1>4, <1>5

\* The numbers waiting, the flag and the task that stands for it.
NacksOK(down, pend, sched, c, post, task) ==
    ~down => /\ pend # {} => sched
             /\ (IF sched THEN 1 ELSE 0) = c + (IF post THEN 1 ELSE 0) + (IF task THEN 1 ELSE 0)

NackTypes(task, sched, post, n, b, pend, rtx) ==
    /\ task \in BOOLEAN /\ sched \in BOOLEAN /\ post \in BOOLEAN
    /\ n \in 0 .. MaxNacks
    /\ b \subseteq Seqs /\ Cardinality(b) <= kMaxNacksPerTask
    /\ pend \subseteq Seqs /\ Cardinality(pend) <= kMaxCapacity
    /\ pend \cup b # {} => rtx

LEMMA NackFacts ==
    NackInv <=> /\ NackTypes(in_nack_task, nack_task_scheduled, nack_post, nacks, batch,
                             pending_nacks, rtx_enabled)
                /\ NacksOK(history_shutdown, pending_nacks, nack_task_scheduled,
                           Count(history_tasks, 1, NackTasks), nack_post, in_nack_task)
BY Zenon DEF NackInv, NacksHaveTask, NacksOK, NackTypes

LEMMA NackStep ==
    ASSUME NackTypes(in_nack_task', nack_task_scheduled', nack_post', nacks', batch',
                     pending_nacks', rtx_enabled'),
           NacksOK(history_shutdown', pending_nacks', nack_task_scheduled',
                   Count(history_tasks', 1, NackTasks), nack_post', in_nack_task')
    PROVE  NackInv'
BY Zenon DEF NackInv, NacksHaveTask, NacksOK, NackTypes, Count

\* Steps that change neither the NACKs nor how many tasks answer them.
LEMMA NackSame ==
    ASSUME NackInv, UNCHANGED <<rtx_enabled, in_nack_task, batch, nack_vars, history_shutdown>>,
           ~history_shutdown => Count(history_tasks', 1, NackTasks)
                                  = Count(history_tasks, 1, NackTasks)
    PROVE  NackInv'
<1>1. /\ NackTypes(in_nack_task, nack_task_scheduled, nack_post, nacks, batch,
                   pending_nacks, rtx_enabled)
      /\ NacksOK(history_shutdown, pending_nacks, nack_task_scheduled,
                 Count(history_tasks, 1, NackTasks), nack_post, in_nack_task)
    BY NackFacts, Zenon
<1>2. UNCHANGED <<rtx_enabled, in_nack_task, batch, nacks, pending_nacks, nack_post,
                  nack_task_scheduled, history_shutdown>>
    BY DEF nack_vars
<1>3. NackTypes(in_nack_task', nack_task_scheduled', nack_post', nacks', batch',
                pending_nacks', rtx_enabled')
    BY <1>1, <1>2
<1>4. NacksOK(history_shutdown', pending_nacks', nack_task_scheduled',
              Count(history_tasks', 1, NackTasks), nack_post', in_nack_task')
    BY <1>1, <1>2 DEF NacksOK
<1> QED BY <1>3, <1>4, NackStep

LEMMA TakeNacks ==
    ASSUME NackInv, ShutdownInv, history_tasks \in Seq(HistoryTasks), ProcessPendingNacks
    PROVE  NackInv'
<1>1. /\ NackTypes(in_nack_task, nack_task_scheduled, nack_post, nacks, batch,
                   pending_nacks, rtx_enabled)
      /\ NacksOK(history_shutdown, pending_nacks, nack_task_scheduled,
                 Count(history_tasks, 1, NackTasks), nack_post, in_nack_task)
    BY NackFacts, Zenon
<1>2. /\ ~in_nack_task /\ history_tasks # <<>> /\ Head(history_tasks).op = "nacks"
      /\ history_tasks' = Tail(history_tasks)
      /\ UNCHANGED <<rtx_enabled, nack_post, nacks, history_shutdown>>
    BY DEF ProcessPendingNacks, destroy_vars
<1>3. PICK c \in Nat : /\ c = Count(history_tasks', 1, NackTasks)
                       /\ Count(history_tasks, 1, NackTasks) = c + 1
  <2>1. PICK q : q = history_tasks
    OBVIOUS
  <2>2. q \in Seq(HistoryTasks) /\ q # <<>> /\ Head(q).op = "nacks" /\ history_tasks' = Tail(q)
    BY <1>2, <2>1
  <2>3. /\ Head(q) \in HistoryTasks /\ Count(Tail(q), 1, NackTasks) \in Nat
        /\ Count(q, 1, NackTasks) = Count(Tail(q), 1, NackTasks)
                                    + IF Head(q) \in NackTasks THEN 1 ELSE 0
    BY <2>2, CountTaken
  <2>4. Head(q) \in NackTasks
    BY <2>2, <2>3, HistoryTaskIs
  <2> QED BY <2>1, <2>2, <2>3, <2>4
<1>4. CASE history_shutdown
  <2>1. pending_nacks' = {} /\ nack_task_scheduled' = FALSE /\ UNCHANGED <<in_nack_task, batch>>
    BY <1>4 DEF ProcessPendingNacks
  <2>2. Cardinality({}) <= kMaxCapacity
    BY FS_EmptySet, Span
  <2>3. NackTypes(in_nack_task', nack_task_scheduled', nack_post', nacks', batch',
                  pending_nacks', rtx_enabled')
    BY <1>1, <1>2, <2>1, <2>2 DEF NackTypes
  <2>4. NacksOK(history_shutdown', pending_nacks', nack_task_scheduled',
                Count(history_tasks', 1, NackTasks), nack_post', in_nack_task')
    BY <1>2, <1>4 DEF NacksOK
  <2> QED BY <2>3, <2>4, NackStep
<1>5. CASE ~history_shutdown
  <2>1. /\ in_nack_task' = TRUE /\ batch' = Smallest(pending_nacks, kMaxNacksPerTask)
        /\ pending_nacks' = pending_nacks \ batch' /\ UNCHANGED nack_task_scheduled
    BY <1>5 DEF ProcessPendingNacks, NotTaken
  <2>2. pending_nacks \subseteq Seqs /\ Cardinality(pending_nacks) <= kMaxCapacity
    BY <1>1 DEF NackTypes
  <2>3. IsFiniteSet(pending_nacks) /\ Cardinality(pending_nacks) \in Nat /\ pending_nacks \subseteq Int
    BY <2>2, SeqsFinite
  <2>4. batch' \subseteq pending_nacks /\ Cardinality(batch') <= kMaxNacksPerTask
    BY <2>1, <2>3, SmallestIs, Span
  <2>5. Cardinality(pending_nacks') <= kMaxCapacity
    <3>1. pending_nacks' \subseteq pending_nacks
      BY <2>1
    <3>2. Cardinality(pending_nacks') \in Nat /\ Cardinality(pending_nacks') <= Cardinality(pending_nacks)
      BY <2>3, <3>1, FS_Subset, FS_CardinalityType
    <3> QED BY <2>2, <2>3, <3>2, Span
  <2>6. NackTypes(in_nack_task', nack_task_scheduled', nack_post', nacks', batch',
                  pending_nacks', rtx_enabled')
    BY <1>1, <1>2, <2>1, <2>4, <2>5 DEF NackTypes
  <2>7. NacksOK(history_shutdown', pending_nacks', nack_task_scheduled',
                Count(history_tasks', 1, NackTasks), nack_post', in_nack_task')
    <3>1. pending_nacks' # {} => pending_nacks # {}
      BY <2>1
    <3>2. /\ pending_nacks # {} => nack_task_scheduled
          /\ (IF nack_task_scheduled THEN 1 ELSE 0)
               = (c + 1) + (IF nack_post THEN 1 ELSE 0) + 0
      BY <1>1, <1>2, <1>3, <1>5 DEF NacksOK
    <3>3. (IF nack_task_scheduled THEN 1 ELSE 0) = c + (IF nack_post THEN 1 ELSE 0) + 1
      BY <3>2
    <3> QED BY <1>2, <1>3, <2>1, <3>1, <3>2, <3>3 DEF NacksOK
  <2> QED BY <2>6, <2>7, NackStep
<1> QED BY <1>4, <1>5

LEMMA FinishNacks ==
    ASSUME NackInv, ShutdownInv, history_tasks \in Seq(HistoryTasks), FinishPendingNacks
    PROVE  NackInv' /\ history_tasks' \in Seq(HistoryTasks)
<1>1. /\ NackTypes(in_nack_task, nack_task_scheduled, nack_post, nacks, batch,
                   pending_nacks, rtx_enabled)
      /\ NacksOK(history_shutdown, pending_nacks, nack_task_scheduled,
                 Count(history_tasks, 1, NackTasks), nack_post, in_nack_task)
    BY NackFacts, Zenon
<1>2. /\ in_nack_task /\ in_nack_task' = FALSE /\ batch' = {} /\ NacksDone
      /\ UNCHANGED <<rtx_enabled, nack_post, nacks, history_shutdown>>
    BY DEF FinishPendingNacks, destroy_vars
<1>3. /\ Cardinality({}) <= kMaxCapacity /\ Cardinality({}) <= kMaxNacksPerTask
    BY FS_EmptySet, Span
<1>4. /\ nack_task_scheduled' \in BOOLEAN /\ pending_nacks' \subseteq Seqs
      /\ Cardinality(pending_nacks') <= kMaxCapacity /\ (pending_nacks' # {} => rtx_enabled)
  <2>1. /\ nack_task_scheduled \in BOOLEAN /\ pending_nacks \subseteq Seqs
        /\ Cardinality(pending_nacks) <= kMaxCapacity /\ (pending_nacks # {} => rtx_enabled)
    BY <1>1 DEF NackTypes
  <2>2. /\ nack_task_scheduled' = FALSE \/ UNCHANGED nack_task_scheduled
        /\ pending_nacks' = {} \/ UNCHANGED pending_nacks
    BY <1>2, Zenon DEF NacksDone
  <2> QED BY <1>3, <2>1, <2>2
<1>5. NackTypes(in_nack_task', nack_task_scheduled', nack_post', nacks', batch',
                pending_nacks', rtx_enabled')
    BY <1>1, <1>2, <1>3, <1>4 DEF NackTypes
<1>6. PICK c \in Nat : c = Count(history_tasks, 1, NackTasks)
    BY CountType
<1>7. PICK q, x : q = history_tasks /\ x = [op |-> "nacks"]
    OBVIOUS
<1>8. /\ Append(q, x) \in Seq(HistoryTasks)
      /\ Count(Append(q, x), 1, NackTasks) = c + 1
  <2>1. x \in HistoryTasks /\ x \in NackTasks /\ q \in Seq(HistoryTasks)
    BY <1>7, IsHistoryTask
  <2>2. /\ Append(q, x) \in Seq(HistoryTasks)
        /\ Count(Append(q, x), 1, NackTasks) = Count(q, 1, NackTasks) + 1
    BY <2>1, CountPosted, Zenon
  <2> QED BY <1>6, <1>7, <2>1, <2>2
<1>9. history_tasks' \in Seq(HistoryTasks)
    BY <1>2, <1>7, <1>8 DEF NacksDone
<1>10. NacksOK(history_shutdown', pending_nacks', nack_task_scheduled',
               Count(history_tasks', 1, NackTasks), nack_post', in_nack_task')
  <2>1. SUFFICES ASSUME ~history_shutdown
                 PROVE  NacksOK(history_shutdown', pending_nacks', nack_task_scheduled',
                                Count(history_tasks', 1, NackTasks), nack_post', in_nack_task')
    BY <1>2 DEF NacksOK
  <2>2. /\ pending_nacks # {} => nack_task_scheduled
        /\ (IF nack_task_scheduled THEN 1 ELSE 0) = c + (IF nack_post THEN 1 ELSE 0) + 1
    BY <1>1, <1>2, <1>6, <2>1 DEF NacksOK
  <2>3. c = 0 /\ ~nack_post /\ nack_task_scheduled
    BY <2>2
  <2>4. CASE pending_nacks = {}
    <3>1. pending_nacks' = {} /\ nack_task_scheduled' = FALSE /\ history_tasks' = history_tasks
      BY <1>2, <2>4 DEF NacksDone
    <3> QED BY <1>2, <1>6, <2>3, <3>1 DEF NacksOK
  <2>5. CASE pending_nacks # {}
    <3>1. ~history_stopped
      BY <2>1 DEF ShutdownInv
    <3>2. history_tasks' = Append(q, x) /\ UNCHANGED <<pending_nacks, nack_task_scheduled>>
      BY <1>2, <1>7, <2>1, <2>5, <3>1 DEF NacksDone
    <3> QED BY <1>2, <1>8, <2>3, <3>2 DEF NacksOK
  <2> QED BY <2>4, <2>5
<1> QED BY <1>5, <1>9, <1>10, NackStep

LEMMA ReceiveNacks ==
    ASSUME NackInv, out \in Seq(SentPackets), history_tasks \in Seq(HistoryTasks), OnReceiveNack
    PROVE  NackInv'
<1>1. /\ NackTypes(in_nack_task, nack_task_scheduled, nack_post, nacks, batch,
                   pending_nacks, rtx_enabled)
      /\ NacksOK(history_shutdown, pending_nacks, nack_task_scheduled,
                 Count(history_tasks, 1, NackTasks), nack_post, in_nack_task)
    BY NackFacts, Zenon
<1>2. /\ ~nack_post /\ nacks < MaxNacks /\ nacks' = nacks + 1 /\ rtx_enabled
      /\ nack_post' = (~nack_task_scheduled /\ pending_nacks' # {})
      /\ nack_task_scheduled' = (nack_task_scheduled \/ nack_post')
      /\ UNCHANGED <<rtx_enabled, in_nack_task, batch, history_tasks, history_shutdown>>
    BY DEF OnReceiveNack, history_vars, destroy_vars
<1>3. PICK n \in Nat : n = Cardinality(pending_nacks) /\ n <= kMaxCapacity
    BY <1>1, SeqsFinite DEF NackTypes
<1>4. PICK S \in SUBSET {out[i].seq : i \in DOMAIN out} :
         pending_nacks' = pending_nacks \cup
                          Smallest(S, IF kMaxCapacity > n THEN kMaxCapacity - n ELSE 0)
    BY <1>3 DEF OnReceiveNack
<1>5. S \subseteq Seqs
  <2>1. \A x \in SentPackets : x.seq \in Seqs
    BY DEF SentPackets
  <2>2. \A i \in DOMAIN out : out[i] \in SentPackets
    OBVIOUS
  <2> QED BY <2>1, <2>2
<1>6. PICK k \in Nat : k = (IF kMaxCapacity > n THEN kMaxCapacity - n ELSE 0) /\ n + k <= kMaxCapacity
    BY <1>3, Span
<1>7. PICK B : B = Smallest(S, k)
    OBVIOUS
<1>8. B \subseteq S /\ IsFiniteSet(B) /\ Cardinality(B) \in Nat /\ Cardinality(B) <= k
    BY <1>5, <1>7, SeqsFinite, SmallestIs
<1>9. pending_nacks' = pending_nacks \cup B
    BY <1>4, <1>6, <1>7
<1>10. Cardinality(pending_nacks') <= kMaxCapacity
  <2>1. IsFiniteSet(pending_nacks)
    BY <1>1, SeqsFinite DEF NackTypes
  <2>2. /\ IsFiniteSet(pending_nacks \cap B)
        /\ Cardinality(pending_nacks \cup B)
             = Cardinality(pending_nacks) + Cardinality(B) - Cardinality(pending_nacks \cap B)
    <3>1. pending_nacks \cap B \subseteq B
      OBVIOUS
    <3> QED BY <1>8, <2>1, <3>1, FS_Union, FS_Subset
  <2>3. Cardinality(pending_nacks \cap B) \in Nat
    BY <2>2, FS_CardinalityType
  <2> QED BY <1>3, <1>6, <1>8, <1>9, <2>2, <2>3, Span
<1>11. NackTypes(in_nack_task', nack_task_scheduled', nack_post', nacks', batch',
                 pending_nacks', rtx_enabled')
  <2>1. pending_nacks' \subseteq Seqs
    BY <1>1, <1>5, <1>8, <1>9 DEF NackTypes
  <2>2. nacks' \in 0 .. MaxNacks
    BY <1>1, <1>2, Span DEF NackTypes
  <2>3. nack_post' \in BOOLEAN /\ nack_task_scheduled' \in BOOLEAN
    BY <1>2
  <2> QED BY <1>1, <1>2, <1>10, <2>1, <2>2, <2>3 DEF NackTypes
<1>12. NacksOK(history_shutdown', pending_nacks', nack_task_scheduled',
               Count(history_tasks', 1, NackTasks), nack_post', in_nack_task')
  <2>1. PICK c \in Nat : c = Count(history_tasks, 1, NackTasks)
    BY CountType
  <2>2. nack_task_scheduled \in BOOLEAN /\ in_nack_task \in BOOLEAN
    BY <1>1 DEF NackTypes
  <2>3. SUFFICES ASSUME ~history_shutdown
                 PROVE  /\ pending_nacks' # {} => nack_task_scheduled'
                        /\ (IF nack_task_scheduled' THEN 1 ELSE 0)
                             = c + (IF nack_post' THEN 1 ELSE 0) + (IF in_nack_task THEN 1 ELSE 0)
    BY <1>2, <2>1 DEF NacksOK
  <2>4. (IF nack_task_scheduled THEN 1 ELSE 0) = c + 0 + (IF in_nack_task THEN 1 ELSE 0)
    BY <1>1, <1>2, <2>1, <2>3 DEF NacksOK
  <2>5. CASE nack_task_scheduled
    <3>1. nack_post' = FALSE /\ nack_task_scheduled' = TRUE
      BY <1>2, <2>5
    <3> QED BY <2>4, <2>5, <3>1
  <2>6. CASE ~nack_task_scheduled
    <3>1. c = 0 /\ ~in_nack_task
      BY <2>2, <2>4, <2>6
    <3>2. nack_post' = (pending_nacks' # {}) /\ nack_task_scheduled' = nack_post'
      BY <1>2, <2>6
    <3>3. CASE pending_nacks' = {}
      <4>1. nack_post' = FALSE /\ nack_task_scheduled' = FALSE
        BY <3>2, <3>3
      <4> QED BY <3>1, <3>3, <4>1
    <3>4. CASE pending_nacks' # {}
      <4>1. nack_post' = TRUE /\ nack_task_scheduled' = TRUE
        BY <3>2, <3>4
      <4> QED BY <3>1, <4>1
    <3> QED BY <3>3, <3>4
  <2> QED BY <2>5, <2>6
<1> QED BY <1>11, <1>12, NackStep

LEMMA PostNacks ==
    ASSUME NackInv, ShutdownInv, history_tasks \in Seq(HistoryTasks), OnReceiveNackPosts
    PROVE  NackInv' /\ history_tasks' \in Seq(HistoryTasks)
<1>1. /\ NackTypes(in_nack_task, nack_task_scheduled, nack_post, nacks, batch,
                   pending_nacks, rtx_enabled)
      /\ NacksOK(history_shutdown, pending_nacks, nack_task_scheduled,
                 Count(history_tasks, 1, NackTasks), nack_post, in_nack_task)
    BY NackFacts, Zenon
<1>2. PICK q, x : q = history_tasks /\ x = [op |-> "nacks"]
    OBVIOUS
<1>3. /\ nack_post /\ nack_post' = FALSE
      /\ history_tasks' = IF history_shutdown \/ history_stopped THEN q ELSE Append(q, x)
      /\ UNCHANGED <<rtx_enabled, in_nack_task, batch, pending_nacks, nack_task_scheduled,
                     nacks, history_shutdown>>
    BY <1>2 DEF OnReceiveNackPosts, PostHistory, history_vars, destroy_vars
<1>4. PICK c \in Nat : /\ c = Count(q, 1, NackTasks) /\ Append(q, x) \in Seq(HistoryTasks)
                       /\ Count(Append(q, x), 1, NackTasks) = c + 1
  <2>1. x \in HistoryTasks /\ x \in NackTasks /\ q \in Seq(HistoryTasks)
    BY <1>2, IsHistoryTask
  <2>2. /\ Append(q, x) \in Seq(HistoryTasks) /\ Count(q, 1, NackTasks) \in Nat
        /\ Count(Append(q, x), 1, NackTasks) = Count(q, 1, NackTasks) + 1
    BY <2>1, CountPosted, Zenon
  <2> QED BY <2>1, <2>2
<1>5. history_tasks' \in Seq(HistoryTasks)
    BY <1>2, <1>3, <1>4
<1>6. NackTypes(in_nack_task', nack_task_scheduled', nack_post', nacks', batch',
                pending_nacks', rtx_enabled')
    BY <1>1, <1>3 DEF NackTypes
<1>7. NacksOK(history_shutdown', pending_nacks', nack_task_scheduled',
              Count(history_tasks', 1, NackTasks), nack_post', in_nack_task')
  <2>1. SUFFICES ASSUME ~history_shutdown
                 PROVE  NacksOK(history_shutdown', pending_nacks', nack_task_scheduled',
                                Count(history_tasks', 1, NackTasks), nack_post', in_nack_task')
    BY <1>3 DEF NacksOK
  <2>2. history_tasks' = Append(q, x)
    BY <1>3, <2>1 DEF ShutdownInv
  <2>3. Count(history_tasks', 1, NackTasks) = c + 1
    BY <1>4, <2>2
  <2>4. /\ pending_nacks # {} => nack_task_scheduled
        /\ (IF nack_task_scheduled THEN 1 ELSE 0) = c + 1 + (IF in_nack_task THEN 1 ELSE 0)
    BY <1>1, <1>2, <1>3, <1>4, <2>1 DEF NacksOK
  <2>5. (IF nack_task_scheduled THEN 1 ELSE 0) = (c + 1) + 0 + (IF in_nack_task THEN 1 ELSE 0)
    BY <2>4
  <2> QED BY <1>3, <2>1, <2>3, <2>4, <2>5 DEF NacksOK
<1> QED BY <1>5, <1>6, <1>7, NackStep

\* Steps that only make the NACKs fewer: one is resent, or the channel closes.
LEMMA DropNacks ==
    ASSUME NackInv, ReSendPacket \/ ChannelShutsDown \/ ChannelStops, ShutdownInv
    PROVE  NackInv'
<1>1. /\ NackTypes(in_nack_task, nack_task_scheduled, nack_post, nacks, batch,
                   pending_nacks, rtx_enabled)
      /\ NacksOK(history_shutdown, pending_nacks, nack_task_scheduled,
                 Count(history_tasks, 1, NackTasks), nack_post, in_nack_task)
    BY NackFacts, Zenon
<1>2. CASE ReSendPacket
  <2>1. batch' \subseteq batch
    BY <1>2 DEF ReSendPacket
  <2>2. /\ UNCHANGED <<rtx_enabled, in_nack_task, history_tasks, pending_nacks, nack_post, nacks,
                       nack_task_scheduled, history_shutdown>>
    BY <1>2 DEF ReSendPacket, nack_vars, destroy_vars
  <2>3. Cardinality(batch') <= kMaxNacksPerTask
    <3>1. batch \subseteq Seqs /\ Cardinality(batch) <= kMaxNacksPerTask
      BY <1>1 DEF NackTypes
    <3>2. IsFiniteSet(batch) /\ Cardinality(batch) \in Nat
      BY <3>1, SeqsFinite
    <3>3. Cardinality(batch') \in Nat /\ Cardinality(batch') <= Cardinality(batch)
      BY <2>1, <3>2, FS_Subset, FS_CardinalityType
    <3> QED BY <3>1, <3>2, <3>3, Span
  <2>4. NackTypes(in_nack_task', nack_task_scheduled', nack_post', nacks', batch',
                  pending_nacks', rtx_enabled')
    BY <1>1, <2>1, <2>2, <2>3 DEF NackTypes
  <2>5. NacksOK(history_shutdown', pending_nacks', nack_task_scheduled',
                Count(history_tasks', 1, NackTasks), nack_post', in_nack_task')
    BY <1>1, <2>2
  <2> QED BY <2>4, <2>5, NackStep
<1>3. CASE ChannelShutsDown
  <2>1. /\ history_shutdown' = TRUE /\ pending_nacks' = {} /\ nack_task_scheduled' = FALSE
        /\ UNCHANGED <<rtx_enabled, in_nack_task, batch, nack_post, nacks>>
    BY <1>3 DEF ChannelShutsDown, history_vars
  <2>2. Cardinality({}) <= kMaxCapacity
    BY FS_EmptySet, Span
  <2>3. NackTypes(in_nack_task', nack_task_scheduled', nack_post', nacks', batch',
                  pending_nacks', rtx_enabled')
    BY <1>1, <2>1, <2>2 DEF NackTypes
  <2>4. NacksOK(history_shutdown', pending_nacks', nack_task_scheduled',
                Count(history_tasks', 1, NackTasks), nack_post', in_nack_task')
    BY <2>1 DEF NacksOK
  <2> QED BY <2>3, <2>4, NackStep
<1>4. CASE ChannelStops
    BY <1>4, NackSame DEF ChannelStops, history_vars
<1> QED BY <1>2, <1>3, <1>4
-----------------------------------------------------------------------------
(* The history is a tail of what was numbered                                *)

LEMMA CountMore ==
    ASSUME NEW T, NEW q \in Seq(T), NEW i \in 1 .. Len(q), NEW S, q[i] \in S
    PROVE  /\ Count(q, i + 1, S) \in Nat /\ Count(q, 1, S) \in Nat
           /\ Count(q, i + 1, S) + 1 <= Count(q, 1, S)
<1> DEFINE A == {j \in i .. Len(q) : q[j] \in S}
           B == {j \in 1 .. Len(q) : q[j] \in S}
<1>1. Len(q) \in Nat /\ i \in Nat /\ i + 1 \in Nat /\ 1 \in Nat
    OBVIOUS
<1>2. A \subseteq B
    BY <1>1
<1>3. IsFiniteSet(B) /\ Count(q, i, S) = Cardinality(A) /\ Count(q, 1, S) = Cardinality(B)
    BY <1>1, CountNat, Zenon DEF Count
<1> HIDE DEF A, B
<1>4. Cardinality(A) <= Cardinality(B) /\ Cardinality(A) \in Nat /\ Cardinality(B) \in Nat
    BY <1>2, <1>3, FS_Subset, FS_CardinalityType
<1>5. Count(q, i, S) = Count(q, i + 1, S) + IF q[i] \in S THEN 1 ELSE 0
    BY <1>1, CountFirst
<1>6. Count(q, i + 1, S) \in Nat
    BY <1>1, CountType
<1> QED BY <1>3, <1>4, <1>5, <1>6

\* History h and queued tasks q hold the last packets of o.
Same(p, r) == p.seq = r.seq /\ p.pkt = r.pkt

Holds(h, o, n) ==
    /\ Len(h) <= n
    /\ \A i \in 1 .. Len(h) : h[i] # Hole /\ Same(h[i], o[(n - Len(h)) + i])

Queued(q, o) ==
    \A i \in 1 .. Len(q) : q[i] \in Puts => Same(q[i], o[Len(o) - Count(q, i + 1, Puts)])

TailOf(h, q, o) == Holds(h, o, Len(o) - Count(q, 1, Puts)) /\ Queued(q, o)

LEMMA TailFacts ==
    ASSUME packet_history \in Seq(Slots), history_tasks \in Seq(HistoryTasks)
    PROVE  HistoryIsTailOfOut <=>
             (rtx_enabled /\ ~history_shutdown => TailOf(packet_history, history_tasks, out))
<1>1. DOMAIN history_tasks = 1 .. Len(history_tasks)
    OBVIOUS
<1> QED BY <1>1, Zenon DEF HistoryIsTailOfOut, TailOf, Holds, Queued, Same

LEMMA TailStep ==
    ASSUME packet_history' \in Seq(Slots), history_tasks' \in Seq(HistoryTasks),
           rtx_enabled' /\ ~history_shutdown' => TailOf(packet_history', history_tasks', out')
    PROVE  HistoryIsTailOfOut'
<1>1. DOMAIN history_tasks' = 1 .. Len(history_tasks')
    OBVIOUS
<1> QED BY <1>1, Zenon DEF HistoryIsTailOfOut, TailOf, Holds, Queued, Same, Count

LEMMA QueuedTail ==
    ASSUME NEW q \in Seq(HistoryTasks), q # <<>>, NEW o, Queued(q, o)
    PROVE  /\ Queued(Tail(q), o)
           /\ Head(q) \in Puts => Same(Head(q), o[Len(o) - Count(Tail(q), 1, Puts)])
<1>1. PICK L \in Nat : L = Len(q) /\ L > 0
    OBVIOUS
<1>2. /\ Tail(q) \in Seq(HistoryTasks) /\ Len(Tail(q)) = L - 1 /\ Head(q) = q[1]
      /\ \A i \in 1 .. L - 1 : Tail(q)[i] = q[i + 1]
    BY <1>1
<1>3. \A i \in Nat : i > 0 => Count(Tail(q), i, Puts) = Count(q, i + 1, Puts)
    BY CountTail
<1>4. Queued(Tail(q), o)
  <2> SUFFICES ASSUME NEW i \in 1 .. L - 1, Tail(q)[i] \in Puts
               PROVE  Same(Tail(q)[i], o[Len(o) - Count(Tail(q), i + 1, Puts)])
    BY <1>2 DEF Queued
  <2>1. i + 1 \in 1 .. L /\ i + 1 \in Nat /\ i + 1 > 0 /\ Tail(q)[i] = q[i + 1]
    BY <1>1, <1>2
  <2>2. Same(q[i + 1], o[Len(o) - Count(q, (i + 1) + 1, Puts)])
    BY <1>1, <2>1 DEF Queued
  <2>3. Count(Tail(q), i + 1, Puts) = Count(q, (i + 1) + 1, Puts)
    BY <1>3, <2>1
  <2> QED BY <2>1, <2>2, <2>3
<1>5. Count(Tail(q), 1, Puts) = Count(q, 1 + 1, Puts)
    BY <1>3
<1>6. q[1] \in Puts => Same(q[1], o[Len(o) - Count(q, 1 + 1, Puts)])
  <2>1. 1 \in 1 .. Len(q)
    BY <1>1
  <2> QED BY <2>1 DEF Queued
<1> QED BY <1>2, <1>4, <1>5, <1>6

\* A task is posted: one that is no packet, or the packet that was just sent.
LEMMA QueuedPost ==
    ASSUME NEW q \in Seq(HistoryTasks), NEW o \in Seq(SentPackets), Queued(q, o),
           NEW t \in HistoryTasks, t \notin Puts
    PROVE  Queued(Append(q, t), o)
<1>1. PICK L \in Nat : L = Len(q)
    OBVIOUS
<1>2. PICK r : r = Append(q, t)
    OBVIOUS
<1>3. Len(r) = L + 1 /\ r[L + 1] = t /\ \A i \in 1 .. L : r[i] = q[i]
    BY <1>1, <1>2
<1> SUFFICES ASSUME NEW i \in 1 .. L + 1, r[i] \in Puts
             PROVE  Same(r[i], o[Len(o) - Count(r, i + 1, Puts)])
    BY <1>2, <1>3 DEF Queued
<1>4. i \in 1 .. L /\ r[i] = q[i]
    BY <1>3
<1>5. i + 1 \in Nat /\ i + 1 > 0 /\ i + 1 <= Len(q) + 1
    BY <1>1, <1>4
<1>6. Count(Append(q, t), i + 1, Puts) = Count(q, i + 1, Puts) + IF t \in Puts THEN 1 ELSE 0
    BY <1>5, CountAppend
<1>7. Count(q, i + 1, Puts) \in Nat
    BY <1>5, CountType
<1>8. Count(r, i + 1, Puts) = Count(q, i + 1, Puts)
    BY <1>2, <1>6, <1>7
<1>9. Same(q[i], o[Len(o) - Count(q, i + 1, Puts)])
    BY <1>1, <1>4 DEF Queued
<1> QED BY <1>4, <1>8, <1>9

LEMMA QueuedSend ==
    ASSUME NEW q \in Seq(HistoryTasks), NEW o \in Seq(SentPackets), Queued(q, o),
           Count(q, 1, Puts) <= Len(o),
           NEW t \in Puts, NEW x \in SentPackets, Same(t, x)
    PROVE  Queued(Append(q, t), Append(o, x))
<1>0. t \in HistoryTasks
    BY IsHistoryTask
<1>1. PICK L \in Nat, M \in Nat : L = Len(q) /\ M = Len(o)
    OBVIOUS
<1>2. PICK r, y : r = Append(q, t) /\ y = Append(o, x)
    OBVIOUS
<1>3. /\ r \in Seq(HistoryTasks) /\ Len(r) = L + 1 /\ r[L + 1] = t /\ \A i \in 1 .. L : r[i] = q[i]
      /\ Len(y) = M + 1 /\ y[M + 1] = x /\ \A i \in 1 .. M : y[i] = o[i]
    BY <1>0, <1>1, <1>2
<1> SUFFICES ASSUME NEW i \in 1 .. L + 1, r[i] \in Puts
             PROVE  Same(r[i], y[Len(y) - Count(r, i + 1, Puts)])
    BY <1>2, <1>3 DEF Queued
<1>4. CASE i = L + 1
  <2>1. i + 1 \in Nat /\ i + 1 > Len(r) /\ Len(r) \in Nat
    BY <1>3, <1>4
  <2>2. Count(r, i + 1, Puts) = 0
    BY <2>1, CountEnd
  <2>3. y[Len(y) - Count(r, i + 1, Puts)] = x
    BY <1>3, <2>2
  <2> QED BY <1>3, <1>4, <2>3
<1>5. CASE i \in 1 .. L
  <2>1. i + 1 \in Nat /\ i + 1 > 0 /\ i + 1 <= Len(q) + 1 /\ q[i] = r[i]
    BY <1>1, <1>3, <1>5
  <2>2. Count(Append(q, t), i + 1, Puts) = Count(q, i + 1, Puts) + IF t \in Puts THEN 1 ELSE 0
    BY <1>0, <2>1, CountAppend
  <2>3. PICK c \in Nat : c = Count(q, i + 1, Puts) /\ c + 1 <= M
    BY <1>1, <1>5, <2>1, CountMore
  <2>4. Count(r, i + 1, Puts) = c + 1
    BY <1>2, <2>2, <2>3
  <2>5. Len(y) - Count(r, i + 1, Puts) = M - c /\ M - c \in 1 .. M
    BY <1>3, <2>3, <2>4
  <2>6. y[M - c] = o[M - c]
    BY <1>3, <2>5
  <2>7. Same(q[i], o[M - c])
    BY <1>1, <1>5, <2>1, <2>3 DEF Queued
  <2> QED BY <2>1, <2>5, <2>6, <2>7
<1> QED BY <1>4, <1>5

LEMMA HoldsCut ==
    ASSUME NEW h \in Seq(Slots), NEW c \in Seq(Slots), NEW k \in Nat, Cut(h, c, k), NEW o,
           NEW n \in Int, Holds(h, o, n)
    PROVE  Holds(c, o, n)
<1>1. PICK L \in Nat, M \in Nat : L = Len(h) /\ M = Len(c) /\ M = L - k
    BY DEF Cut
<1>2. M <= n
    BY <1>1 DEF Holds
<1>3. ASSUME NEW i \in 1 .. M PROVE c[i] # Hole /\ Same(c[i], o[(n - M) + i])
  <2>1. k + i \in 1 .. L /\ (n - L) + (k + i) = (n - M) + i
    BY <1>1
  <2>2. c[i] = h[k + i]
    BY <1>1 DEF Cut
  <2>3. h[k + i] # Hole /\ Same(h[k + i], o[(n - L) + (k + i)])
    BY <1>1, <2>1 DEF Holds
  <2> QED BY <2>1, <2>2, <2>3
<1> QED BY <1>1, <1>2, <1>3 DEF Holds

LEMMA HoldsRemarked ==
    ASSUME NEW h \in Seq(Slots), NEW g \in Seq(Slots), Len(g) = Len(h), Remarked(h, g), NEW o,
           NEW n \in Int, Holds(h, o, n)
    PROVE  Holds(g, o, n)
<1>1. PICK L \in Nat : L = Len(h) /\ L = Len(g) /\ DOMAIN h = 1 .. L
    OBVIOUS
<1>2. ASSUME NEW i \in 1 .. L PROVE g[i] # Hole /\ Same(g[i], o[(n - L) + i])
  <2>1. h[i] # Hole /\ Same(h[i], o[(n - L) + i])
    BY <1>1 DEF Holds
  <2>2. g[i] # Hole /\ g[i].seq = h[i].seq /\ g[i].pkt = h[i].pkt
    BY <1>1, <2>1, Zenon DEF Remarked
  <2> QED BY <2>1, <2>2 DEF Same
<1> QED BY <1>1, <1>2 DEF Holds

LEMMA HoldsNext ==
    ASSUME NEW h \in Seq(Slots), NEW x \in Slots, x # Hole, NEW o, NEW n \in Int,
           Holds(h, o, n), Same(x, o[n + 1])
    PROVE  Holds(Append(h, x), o, n + 1)
<1>1. PICK L \in Nat : L = Len(h)
    OBVIOUS
<1>2. PICK g : g = Append(h, x)
    OBVIOUS
<1>3. Len(g) = L + 1 /\ g[L + 1] = x /\ \A i \in 1 .. L : g[i] = h[i]
    BY <1>1, <1>2
<1>4. ASSUME NEW i \in 1 .. L + 1 PROVE g[i] # Hole /\ Same(g[i], o[((n + 1) - (L + 1)) + i])
  <2>1. (n + 1) - (L + 1) = n - L
    BY <1>1
  <2>2. CASE i = L + 1
    <3>1. (n - L) + i = n + 1
      BY <1>1, <2>2
    <3> QED BY <1>3, <2>1, <2>2, <3>1
  <2>3. CASE i \in 1 .. L
    <3>1. h[i] # Hole /\ Same(h[i], o[(n - L) + i])
      BY <1>1, <2>3 DEF Holds
    <3> QED BY <1>3, <2>1, <2>3, <3>1
  <2> QED BY <2>2, <2>3
<1>5. L + 1 <= n + 1
    BY <1>1 DEF Holds
<1> QED BY <1>2, <1>3, <1>4, <1>5 DEF Holds

LEMMA SameTurn ==
    ASSUME NEW a \in Seqs, NEW b \in Seqs, NEW x \in Int, NEW y \in Int,
           (a + x) % SeqSpan = (b + y) % SeqSpan, NEW d \in Nat, d = x - y, d < SeqSpan
    PROVE  a + d \in {b, b + SeqSpan}
<1>1. /\ a \in Int /\ 0 <= a /\ a < SeqSpan /\ b \in Int /\ 0 <= b /\ b < SeqSpan
      /\ SeqSpan \in Nat
    BY Span DEF Seqs
<1>2. PICK q \in Int, v \in Seqs : v = (a + x) % SeqSpan /\ a + x = q * SeqSpan + v
  <2>1. a + x \in Int
    BY <1>1
  <2>2. /\ (a + x) \div SeqSpan \in Int /\ (a + x) % SeqSpan \in Seqs
        /\ a + x = ((a + x) \div SeqSpan) * SeqSpan + ((a + x) % SeqSpan)
    BY <2>1, ModSplit
  <2> QED BY <2>2
<1>3. PICK r \in Int : b + y = r * SeqSpan + v
  <2>1. b + y \in Int
    BY <1>1
  <2>2. /\ (b + y) \div SeqSpan \in Int
        /\ b + y = ((b + y) \div SeqSpan) * SeqSpan + ((b + y) % SeqSpan)
    BY <2>1, ModSplit
  <2> QED BY <1>2, <2>2
<1>4. PICK Q \in Int, R \in Int, V \in Int : Q = q * SeqSpan /\ R = r * SeqSpan /\ V = v
    BY <1>1, <1>2 DEF Seqs
<1>5. (a + d) - b = Q - R
    BY <1>1, <1>2, <1>3, <1>4
<1>6. CASE Q - R < SeqSpan
  <2>1. -SeqSpan < Q - R
    BY <1>1, <1>5
  <2>2. q = r
    BY <1>1, <1>4, <1>6, <2>1, Multiples
  <2> QED BY <1>1, <1>4, <1>5, <2>2
<1>7. CASE Q - R >= SeqSpan
  <2>1. PICK k \in Int : k = r + 1
    OBVIOUS
  <2>2. k * SeqSpan = R + SeqSpan
    BY <1>1, <1>4, <2>1
  <2>3. -SeqSpan < Q - (R + SeqSpan) /\ Q - (R + SeqSpan) < SeqSpan
    BY <1>1, <1>5, <1>7
  <2>4. q = k
    <3>1. -SeqSpan < q * SeqSpan - k * SeqSpan /\ q * SeqSpan - k * SeqSpan < SeqSpan
      BY <1>4, <2>2, <2>3
    <3> QED BY <1>1, <3>1, Multiples
  <2>5. Q = R + SeqSpan
    BY <1>4, <2>2, <2>4
  <2> QED BY <1>1, <1>4, <1>5, <2>5
<1> QED BY <1>4, <1>6, <1>7, <1>1

\* The numbers of o run up to s.
Numbered(o, s) ==
    \A i \in 1 .. Len(o) : s = (o[i].seq + ((Len(o) + 1) - i)) % SeqSpan

LEMMA NumberedNext ==
    ASSUME NEW o \in Seq(SentPackets), NEW s \in Seqs, Numbered(o, s),
           NEW x \in SentPackets, x.seq = s
    PROVE  Numbered(Append(o, x), (s + 1) % SeqSpan)
<1>1. PICK L \in Nat : L = Len(o)
    OBVIOUS
<1>2. PICK y : y = Append(o, x)
    OBVIOUS
<1>3. Len(y) = L + 1 /\ y[L + 1] = x /\ \A i \in 1 .. L : y[i] = o[i]
    BY <1>1, <1>2
<1> SUFFICES ASSUME NEW i \in 1 .. L + 1
             PROVE  (s + 1) % SeqSpan = (y[i].seq + (((L + 1) + 1) - i)) % SeqSpan
    BY <1>2, <1>3 DEF Numbered
<1>4. CASE i = L + 1
  <2>1. ((L + 1) + 1) - i = 1
    BY <1>4
  <2>2. y[i].seq = s
    BY <1>3, <1>4
  <2> QED BY <2>1, <2>2
<1>5. CASE i \in 1 .. L
  <2>1. PICK a \in Int : a = o[i].seq
    <3>1. \A z \in SentPackets : z.seq \in Int
      BY DEF SentPackets, Seqs
    <3>2. o[i] \in SentPackets
      BY <1>1, <1>5
    <3> QED BY <3>1, <3>2
  <2>2. PICK k \in Int : k = (L + 1) - i
    BY <1>5
  <2>3. s = (a + k) % SeqSpan
    BY <1>1, <1>5, <2>1, <2>2 DEF Numbered
  <2>4. ((a + k) % SeqSpan) + 1 = s + 1
    BY <2>3
  <2>5. (s + 1) % SeqSpan = ((a + k) + 1) % SeqSpan
    <3>1. a + k \in Int
      OBVIOUS
    <3>2. (((a + k) % SeqSpan) + 1) % SeqSpan = ((a + k) + 1) % SeqSpan
      BY <3>1, NextSeq
    <3> QED BY <2>3, <3>2
  <2>6. (a + k) + 1 = y[i].seq + (((L + 1) + 1) - i)
    <3>1. y[i].seq = a /\ k = (L + 1) - i
      BY <1>3, <1>5, <2>1, <2>2
    <3>2. (a + k) + 1 = a + (((L + 1) + 1) - i)
      BY <1>5, <3>1
    <3> QED BY <3>1, <3>2
  <2> QED BY <2>5, <2>6
<1> QED BY <1>4, <1>5

LEMMA NumberedApart ==
    ASSUME NEW o \in Seq(SentPackets), NEW s, Numbered(o, s),
           NEW i \in 1 .. Len(o), NEW j \in 1 .. Len(o), NEW d \in Nat, d = j - i, d < SeqSpan
    PROVE  /\ o[i].seq \in Seqs /\ o[j].seq \in Seqs
           /\ o[i].seq + d \in {o[j].seq, o[j].seq + SeqSpan}
<1>1. PICK L \in Nat : L = Len(o)
    OBVIOUS
<1>2. \A z \in SentPackets : z.seq \in Seqs
    BY DEF SentPackets
<1>3. PICK a \in Seqs, b \in Seqs : a = o[i].seq /\ b = o[j].seq
  <2>1. \A k \in 1 .. Len(o) : o[k] \in SentPackets
    BY <1>1
  <2>2. \A k \in 1 .. Len(o) : o[k].seq \in Seqs
    BY <1>2, <2>1
  <2> QED BY <2>2, Zenon
<1>4. PICK x \in Int, y \in Int : x = (L + 1) - i /\ y = (L + 1) - j
  <2>1. (L + 1) - i \in Int /\ (L + 1) - j \in Int
    BY <1>1
  <2> QED BY <2>1, Zenon
<1>5. s = (a + x) % SeqSpan /\ s = (b + y) % SeqSpan
  <2>1. \A k \in 1 .. Len(o) : s = (o[k].seq + ((Len(o) + 1) - k)) % SeqSpan
    BY DEF Numbered
  <2>2. s = (o[i].seq + ((Len(o) + 1) - i)) % SeqSpan
    BY <2>1, Zenon
  <2>3. s = (o[j].seq + ((Len(o) + 1) - j)) % SeqSpan
    BY <2>1, Zenon
  <2> QED BY <1>1, <1>3, <1>4, <2>2, <2>3
<1>6. d = x - y
    BY <1>1, <1>4
<1>7. a + d \in {b, b + SeqSpan}
    BY <1>5, <1>6, SameTurn
<1> QED BY <1>3, <1>7

\* The packet next in turn continues what the history holds.
LEMMA HoldsFull ==
    ASSUME NEW h, Deque(h), Len(h) <= kMaxCapacity, NEW o \in Seq(SentPackets), NEW z,
           Numbered(o, z), NEW n \in Nat, n + 1 <= Len(o), Holds(h, o, n)
    PROVE  Full(h, o[n + 1].seq)
<1>1. PICK L \in Nat : L = Len(h) /\ L <= n /\ L < SeqSpan /\ (L = 0 <=> h = <<>>)
    BY Span DEF Deque, Holds
<1>2. \A i \in 1 .. L : h[i] # Hole
    BY <1>1 DEF Holds
<1>3. ASSUME h # <<>>
      PROVE  h[1].seq + L \in {o[n + 1].seq, o[n + 1].seq + SeqSpan}
  <2>1. PICK i \in 1 .. Len(o) : i = (n - L) + 1
    <3>1. (n - L) + 1 \in 1 .. Len(o)
      BY <1>1
    <3> QED BY <3>1
  <2>2. PICK j \in 1 .. Len(o) : j = n + 1
    OBVIOUS
  <2>3. L = j - i
    BY <1>1, <2>1, <2>2
  <2>4. o[i].seq + L \in {o[j].seq, o[j].seq + SeqSpan}
    BY <1>1, <2>3, NumberedApart
  <2>5. 1 \in 1 .. Len(h)
    BY <1>1, <1>3
  <2>6. h[1].seq = o[i].seq
    BY <1>1, <2>1, <2>5 DEF Holds, Same
  <2> QED BY <2>2, <2>4, <2>6
<1> QED BY <1>1, <1>2, <1>3 DEF Full

\* Packet i of h, number s, is no longer pending in g.
Marks(h, g, s, i) ==
    \/ i = 0 /\ g = h
    \/ /\ h[i].seq = s
       /\ \E x : Changed(h, g, i, x) /\ x.pending = FALSE

LEMMA MarksAre ==
    ASSUME NEW h, Deque(h), NEW s \in Seqs, NEW g,
           g = MarkPacketAsSent(h, s) \/ g = MarkPacketAsAborted(h, s)
    PROVE  Marks(h, g, s, GetStoredPacket(h, s))
<1>1. PICK i : i = GetStoredPacket(h, s)
    OBVIOUS
<1>2. i = 0 \/ (i \in 1 .. Len(h) /\ h[i] # Hole /\ h[i].seq = s)
    BY <1>1, StoredPacketIs
<1>3. CASE i = 0
    BY <1>1, <1>3 DEF Marks, MarkPacketAsSent, MarkPacketAsAborted
<1>4. CASE i \in 1 .. Len(h) /\ h[i] # Hole /\ h[i].seq = s
  <2>0. i # 0 /\ h \in Seq(Slots) /\ h[i] \in Packet
    BY <1>4, SlotIs DEF Deque
  <2>1. \E x : Changed(h, g, i, x) /\ x.pending = FALSE
    <3> DEFINE y == h[i]
               a == [y EXCEPT !.pending = FALSE]
               b == [[y EXCEPT !.pending = FALSE] EXCEPT !.resent = TRUE]
    <3>1. /\ a \in Packet /\ a.seq = y.seq /\ a.pkt = y.pkt /\ a.pending = FALSE
          /\ b \in Packet /\ b.seq = y.seq /\ b.pkt = y.pkt /\ b.pending = FALSE
      <4>1. y \in Packet
        BY <2>0
      <4> HIDE DEF y
      <4> QED BY <4>1 DEF Packet
    <3>2. CASE g = MarkPacketAsSent(h, s)
      <4>1. g = [h EXCEPT ![i].pending = FALSE, ![i].resent = TRUE]
        BY <1>1, <2>0, <3>2 DEF MarkPacketAsSent
      <4>2. g = [h EXCEPT ![i] = b]
        BY <1>4, <2>0, <4>1
      <4> HIDE DEF a, b
      <4>3. Changed(h, [h EXCEPT ![i] = b], i, b)
        BY <1>4, <3>1, ChangedIs
      <4> QED BY <3>1, <4>2, <4>3
    <3>3. CASE g = MarkPacketAsAborted(h, s)
      <4>1. g = [h EXCEPT ![i].pending = FALSE]
        BY <1>1, <2>0, <3>3 DEF MarkPacketAsAborted
      <4>2. g = [h EXCEPT ![i] = a]
        BY <1>4, <2>0, <4>1
      <4> HIDE DEF a, b
      <4>3. Changed(h, [h EXCEPT ![i] = a], i, a)
        BY <1>4, <3>1, ChangedIs
      <4> QED BY <3>1, <4>2, <4>3
    <3> QED BY <3>2, <3>3
  <2> QED BY <1>1, <1>4, <2>1, Zenon DEF Marks
<1> QED BY <1>2, <1>3, <1>4

LEMMA MarkDeque ==
    ASSUME NEW h, Deque(h), NEW s \in Seqs, NEW g,
           g = MarkPacketAsSent(h, s) \/ g = MarkPacketAsAborted(h, s)
    PROVE  Deque(g) /\ Len(g) = Len(h) /\ Remarked(h, g)
<1>1. PICK i : i = GetStoredPacket(h, s)
    OBVIOUS
<1>2. CASE i = 0 /\ g = h
    BY <1>2 DEF Remarked
<1>3. CASE \E x : Changed(h, g, i, x) /\ x.pending = FALSE
    BY <1>3, RemarkDeque
<1>4. Marks(h, g, s, i)
    BY <1>1, MarksAre
<1> QED BY <1>2, <1>3, <1>4, Zenon DEF Marks

\* History h, its tasks q, what was sent, o, and the next number s; on: the
\* history is in use.
HistoryOK(h, q, o, s, on) ==
    /\ Deque(h) /\ Len(h) <= kMaxCapacity
    /\ q \in Seq(HistoryTasks)
    /\ Numbered(o, s)
    /\ on => TailOf(h, q, o)

LEMMA HistoryFacts ==
    ASSUME HistoryInv, out \in Seq(SentPackets)
    PROVE  HistoryOK(packet_history, history_tasks, out, ssrc_seq, rtx_enabled /\ ~history_shutdown)
<1>1. DOMAIN out = 1 .. Len(out)
    OBVIOUS
<1>2. Numbered(out, ssrc_seq)
    BY <1>1, Zenon DEF HistoryInv, NumbersInv, Numbered
<1>3. rtx_enabled /\ ~history_shutdown => TailOf(packet_history, history_tasks, out)
    BY TailFacts DEF HistoryInv, Deque
<1> QED BY <1>2, <1>3 DEF HistoryInv, HistoryOK

LEMMA HistoryStep ==
    ASSUME out' \in Seq(SentPackets),
           HistoryOK(packet_history', history_tasks', out', ssrc_seq',
                     rtx_enabled' /\ ~history_shutdown')
    PROVE  HistoryInv'
<1>1. DOMAIN out' = 1 .. Len(out')
    OBVIOUS
<1>2. NumbersInv'
    BY <1>1, Zenon DEF HistoryOK, NumbersInv, Numbered
<1>3. HistoryIsTailOfOut'
    BY TailStep DEF HistoryOK, Deque
<1> QED BY <1>2, <1>3, Zenon DEF HistoryInv, HistoryOK, Deque, Aligned

LEMMA HistoryTakes ==
    ASSUME NEW h, NEW q, NEW o \in Seq(SentPackets), NEW s, NEW on \in BOOLEAN,
           HistoryOK(h, q, o, s, on), q # <<>>, NEW t, t = Head(q), NEW g,
           \/ t.op = "put" /\ g \in PutRtpPacket(h, t.seq, t.pkt)
           \/ t.op = "sent" /\ g = MarkPacketAsSent(h, t.seq)
           \/ t.op = "aborted" /\ g = MarkPacketAsAborted(h, t.seq)
           \/ t.op = "rtt" /\ (g = h \/ g \in RemoveDeadPackets(h))
           \/ t.op = "nacks" /\ g = h
    PROVE  HistoryOK(g, Tail(q), o, s, on)
<1>1. /\ Deque(h) /\ Len(h) <= kMaxCapacity /\ q \in Seq(HistoryTasks) /\ Numbered(o, s)
      /\ h \in Seq(Slots)
    BY DEF HistoryOK, Deque
<1>2. PICK c \in Nat, d \in Nat :
         /\ c = Count(Tail(q), 1, Puts) /\ d = Count(q, 1, Puts)
         /\ d = c + (IF t \in Puts THEN 1 ELSE 0)
         /\ t \in HistoryTasks /\ Tail(q) \in Seq(HistoryTasks)
  <2>1. /\ Tail(q) \in Seq(HistoryTasks) /\ Head(q) \in HistoryTasks
        /\ Count(Tail(q), 1, Puts) \in Nat
        /\ Count(q, 1, Puts) = Count(Tail(q), 1, Puts) + IF Head(q) \in Puts THEN 1 ELSE 0
    BY <1>1, CountTaken
  <2>2. Count(q, 1, Puts) \in Nat
    BY <1>1, CountType
  <2> QED BY <2>1, <2>2
<1>3. PICK M \in Nat : M = Len(o)
    OBVIOUS
<1>4. on => /\ Holds(h, o, M - d) /\ Queued(q, o) /\ Queued(Tail(q), o) /\ d <= M
            /\ t \in Puts => Same(t, o[M - c])
  <2>1. on => Holds(h, o, M - d) /\ Queued(q, o)
    BY <1>2, <1>3 DEF HistoryOK, TailOf
  <2>2. on => d <= M
    BY <1>1, <1>2, <1>3, <2>1 DEF Holds
  <2>3. on => /\ Queued(Tail(q), o)
              /\ Head(q) \in Puts => Same(Head(q), o[Len(o) - Count(Tail(q), 1, Puts)])
    BY <1>1, <2>1, QueuedTail
  <2> QED BY <1>2, <1>3, <2>1, <2>2, <2>3
<1>5. SUFFICES /\ Deque(g) /\ Len(g) <= kMaxCapacity
               /\ on => Holds(g, o, M - c)
    BY <1>1, <1>2, <1>3, <1>4 DEF HistoryOK, TailOf
<1>6. CASE t.op = "put"
  <2>1. t \in Puts /\ t.seq \in Seqs /\ t.pkt \in VideoPackets /\ d = c + 1
    BY <1>2, <1>6, HistoryTaskIs
  <2>2. g \in PutRtpPacket(h, t.seq, t.pkt)
    BY <1>6
  <2>3. Deque(g) /\ Len(g) <= kMaxCapacity
    BY <1>1, <2>1, <2>2, PutDeque
  <2>4. ASSUME on PROVE Holds(g, o, M - c)
    <3>1. PICK n \in Nat : n = M - d /\ n + 1 <= M /\ n + 1 = M - c
      <4>1. d <= M
        BY <1>4, <2>4
      <4>2. M - d \in Nat /\ (M - d) + 1 <= M /\ (M - d) + 1 = M - c
        BY <2>1, <4>1
      <4> QED BY <4>2
    <3>2. Holds(h, o, n) /\ t.seq = o[n + 1].seq /\ t.pkt = o[n + 1].pkt
      BY <1>4, <2>1, <2>4, <3>1 DEF Same
    <3>3. Full(h, t.seq)
      BY <1>1, <1>3, <3>1, <3>2, HoldsFull
    <3>4. PICK x : x = Stored(t.seq, t.pkt)
      OBVIOUS
    <3>5. x \in Slots /\ x # Hole /\ x.seq = t.seq /\ x.pkt = t.pkt
      BY <2>1, <3>4, StoredIs
    <3>6. Holds(Append(h, x), o, n + 1)
      BY <1>1, <3>2, <3>5, HoldsNext DEF Same
    <3>7. PICK k \in 0 .. Len(h) + 1 : Cut(Append(h, x), g, k)
      BY <1>1, <2>1, <2>2, <3>3, <3>4, PutNext
    <3>8. k \in Nat /\ Append(h, x) \in Seq(Slots) /\ g \in Seq(Slots) /\ n + 1 \in Int
      BY <1>1, <2>3, <3>1, <3>5 DEF Deque
    <3>9. Holds(g, o, n + 1)
      BY <3>6, <3>7, <3>8, HoldsCut
    <3> QED BY <3>1, <3>9
  <2> QED BY <2>3, <2>4
<1>7. t.op # "put" => c = d /\ M - c \in Int /\ (on => Holds(h, o, M - c))
    BY <1>2, <1>4, HistoryTaskIs
<1>8. CASE t.op \in {"sent", "aborted"}
  <2>1. t.seq \in Seqs
    BY <1>2, <1>8, HistoryTaskIs
  <2>2. g = MarkPacketAsSent(h, t.seq) \/ g = MarkPacketAsAborted(h, t.seq)
    BY <1>8
  <2>3. Deque(g) /\ Len(g) = Len(h) /\ Remarked(h, g)
    BY <1>1, <2>1, <2>2, MarkDeque
  <2>4. g \in Seq(Slots)
    BY <2>3 DEF Deque
  <2>5. on => Holds(g, o, M - c)
    BY <1>1, <1>7, <1>8, <2>3, <2>4, HoldsRemarked
  <2> QED BY <1>1, <2>3, <2>5
<1>9. CASE t.op \in {"rtt", "nacks"}
  <2>1. CASE g = h
    BY <1>1, <1>7, <1>9, <2>1
  <2>2. CASE g \in RemoveDeadPackets(h)
    <3>1. PICK k \in 0 .. Len(h) : g \in Seq(Slots) /\ Cut(h, g, k)
      BY <1>1, <2>2, CullIs
    <3>2. on => Holds(g, o, M - c)
      BY <1>1, <1>7, <1>9, <3>1, HoldsCut
    <3> QED BY <1>1, <2>2, <3>2, CullDeque
  <2> QED BY <1>9, <2>1, <2>2
<1> QED BY <1>2, <1>6, <1>8, <1>9, HistoryTaskIs

LEMMA HistoryPosts ==
    ASSUME NEW h, NEW q, NEW o \in Seq(SentPackets), NEW s, NEW on \in BOOLEAN,
           HistoryOK(h, q, o, s, on), NEW t \in HistoryTasks, t \notin Puts
    PROVE  HistoryOK(h, Append(q, t), o, s, on)
<1>1. q \in Seq(HistoryTasks)
    BY DEF HistoryOK
<1>2. Append(q, t) \in Seq(HistoryTasks) /\ Count(Append(q, t), 1, Puts) = Count(q, 1, Puts)
    BY <1>1, CountPosted, Zenon
<1>3. on => Queued(Append(q, t), o)
    BY <1>1, QueuedPost DEF HistoryOK, TailOf
<1> QED BY <1>2, <1>3 DEF HistoryOK, TailOf

LEMMA HistorySends ==
    ASSUME NEW h, NEW q, NEW o \in Seq(SentPackets), NEW s \in Seqs, NEW on \in BOOLEAN,
           HistoryOK(h, q, o, s, on), NEW p \in VideoPackets, NEW x, x = [seq |-> s, pkt |-> p],
           NEW t, t = [op |-> "put", seq |-> s, pkt |-> p],
           NEW r, r = Append(q, t) \/ (r = q /\ ~on)
    PROVE  HistoryOK(h, r, Append(o, x), (s + 1) % SeqSpan, on)
<1>1. q \in Seq(HistoryTasks) /\ Numbered(o, s)
    BY DEF HistoryOK
<1>2. x \in SentPackets /\ x.seq = s /\ t \in Puts /\ t \in HistoryTasks /\ Same(t, x)
    BY IsHistoryTask DEF SentPackets, Same
<1>3. Numbered(Append(o, x), (s + 1) % SeqSpan)
    BY <1>1, <1>2, NumberedNext
<1>4. /\ Append(q, t) \in Seq(HistoryTasks) /\ Count(q, 1, Puts) \in Nat
      /\ Count(Append(q, t), 1, Puts) = Count(q, 1, Puts) + 1
    BY <1>1, <1>2, CountPosted, Zenon
<1>5. ASSUME on PROVE TailOf(h, Append(q, t), Append(o, x))
  <2>0. Len(o) \in Nat
    OBVIOUS
  <2>1. PICK M \in Nat, c \in Nat : M = Len(o) /\ c = Count(q, 1, Puts)
    BY <1>4, <2>0, Zenon
  <2>9. PICK y : y = Append(o, x)
    OBVIOUS
  <2>2. Holds(h, o, M - c) /\ Queued(q, o)
    BY <1>5, <2>1 DEF HistoryOK, TailOf
  <2>3. PICK L \in Nat : L = Len(h) /\ L <= M - c
    BY <2>2 DEF Holds, HistoryOK, Deque
  <2>4. Queued(Append(q, t), Append(o, x))
    BY <1>1, <1>2, <2>1, <2>2, <2>3, QueuedSend
  <2>5. Len(y) = M + 1 /\ \A i \in 1 .. M : y[i] = o[i]
    BY <1>2, <2>1, <2>9
  <2>6. (M + 1) - (c + 1) = M - c
    BY <2>1
  <2>7. ASSUME NEW i \in 1 .. L PROVE h[i] # Hole /\ Same(h[i], y[((M - c) - L) + i])
    <3>1. ((M - c) - L) + i \in 1 .. M
      BY <2>3
    <3>2. h[i] # Hole /\ Same(h[i], o[((M - c) - L) + i])
      BY <2>2, <2>3 DEF Holds
    <3> QED BY <2>5, <3>1, <3>2
  <2>8. Holds(h, y, M - c)
    BY <2>3, <2>7 DEF Holds
  <2> QED BY <1>4, <2>1, <2>4, <2>5, <2>6, <2>8, <2>9 DEF TailOf
<1> QED BY <1>3, <1>4, <1>5 DEF HistoryOK
-----------------------------------------------------------------------------
(* One step                                                                  *)

LEMMA CaptureSame ==
    ASSUME CaptureInv, UNCHANGED capture_vars
    PROVE  CaptureInv'
BY DEF CaptureInv, capture_vars, KeyRequestIsHeld

LEMMA HistorySame ==
    ASSUME HistoryInv, out \in Seq(SentPackets),
           UNCHANGED <<packet_history, history_tasks, out, ssrc_seq, rtx_enabled, history_shutdown>>
    PROVE  HistoryInv'
<1>1. HistoryOK(packet_history, history_tasks, out, ssrc_seq, rtx_enabled /\ ~history_shutdown)
    BY HistoryFacts
<1> QED BY <1>1, HistoryStep

LEMMA Pieces ==
    ASSUME IInv
    PROVE  /\ faults \in 0 .. MaxFaults /\ CaptureInv /\ ShutdownInv /\ PacerTypes /\ StreamInv
           /\ NackInv /\ HistoryInv /\ frame \in Nat /\ out \in Seq(SentPackets)
           /\ history_tasks \in Seq(HistoryTasks) /\ ssrc_seq \in Seqs
           /\ video_queue \in Seq(VideoPackets) /\ rtx_queue \in Seq(RtxPackets(Seqs))
BY DEF IInv, CaptureInv, PacerTypes, HistoryInv

LEMMA CaptureSteps ==
    ASSUME IInv, CaptureStep
    PROVE  /\ CaptureInv' /\ PacerTypes' /\ StreamInv' /\ NackInv' /\ HistoryInv'
           /\ (faults \in 0 .. MaxFaults)'
<1>1. CaptureInv' /\ (faults \in 0 .. MaxFaults)'
    BY CaptureKeeps
<1>2. /\ UNCHANGED <<rtx_enabled, in_nack_task, batch, nack_vars, history_shutdown>>
      /\ UNCHANGED <<packet_history, history_tasks, out, ssrc_seq>>
    BY DEF CaptureStep, SendVideo, FullIntraRequest, EncodeTaskStarts, EncodeTaskGivesUp,
        EncodeTask, history_vars, destroy_vars, pacer_vars
<1>3. NackInv' /\ HistoryInv'
    BY <1>2, Pieces, NackSame, HistorySame
<1>4. PacerTypes' /\ StreamInv'
  <2>1. CASE EncodeTask
    BY <2>1, Pieces, EncodePaces
  <2>2. CASE SendVideo \/ FullIntraRequest \/ EncodeTaskStarts \/ EncodeTaskGivesUp
    BY <2>2, Pieces, PacerSame DEF SendVideo, FullIntraRequest, EncodeTaskStarts, EncodeTaskGivesUp
  <2> QED BY <2>1, <2>2 DEF CaptureStep
<1> QED BY <1>1, <1>3, <1>4

LEMMA EnqueueSteps ==
    ASSUME IInv, EnqueuePacketsOnQueue
    PROVE  /\ CaptureInv' /\ PacerTypes' /\ StreamInv' /\ NackInv' /\ HistoryInv'
           /\ (faults \in 0 .. MaxFaults)'
<1>1. /\ UNCHANGED <<rtx_enabled, in_nack_task, batch, nack_vars, history_shutdown>>
      /\ UNCHANGED <<packet_history, history_tasks, out, ssrc_seq, faults>>
      /\ UNCHANGED capture_vars
    BY DEF EnqueuePacketsOnQueue, history_vars, destroy_vars
<1>2. NackInv' /\ HistoryInv'
    BY <1>1, Pieces, NackSame, HistorySame
<1>3. PacerTypes' /\ StreamInv'
    BY Pieces, EnqueuePaces
<1> QED BY <1>1, <1>2, <1>3, Pieces, CaptureSame

\* A task is posted that does not answer NACKs.
LEMMA PostSame ==
    ASSUME NackInv, ShutdownInv, history_tasks \in Seq(HistoryTasks), NEW t \in HistoryTasks,
           t.op # "nacks", PostHistory(t),
           UNCHANGED <<rtx_enabled, in_nack_task, batch, nack_vars, history_shutdown>>
    PROVE  /\ NackInv'
           /\ history_tasks' = Append(history_tasks, t)
              \/ (history_tasks' = history_tasks /\ history_shutdown)
<1>1. history_tasks' = Append(history_tasks, t)
      \/ (history_tasks' = history_tasks /\ history_shutdown)
    BY DEF PostHistory, ShutdownInv
<1>2. t \notin NackTasks
    BY HistoryTaskIs
<1>3. Count(Append(history_tasks, t), 1, NackTasks) = Count(history_tasks, 1, NackTasks)
    BY <1>2, CountPosted, Zenon
<1>4. NackInv'
    BY <1>1, <1>3, NackSame
<1> QED BY <1>1, <1>4

LEMMA SendSteps ==
    ASSUME IInv, SendPacket
    PROVE  /\ CaptureInv' /\ PacerTypes' /\ StreamInv' /\ NackInv' /\ HistoryInv'
           /\ (faults \in 0 .. MaxFaults)'
<1>1. /\ UNCHANGED <<rtx_enabled, in_nack_task, batch, nack_vars, history_shutdown>>
      /\ UNCHANGED capture_vars /\ UNCHANGED packet_history
    BY DEF SendPacket, history_vars, destroy_vars
<1>2. PacerTypes' /\ StreamInv'
    BY Pieces, SendPaces
<1>3. (faults \in 0 .. MaxFaults)'
    BY Pieces, Span DEF SendPacket
<1>4. PICK on \in BOOLEAN : on = (rtx_enabled /\ ~history_shutdown)
    OBVIOUS
<1>5. HistoryOK(packet_history, history_tasks, out, ssrc_seq, on)
    BY <1>4, Pieces, HistoryFacts
<1>6. out' \in Seq(SentPackets) /\ on = (rtx_enabled' /\ ~history_shutdown')
    BY <1>1, <1>2, <1>4 DEF PacerTypes
<1>7. CASE /\ video_queue # <<>> /\ ssrc_seq' = (ssrc_seq + 1) % SeqSpan
           /\ out' = Append(out, [seq |-> ssrc_seq, pkt |-> Head(video_queue)])
           /\ PostHistory([op |-> "put", seq |-> ssrc_seq, pkt |-> Head(video_queue)])
  <2>1. PICK p, x, t : /\ p = Head(video_queue) /\ x = [seq |-> ssrc_seq, pkt |-> p]
                       /\ t = [op |-> "put", seq |-> ssrc_seq, pkt |-> p]
    OBVIOUS
  <2>2. p \in VideoPackets
    BY <1>7, <2>1, Pieces
  <2>3. t \in Puts /\ t \in HistoryTasks /\ t.op # "nacks"
    BY <2>1, <2>2, Pieces, IsHistoryTask
  <2>4. /\ NackInv'
        /\ history_tasks' = Append(history_tasks, t)
           \/ (history_tasks' = history_tasks /\ history_shutdown)
    BY <1>1, <1>7, <2>1, <2>3, Pieces, PostSame
  <2>5. HistoryOK(packet_history, history_tasks', Append(out, x), (ssrc_seq + 1) % SeqSpan, on)
    <3>1. history_tasks' = Append(history_tasks, t) \/ (history_tasks' = history_tasks /\ ~on)
      BY <1>4, <2>4
    <3>2. out \in Seq(SentPackets) /\ ssrc_seq \in Seqs
      BY Pieces
    <3> QED BY <1>5, <2>1, <2>2, <3>1, <3>2, HistorySends
  <2>6. HistoryOK(packet_history', history_tasks', out', ssrc_seq', on)
    BY <1>1, <1>7, <2>1, <2>5
  <2>7. HistoryInv'
    BY <1>6, <2>6, HistoryStep
  <2> QED BY <1>1, <1>2, <1>3, <2>4, <2>7, Pieces, CaptureSame
<1>8. CASE \E sent \in BOOLEAN : /\ rtx_queue # <<>> /\ UNCHANGED <<ssrc_seq, out>>
                                 /\ SentRtx(Head(rtx_queue), sent)
  <2>1. PICK o, t : /\ o \in {"sent", "aborted"} /\ t = [op |-> o, seq |-> Head(rtx_queue).osn]
                    /\ PostHistory(t)
    BY <1>8 DEF SentRtx
  <2>2. Head(rtx_queue).osn \in Seqs
    <3>1. Head(rtx_queue) \in RtxPackets(Seqs)
      BY <1>8, Pieces
    <3> QED BY <3>1 DEF RtxPackets
  <2>3. t \in HistoryTasks /\ t.op # "nacks" /\ t.op # "put"
    BY <2>1, <2>2, IsHistoryTask
  <2>4. /\ NackInv'
        /\ history_tasks' = Append(history_tasks, t) \/ history_tasks' = history_tasks
    BY <1>1, <2>1, <2>3, Pieces, PostSame
  <2>5. t \notin Puts
    BY <2>3, HistoryTaskIs
  <2>6. HistoryOK(packet_history, history_tasks', out, ssrc_seq, on)
    BY <1>5, <2>3, <2>4, <2>5, Pieces, HistoryPosts
  <2>7. HistoryInv'
    BY <1>1, <1>6, <1>8, <2>6, HistoryStep
  <2> QED BY <1>1, <1>2, <1>3, <2>4, <2>7, Pieces, CaptureSame
<1> QED BY <1>7, <1>8 DEF SendPacket, PopIsMedia, SentMedia

LEMMA PaddingSteps ==
    ASSUME IInv, SendPadding
    PROVE  /\ CaptureInv' /\ PacerTypes' /\ StreamInv' /\ NackInv' /\ HistoryInv'
           /\ (faults \in 0 .. MaxFaults)'
<1>1. /\ UNCHANGED <<rtx_enabled, in_nack_task, batch, nack_vars, history_shutdown>>
      /\ UNCHANGED <<packet_history, history_tasks, faults>> /\ UNCHANGED capture_vars
      /\ ~rtx_enabled
    BY DEF SendPadding, history_vars, destroy_vars
<1>2. PacerTypes' /\ StreamInv'
    BY Pieces, PaddingPaces
<1>3. NackInv'
    BY <1>1, Pieces, NackSame
<1>4. PICK x : /\ x = [seq |-> ssrc_seq, pkt |-> [f |-> 0, i |-> 0, key |-> FALSE]]
               /\ out' = Append(out, x) /\ ssrc_seq' = (ssrc_seq + 1) % SeqSpan
    BY DEF SendPadding
<1>5. x \in SentPackets /\ x.seq = ssrc_seq
  <2>1. [f |-> 0, i |-> 0, key |-> FALSE] \in VideoPackets
    BY Span DEF VideoPackets
  <2> QED BY <1>4, <2>1, Pieces DEF SentPackets
<1>6. HistoryOK(packet_history, history_tasks, out, ssrc_seq, rtx_enabled /\ ~history_shutdown)
    BY Pieces, HistoryFacts
<1>7. Numbered(Append(out, x), (ssrc_seq + 1) % SeqSpan)
    BY <1>5, <1>6, Pieces, NumberedNext DEF HistoryOK
<1>8. HistoryOK(packet_history', history_tasks', out', ssrc_seq', rtx_enabled' /\ ~history_shutdown')
    BY <1>1, <1>4, <1>6, <1>7 DEF HistoryOK
<1>9. HistoryInv'
    BY <1>2, <1>8, HistoryStep DEF PacerTypes
<1> QED BY <1>1, <1>2, <1>3, <1>9, Pieces, CaptureSame

LEMMA TaskSteps ==
    ASSUME IInv, HistoryTask \/ ProcessPendingNacks
    PROVE  /\ CaptureInv' /\ PacerTypes' /\ StreamInv' /\ NackInv' /\ HistoryInv'
           /\ (faults \in 0 .. MaxFaults)'
<1>1. /\ UNCHANGED <<rtx_enabled, pacer_vars, faults, history_shutdown>> /\ UNCHANGED capture_vars
      /\ UNCHANGED <<out, ssrc_seq, frame>>
      /\ history_tasks # <<>> /\ history_tasks' = Tail(history_tasks)
    BY DEF HistoryTask, ProcessPendingNacks, destroy_vars, capture_vars, pacer_vars
<1>2. PacerTypes' /\ StreamInv' /\ CaptureInv'
    BY <1>1, Pieces, PacerSame, CaptureSame
<1>3. PICK on \in BOOLEAN : on = (rtx_enabled /\ ~history_shutdown)
    OBVIOUS
<1>0. PICK t : t = Head(history_tasks)
    OBVIOUS
<1>4. HistoryOK(packet_history, history_tasks, out, ssrc_seq, on)
    BY <1>0, <1>3, Pieces, HistoryFacts
<1>5. \/ t.op = "put" /\ packet_history' \in PutRtpPacket(packet_history, t.seq, t.pkt)
      \/ t.op = "sent" /\ packet_history' = MarkPacketAsSent(packet_history, t.seq)
      \/ t.op = "aborted" /\ packet_history' = MarkPacketAsAborted(packet_history, t.seq)
      \/ t.op = "rtt" /\ (packet_history' = packet_history
                          \/ packet_history' \in RemoveDeadPackets(packet_history))
      \/ t.op = "nacks" /\ packet_history' = packet_history
    BY <1>0, <1>3 DEF HistoryTask, ProcessPendingNacks
<1>6. HistoryOK(packet_history', Tail(history_tasks), out, ssrc_seq, on)
    BY <1>1, <1>0, <1>3, <1>4, <1>5, Pieces, HistoryTakes
<1>7. HistoryInv'
    BY <1>1, <1>0, <1>3, <1>6, Pieces, HistoryStep
<1>8. NackInv'
  <2>1. CASE ProcessPendingNacks
    BY <2>1, Pieces, TakeNacks
  <2>2. CASE HistoryTask
    <3>1. UNCHANGED <<in_nack_task, batch, nack_vars>> /\ t.op # "nacks"
      BY <1>0, <1>3, <2>2 DEF HistoryTask
    <3>2. /\ t \in HistoryTasks /\ Count(Tail(history_tasks), 1, NackTasks) \in Nat
          /\ Count(history_tasks, 1, NackTasks) = Count(Tail(history_tasks), 1, NackTasks)
                                                  + IF t \in NackTasks THEN 1 ELSE 0
      BY <1>1, <1>0, <1>3, Pieces, CountTaken
    <3>3. t \notin NackTasks
      BY <3>1, <3>2, HistoryTaskIs
    <3>4. Count(history_tasks', 1, NackTasks) = Count(history_tasks, 1, NackTasks)
      BY <1>1, <3>2, <3>3
    <3> QED BY <1>1, <3>1, <3>4, Pieces, NackSame
  <2> QED BY <2>1, <2>2
<1> QED BY <1>1, <1>2, <1>7, <1>8, Pieces

\* ReSendPacket of number s, if any packet: x is the stored packet marked.
Resends(i, x, t) ==
    /\ Changed(packet_history, packet_history', i, x)
    /\ ~packet_history[i].pending
    /\ t = [op |-> "rtx", osn |-> packet_history[i].seq, pkt |-> packet_history[i].pkt]
    /\ \/ pacer_shutdown /\ UNCHANGED pacer_tasks
       \/ ~pacer_shutdown /\ x.pending = TRUE /\ pacer_tasks' = Append(pacer_tasks, t)

LEMMA ReSendIs ==
    ASSUME IInv, ReSendPacket
    PROVE  UNCHANGED <<packet_history, pacer_tasks>> \/ \E i, x, t : Resends(i, x, t)
<1>1. PICK s, i : /\ s = (CHOOSE x \in batch : \A y \in batch : x <= y)
                  /\ i = GetStoredPacket(packet_history, s)
    OBVIOUS
<1>2. batch # {} /\ batch \subseteq Seqs
    BY Pieces DEF NackInv, ReSendPacket
<1>3. s \in batch
  <2>1. batch \subseteq Nat
    BY <1>2, Span DEF Seqs
  <2>2. \E x \in batch : \A y \in batch : x <= y
    BY <1>2, <2>1, Least
  <2> QED BY <1>1, <2>2, Zenon
<1>4. \/ UNCHANGED <<packet_history, pacer_tasks>>
      \/ /\ i > 0 /\ ~packet_history[i].pending
         /\ \/ /\ pacer_shutdown /\ UNCHANGED pacer_tasks
               /\ \E b \in BOOLEAN : packet_history' = [packet_history EXCEPT ![i].pending = b]
            \/ /\ ~pacer_shutdown
               /\ packet_history' = [packet_history EXCEPT ![i].pending = TRUE]
               /\ pacer_tasks' = Append(pacer_tasks, [op |-> "rtx", osn |-> packet_history[i].seq,
                                                      pkt |-> packet_history[i].pkt])
    BY <1>1, Zenon DEF ReSendPacket, Resendable
<1>5. Deque(packet_history) /\ s \in Seqs
    BY <1>2, <1>3, Pieces DEF HistoryInv
<1>6. i = 0 \/ (i \in 1 .. Len(packet_history) /\ packet_history[i] # Hole)
    BY <1>1, <1>5, StoredPacketIs
<1>7. ASSUME NEW b \in BOOLEAN, i > 0, packet_history' = [packet_history EXCEPT ![i].pending = b]
      PROVE  \E x : Changed(packet_history, packet_history', i, x) /\ x.pending = b
  <2>1. PICK h : h = packet_history
    OBVIOUS
  <2>2. Deque(h) /\ h \in Seq(Slots) /\ i \in 1 .. Len(h) /\ h[i] # Hole
    BY <1>5, <1>6, <1>7, <2>1 DEF Deque
  <2>3. h[i] \in Packet
    BY <2>2, SlotIs
  <2> DEFINE x == [h[i] EXCEPT !.pending = b]
  <2>4. x \in Packet /\ x.seq = h[i].seq /\ x.pkt = h[i].pkt /\ x.pending = b
    <3>1. PICK y \in Packet : y = h[i]
      BY <2>3
    <3>2. LET z == [y EXCEPT !.pending = b]
          IN  z \in Packet /\ z.seq = y.seq /\ z.pkt = y.pkt /\ z.pending = b
      BY DEF Packet
    <3> QED BY <3>1, <3>2
  <2>5. packet_history' = [h EXCEPT ![i] = x]
    BY <1>7, <2>1, <2>2, <2>3
  <2> HIDE DEF x
  <2>6. Changed(h, [h EXCEPT ![i] = x], i, x)
    BY <2>2, <2>4, ChangedIs
  <2> QED BY <2>1, <2>4, <2>5, <2>6
<1>8. ASSUME i > 0, ~packet_history[i].pending, pacer_shutdown, UNCHANGED pacer_tasks,
             \E b \in BOOLEAN : packet_history' = [packet_history EXCEPT ![i].pending = b]
      PROVE  \E j, x, t : Resends(j, x, t)
  <2>1. PICK x : Changed(packet_history, packet_history', i, x)
    BY <1>7, <1>8
  <2>2. PICK t : t = [op |-> "rtx", osn |-> packet_history[i].seq, pkt |-> packet_history[i].pkt]
    OBVIOUS
  <2>3. Resends(i, x, t)
    BY <1>8, <2>1, <2>2 DEF Resends
  <2> QED BY <2>3
<1>9. ASSUME i > 0, ~packet_history[i].pending, ~pacer_shutdown,
             packet_history' = [packet_history EXCEPT ![i].pending = TRUE],
             pacer_tasks' = Append(pacer_tasks, [op |-> "rtx", osn |-> packet_history[i].seq,
                                                 pkt |-> packet_history[i].pkt])
      PROVE  \E j, x, t : Resends(j, x, t)
  <2>0. TRUE \in BOOLEAN
    OBVIOUS
  <2>1. PICK x : Changed(packet_history, packet_history', i, x) /\ x.pending = TRUE
    BY <1>7, <1>9, <2>0
  <2>2. PICK t : t = [op |-> "rtx", osn |-> packet_history[i].seq, pkt |-> packet_history[i].pkt]
    OBVIOUS
  <2>3. Resends(i, x, t)
    BY <1>9, <2>1, <2>2 DEF Resends
  <2> QED BY <2>3
<1> QED BY <1>4, <1>8, <1>9, Zenon

LEMMA ReSendSteps ==
    ASSUME IInv, ReSendPacket
    PROVE  /\ CaptureInv' /\ PacerTypes' /\ StreamInv' /\ NackInv' /\ HistoryInv'
           /\ (faults \in 0 .. MaxFaults)'
<1>1. /\ UNCHANGED <<rtx_enabled, faults, history_shutdown, history_tasks>>
      /\ UNCHANGED capture_vars
      /\ UNCHANGED <<video_queue, rtx_queue, out, ssrc_seq, frame>>
    BY DEF ReSendPacket, destroy_vars, capture_vars
<1>2. NackInv' /\ CaptureInv'
    BY <1>1, Pieces, DropNacks, CaptureSame
<1>3. PICK on \in BOOLEAN : on = (rtx_enabled /\ ~history_shutdown)
    OBVIOUS
<1>4. HistoryOK(packet_history, history_tasks, out, ssrc_seq, on)
    BY <1>3, Pieces, HistoryFacts
<1>5. CASE UNCHANGED <<packet_history, pacer_tasks>>
    BY <1>1, <1>2, <1>5, Pieces, HistorySame, PacerSame DEF pacer_vars
<1>6. CASE \E i, x, t : Resends(i, x, t)
  <2>1. PICK i, x, t : Resends(i, x, t)
    BY <1>6
  <2>2. PICK h, g : h = packet_history /\ g = packet_history'
    OBVIOUS
  <2>3. Changed(h, g, i, x) /\ Deque(h) /\ h \in Seq(Slots)
    BY <2>1, <2>2, Pieces DEF Resends, HistoryInv, Deque
  <2>4. Deque(g) /\ Len(g) = Len(h) /\ Remarked(h, g)
    BY <2>3, RemarkDeque
  <2>5. g \in Seq(Slots)
    BY <2>4 DEF Deque
  <2>6. HistoryOK(g, history_tasks, out, ssrc_seq, on)
    <3>1. PICK n \in Int : n = Len(out) - Count(history_tasks, 1, Puts)
      <4>1. Count(history_tasks, 1, Puts) \in Nat /\ Len(out) \in Nat
        BY Pieces, CountType
      <4> QED BY <4>1
    <3>2. on => Holds(h, out, n) /\ Queued(history_tasks, out)
      BY <1>4, <2>2, <3>1 DEF HistoryOK, TailOf
    <3>3. on => Holds(g, out, n)
      BY <2>3, <2>4, <2>5, <3>2, HoldsRemarked
    <3> QED BY <1>4, <2>2, <2>4, <3>1, <3>2, <3>3 DEF HistoryOK, TailOf
  <2>7. HistoryInv'
    BY <1>1, <1>3, <2>2, <2>6, Pieces, HistoryStep
  <2>8. PacerTypes' /\ StreamInv'
    <3>1. CASE UNCHANGED pacer_tasks
      BY <1>1, <3>1, Pieces, PacerSame DEF pacer_vars
    <3>2. CASE pacer_tasks' = Append(pacer_tasks, t)
      <4>1. h[i] \in Slots /\ h[i] # Hole
        BY <2>3 DEF Changed
      <4>2. h[i].seq \in Seqs /\ h[i].pkt \in VideoPackets
        BY <4>1, SlotIs
      <4>3. t = [op |-> "rtx", osn |-> h[i].seq, pkt |-> h[i].pkt]
        BY <2>1, <2>2 DEF Resends
      <4>4. t \in RtxTasks(Seqs) /\ t.op = "rtx"
        BY <4>2, <4>3 DEF RtxTasks
      <4>5. t \in PacerTask /\ t \notin FrameTasks
        BY <4>4 DEF PacerTask, FrameTasks
      <4>6. frame' \in Nat /\ frame' = frame + (IF t \in FrameTasks THEN 1 ELSE 0)
        BY <1>1, <4>5, Pieces
      <4> QED BY <1>1, <3>2, <4>5, <4>6, Pieces, AppendTask
    <3> QED BY <2>1, <3>1, <3>2 DEF Resends
  <2> QED BY <1>1, <1>2, <2>7, <2>8, Pieces
<1> QED BY <1>5, <1>6, ReSendIs

LEMMA FinishSteps ==
    ASSUME IInv, FinishPendingNacks
    PROVE  /\ CaptureInv' /\ PacerTypes' /\ StreamInv' /\ NackInv' /\ HistoryInv'
           /\ (faults \in 0 .. MaxFaults)'
<1>1. /\ UNCHANGED <<rtx_enabled, faults, history_shutdown, packet_history>>
      /\ UNCHANGED capture_vars /\ UNCHANGED pacer_vars /\ UNCHANGED <<out, ssrc_seq, frame>>
    BY DEF FinishPendingNacks, destroy_vars, capture_vars, pacer_vars
<1>2. NackInv' /\ CaptureInv' /\ PacerTypes' /\ StreamInv'
    BY <1>1, Pieces, FinishNacks, CaptureSame, PacerSame
<1>3. PICK on \in BOOLEAN : on = (rtx_enabled /\ ~history_shutdown)
    OBVIOUS
<1>0. PICK t : t = [op |-> "nacks"]
    OBVIOUS
<1>4. HistoryOK(packet_history, history_tasks, out, ssrc_seq, on)
    BY <1>0, <1>3, Pieces, HistoryFacts
<1>5. t \in HistoryTasks /\ t \notin Puts
    BY <1>0, <1>3, IsHistoryTask DEF Puts
<1>6. HistoryOK(packet_history, Append(history_tasks, t), out, ssrc_seq, on)
    BY <1>4, <1>5, Pieces, HistoryPosts
<1>7. history_tasks' = history_tasks \/ history_tasks' = Append(history_tasks, t)
    BY <1>0, <1>3 DEF FinishPendingNacks, NacksDone
<1>8. HistoryOK(packet_history', history_tasks', out', ssrc_seq', rtx_enabled' /\ ~history_shutdown')
    BY <1>1, <1>0, <1>3, <1>4, <1>6, <1>7
<1>9. HistoryInv'
    BY <1>1, <1>8, Pieces, HistoryStep
<1> QED BY <1>1, <1>2, <1>9, Pieces

LEMMA NetworkSteps ==
    ASSUME IInv, OnReceiveNack \/ OnReceiveNackPosts \/ OnRttUpdate
    PROVE  /\ CaptureInv' /\ PacerTypes' /\ StreamInv' /\ NackInv' /\ HistoryInv'
           /\ (faults \in 0 .. MaxFaults)'
<1>1. /\ UNCHANGED <<rtx_enabled, history_shutdown, packet_history, in_nack_task, batch>>
      /\ UNCHANGED capture_vars /\ UNCHANGED pacer_vars /\ UNCHANGED <<out, ssrc_seq, frame>>
    BY DEF OnReceiveNack, OnReceiveNackPosts, OnRttUpdate, destroy_vars, capture_vars, pacer_vars,
        history_vars
<1>2. CaptureInv' /\ PacerTypes' /\ StreamInv'
    BY <1>1, Pieces, CaptureSame, PacerSame
<1>3. PICK on \in BOOLEAN : on = (rtx_enabled /\ ~history_shutdown)
    OBVIOUS
<1>4. HistoryOK(packet_history, history_tasks, out, ssrc_seq, on)
    BY <1>3, Pieces, HistoryFacts
<1>5. ASSUME NEW t \in HistoryTasks, t.op # "put", PostHistory(t)
      PROVE  HistoryInv'
  <2>1. t \notin Puts
    BY <1>5, HistoryTaskIs
  <2>2. HistoryOK(packet_history, Append(history_tasks, t), out, ssrc_seq, on)
    BY <1>4, <1>5, <2>1, Pieces, HistoryPosts
  <2>3. history_tasks' = history_tasks \/ history_tasks' = Append(history_tasks, t)
    BY <1>5 DEF PostHistory
  <2>4. HistoryOK(packet_history', history_tasks', out', ssrc_seq', rtx_enabled' /\ ~history_shutdown')
    BY <1>1, <1>3, <1>4, <2>2, <2>3
  <2> QED BY <1>1, <2>4, Pieces, HistoryStep
<1>6. CASE OnReceiveNack
  <2>1. UNCHANGED <<history_tasks, faults>>
    BY <1>6 DEF OnReceiveNack
  <2>2. NackInv'
    BY <1>6, Pieces, ReceiveNacks
  <2>3. HistoryInv'
    BY <1>1, <2>1, Pieces, HistorySame
  <2> QED BY <1>2, <2>1, <2>2, <2>3, Pieces
<1>7. CASE OnReceiveNackPosts
  <2>1. PICK t : t = [op |-> "nacks"] /\ PostHistory(t) /\ UNCHANGED faults
    BY <1>7 DEF OnReceiveNackPosts
  <2>2. t \in HistoryTasks /\ t.op # "put"
    BY <2>1, IsHistoryTask
  <2>3. NackInv'
    BY <1>7, Pieces, PostNacks
  <2> QED BY <1>2, <1>5, <2>1, <2>2, <2>3, Pieces
<1>8. CASE OnRttUpdate
  <2>1. PICK t : t = [op |-> "rtt"] /\ PostHistory(t) /\ UNCHANGED nack_vars
    BY <1>8 DEF OnRttUpdate
  <2>2. t \in HistoryTasks /\ t.op # "put" /\ t.op # "nacks"
    BY <2>1, IsHistoryTask
  <2>3. NackInv'
    BY <1>1, <2>1, <2>2, Pieces, PostSame
  <2>4. (faults \in 0 .. MaxFaults)'
    BY <1>8, Pieces, Span DEF OnRttUpdate
  <2> QED BY <1>2, <1>5, <2>1, <2>2, <2>3, <2>4
<1> QED BY <1>6, <1>7, <1>8

LEMMA DestroySteps ==
    ASSUME IInv, DestroyBegins \/ DestroyThread
    PROVE  /\ CaptureInv' /\ PacerTypes' /\ StreamInv' /\ NackInv' /\ HistoryInv'
           /\ (faults \in 0 .. MaxFaults)'
<1>1. /\ UNCHANGED <<rtx_enabled, faults, packet_history, in_nack_task, batch>>
      /\ UNCHANGED capture_vars /\ UNCHANGED pacer_vars /\ UNCHANGED <<out, ssrc_seq, frame>>
    BY DEF DestroyBegins, DestroyThread, DestroyDetaches, ChannelShutsDown, ChannelStops,
        ChannelJoined, capture_vars, pacer_vars, history_vars
<1>2. CaptureInv' /\ PacerTypes' /\ StreamInv'
    BY <1>1, Pieces, CaptureSame, PacerSame
<1>3. HistoryOK(packet_history, history_tasks, out, ssrc_seq, rtx_enabled /\ ~history_shutdown)
    BY Pieces, HistoryFacts
<1>4. CASE DestroyBegins \/ DestroyDetaches \/ ChannelJoined
  <2>1. UNCHANGED <<history_tasks, history_shutdown, nack_vars>>
    BY <1>4 DEF DestroyBegins, DestroyDetaches, ChannelJoined
  <2> QED BY <1>1, <1>2, <2>1, Pieces, NackSame, HistorySame
<1>5. CASE ChannelShutsDown
  <2>1. history_shutdown' = TRUE /\ UNCHANGED history_tasks
    BY <1>5 DEF ChannelShutsDown
  <2>2. HistoryOK(packet_history', history_tasks', out', ssrc_seq', rtx_enabled' /\ ~history_shutdown')
    BY <1>1, <1>3, <2>1 DEF HistoryOK
  <2>3. HistoryInv'
    BY <1>1, <2>2, Pieces, HistoryStep
  <2>4. NackInv'
    BY <1>5, Pieces, DropNacks
  <2> QED BY <1>1, <1>2, <2>3, <2>4, Pieces
<1>6. CASE ChannelStops
  <2>1. history_shutdown /\ UNCHANGED history_shutdown /\ history_tasks' = <<>>
    BY <1>6 DEF ChannelStops
  <2>2. HistoryOK(packet_history', history_tasks', out', ssrc_seq', rtx_enabled' /\ ~history_shutdown')
    BY <1>1, <1>3, <2>1 DEF HistoryOK
  <2>3. HistoryInv'
    BY <1>1, <2>2, Pieces, HistoryStep
  <2>4. NackInv'
    BY <1>6, Pieces, DropNacks
  <2> QED BY <1>1, <1>2, <2>3, <2>4, Pieces
<1> QED BY <1>4, <1>5, <1>6 DEF DestroyThread

LEMMA Starts == Init => IInv
<1> SUFFICES ASSUME Init PROVE IInv
    OBVIOUS
<1> USE DEF Init
<1>1. \A T : <<>> \in Seq(T) /\ Len(<<>>) = 0
    OBVIOUS
<1>2. faults \in 0 .. MaxFaults /\ CaptureInv
  <2>1. KeyRequestIsHeld
    BY DEF KeyRequestIsHeld
  <2>2. /\ b_force_i_frame \in BOOLEAN /\ force_i_frame \in BOOLEAN
        /\ idr \in BOOLEAN /\ owed \in Places
    BY DEF Places
  <2>3. /\ encode_queue \in Seq(BOOLEAN) /\ Len(encode_queue) = 0
        /\ encoding \in Seq(BOOLEAN) /\ Len(encoding) = 0
    BY <1>1
  <2>4. /\ captured \in 0 .. MaxFrames /\ frame \in Nat /\ firs \in 0 .. MaxFirs
        /\ faults \in 0 .. MaxFaults /\ captured = 0 /\ frame = 0
    BY Span
  <2>5. frame + Len(encode_queue) + Len(encoding) <= captured
    BY <2>3, <2>4
  <2> QED BY <2>1, <2>2, <2>3, <2>4, <2>5 DEF CaptureInv
<1>3. ShutdownInv
    BY DEF ShutdownInv
<1>4. PacerTypes
    BY Span DEF PacerTypes
<1>5. Len(<<>>) \in Nat /\ 1 \in Nat /\ 1 > Len(<<>>)
    OBVIOUS
<1>6. \A S : Count(<<>>, 1, S) = 0
    BY <1>5, CountEnd
<1>7. Stream = <<>>
    BY DEF Stream
<1>8. StreamInv
    BY <1>7 DEF StreamInv, FramesInOrder, StreamOK
<1>9. NackInv
  <2>1. NacksHaveTask
    BY <1>6 DEF NacksHaveTask
  <2>2. Cardinality({}) <= kMaxCapacity /\ Cardinality({}) <= kMaxNacksPerTask
    BY FS_EmptySet, Span
  <2>3. in_nack_task \in BOOLEAN /\ nack_task_scheduled \in BOOLEAN /\ nack_post \in BOOLEAN
    OBVIOUS
  <2>4. nacks \in 0 .. MaxNacks
    BY Span
  <2>5. batch = {} /\ pending_nacks = {}
    OBVIOUS
  <2> QED BY <2>1, <2>2, <2>3, <2>4, <2>5, Zenon DEF NackInv
<1>10. HistoryInv
  <2>1. DOMAIN <<>> = {} /\ Len(<<>>) = 0
    OBVIOUS
  <2>2. NumbersInv
    BY <2>1 DEF NumbersInv
  <2>3. HistoryIsTailOfOut
    BY <1>6, <2>1 DEF HistoryIsTailOfOut
  <2>4. Deque(<<>>) /\ Len(<<>>) <= kMaxCapacity
    BY <1>1, <2>1, Span DEF Deque, Aligned
  <2> QED BY <1>1, <2>2, <2>3, <2>4 DEF HistoryInv
<1> QED BY <1>2, <1>3, <1>4, <1>8, <1>9, <1>10 DEF IInv

LEMMA Steps == IInv /\ [Next]_vars => IInv'
<1> SUFFICES ASSUME IInv, [Next]_vars PROVE IInv'
    OBVIOUS
<1>1. ShutdownInv'
    BY Pieces, ShutdownKeeps
<1>2. CASE UNCHANGED vars
  <2>1. /\ UNCHANGED <<capture_vars, pacer_vars, faults, frame>>
        /\ UNCHANGED <<rtx_enabled, in_nack_task, batch, nack_vars, history_shutdown>>
        /\ UNCHANGED <<packet_history, history_tasks, out, ssrc_seq>>
    BY <1>2 DEF vars, capture_vars, pacer_vars, history_vars, destroy_vars
  <2>2. CaptureInv' /\ PacerTypes' /\ StreamInv'
    BY <2>1, Pieces, CaptureSame, PacerSame
  <2>3. NackInv' /\ HistoryInv'
    BY <2>1, Pieces, NackSame, HistorySame
  <2> QED BY <1>1, <2>1, <2>2, <2>3, Pieces DEF IInv
<1>3. CASE CaptureStep
    BY <1>1, <1>3, CaptureSteps DEF IInv
<1>4. CASE EnqueuePacketsOnQueue
    BY <1>1, <1>4, EnqueueSteps DEF IInv
<1>5. CASE SendPacket
    BY <1>1, <1>5, SendSteps DEF IInv
<1>6. CASE SendPadding
    BY <1>1, <1>6, PaddingSteps DEF IInv
<1>7. CASE HistoryTask \/ ProcessPendingNacks
    BY <1>1, <1>7, TaskSteps DEF IInv
<1>8. CASE ReSendPacket
    BY <1>1, <1>8, ReSendSteps DEF IInv
<1>9. CASE FinishPendingNacks
    BY <1>1, <1>9, FinishSteps DEF IInv
<1>10. CASE OnReceiveNack \/ OnReceiveNackPosts \/ OnRttUpdate
    BY <1>1, <1>10, NetworkSteps DEF IInv
<1>11. CASE DestroyBegins \/ DestroyThread
    BY <1>1, <1>11, DestroySteps DEF IInv
<1> QED BY <1>2, <1>3, <1>4, <1>5, <1>6, <1>7, <1>8, <1>9, <1>10, <1>11
        DEF Next, CaptureStep, EncodeThread, PacerThread, HistoryThread, Done
-----------------------------------------------------------------------------
(* Retransmissions in flight                                                 *)

LEMMA CountAdds ==
    ASSUME NEW T, NEW q \in Seq(T), NEW x \in T, NEW S
    PROVE  /\ Append(q, x) \in Seq(T) /\ Count(q, 1, S) \in Nat
           /\ x \in S => Count(Append(q, x), 1, S) = Count(q, 1, S) + 1
           /\ x \notin S => Count(Append(q, x), 1, S) = Count(q, 1, S)
<1>1. 1 \in Nat /\ 1 > 0 /\ 1 <= Len(q) + 1 /\ Append(q, x) \in Seq(T)
    OBVIOUS
<1>2. Count(Append(q, x), 1, S) = Count(q, 1, S) + IF x \in S THEN 1 ELSE 0
    BY <1>1, CountAppend
<1>3. Count(q, 1, S) \in Nat
    BY CountType
<1> QED BY <1>1, <1>2, <1>3

LEMMA CountDrops ==
    ASSUME NEW T, NEW q \in Seq(T), q # <<>>, NEW S
    PROVE  /\ Tail(q) \in Seq(T) /\ Head(q) \in T /\ Count(Tail(q), 1, S) \in Nat
           /\ Head(q) \in S => Count(q, 1, S) = Count(Tail(q), 1, S) + 1
           /\ Head(q) \notin S => Count(q, 1, S) = Count(Tail(q), 1, S)
<1>1. /\ Tail(q) \in Seq(T) /\ Head(q) \in T /\ Head(q) = q[1]
      /\ 1 \in 1 .. Len(q) /\ Len(q) \in Nat /\ 1 \in Nat /\ 1 > 0
    OBVIOUS
<1>2. PICK m : m = 1 + 1
    OBVIOUS
<1>3. Count(q, 1, S) = Count(q, m, S) + IF q[1] \in S THEN 1 ELSE 0
    BY <1>1, <1>2, CountFirst
<1>4. Count(Tail(q), 1, S) = Count(q, m, S)
    BY <1>1, <1>2, CountTail, Zenon
<1>5. Count(Tail(q), 1, S) \in Nat
    BY <1>1, CountType
<1> QED BY <1>1, <1>3, <1>4, <1>5

LEMMA CountNone ==
    ASSUME NEW T, NEW q \in Seq(T), NEW S, \A i \in 1 .. Len(q) : q[i] \notin S
    PROVE  Count(q, 1, S) = 0
<1>1. {j \in 1 .. Len(q) : q[j] \in S} = {}
    OBVIOUS
<1> QED BY <1>1, FS_EmptySet, Zenon DEF Count

\* Retransmissions of s in the pacer's tasks p, its queue r and the outcomes q.
Flight(s, p, r, q) ==
    Count(p, 1, RtxTasks({s})) + Count(r, 1, RtxPackets({s})) + Count(q, 1, Outcomes({s}))

\* The parts of a retransmission, wherever it is, belong to one number.
LEMMA RtxIs ==
    ASSUME NEW s \in Seqs
    PROVE  /\ \A t \in PacerTask : t \in RtxTasks({s}) <=> t \notin FrameTasks /\ t.osn = s
           /\ \A t \in RtxPackets(Seqs) : t \in RtxPackets({s}) <=> t.osn = s
           /\ \A t \in HistoryTasks :
                t \in Outcomes({s}) <=> t.op \in {"sent", "aborted"} /\ t.seq = s
<1>1. \A t \in PacerTask : t \in RtxTasks({s}) <=> t \notin FrameTasks /\ t.osn = s
    BY DEF PacerTask, RtxTasks, FrameTasks
<1>2. \A t \in RtxPackets(Seqs) : t \in RtxPackets({s}) <=> t.osn = s
    BY DEF RtxPackets
<1>3. ASSUME NEW t \in HistoryTasks
      PROVE  t \in Outcomes({s}) <=> t.op \in {"sent", "aborted"} /\ t.seq = s
  <2>1. t \in Outcomes({s}) => t \in Outcomes(Seqs) /\ t.seq = s
    BY DEF Outcomes
  <2>2. t \in Outcomes(Seqs) /\ t.seq = s => t \in Outcomes({s})
    BY DEF Outcomes
  <2>3. t \in Outcomes(Seqs) <=> t.op \in {"sent", "aborted"}
    BY HistoryTaskIs
  <2> QED BY <2>1, <2>2, <2>3, Zenon
<1> QED BY <1>1, <1>2, <1>3, Zenon

LEMMA FlightType ==
    ASSUME NEW s, NEW p \in Seq(PacerTask), NEW r \in Seq(RtxPackets(Seqs)),
           NEW q \in Seq(HistoryTasks)
    PROVE  /\ Count(p, 1, RtxTasks({s})) \in Nat /\ Count(r, 1, RtxPackets({s})) \in Nat
           /\ Count(q, 1, Outcomes({s})) \in Nat /\ Flight(s, p, r, q) \in Nat
<1>1. Count(p, 1, RtxTasks({s})) \in Nat
    BY CountType
<1>2. Count(r, 1, RtxPackets({s})) \in Nat
    BY CountType
<1>3. Count(q, 1, Outcomes({s})) \in Nat
    BY CountType
<1> QED BY <1>1, <1>2, <1>3 DEF Flight

\* A retransmission is posted to the pacer; a frame is no retransmission.
LEMMA FlightBegins ==
    ASSUME NEW s \in Seqs, NEW p \in Seq(PacerTask), NEW r \in Seq(RtxPackets(Seqs)),
           NEW q \in Seq(HistoryTasks), NEW t \in PacerTask
    PROVE  /\ t \notin FrameTasks /\ t.osn = s => Flight(s, Append(p, t), r, q) = Flight(s, p, r, q) + 1
           /\ ~(t \notin FrameTasks /\ t.osn = s) => Flight(s, Append(p, t), r, q) = Flight(s, p, r, q)
<1>1. /\ Count(p, 1, RtxTasks({s})) \in Nat
      /\ t \in RtxTasks({s}) => Count(Append(p, t), 1, RtxTasks({s})) = Count(p, 1, RtxTasks({s})) + 1
      /\ t \notin RtxTasks({s}) => Count(Append(p, t), 1, RtxTasks({s})) = Count(p, 1, RtxTasks({s}))
    BY CountAdds
<1>2. t \in RtxTasks({s}) <=> t \notin FrameTasks /\ t.osn = s
    BY RtxIs, Zenon
<1>3. Count(r, 1, RtxPackets({s})) \in Nat /\ Count(q, 1, Outcomes({s})) \in Nat
    BY FlightType, Zenon
<1> QED BY <1>1, <1>2, <1>3 DEF Flight

LEMMA FlightQueues ==
    ASSUME NEW s \in Seqs, NEW p \in Seq(PacerTask), p # <<>>, NEW r \in Seq(RtxPackets(Seqs)),
           NEW q \in Seq(HistoryTasks), NEW t, t = Head(p), t \notin FrameTasks,
           NEW x \in RtxPackets(Seqs), x.osn = t.osn
    PROVE  Flight(s, Tail(p), Append(r, x), q) = Flight(s, p, r, q)
<1>1. /\ Count(Tail(p), 1, RtxTasks({s})) \in Nat /\ t \in PacerTask
      /\ t \in RtxTasks({s}) => Count(p, 1, RtxTasks({s})) = Count(Tail(p), 1, RtxTasks({s})) + 1
      /\ t \notin RtxTasks({s}) => Count(p, 1, RtxTasks({s})) = Count(Tail(p), 1, RtxTasks({s}))
    BY CountDrops, ZenonT(40)
<1>2. /\ Count(r, 1, RtxPackets({s})) \in Nat
      /\ x \in RtxPackets({s}) => Count(Append(r, x), 1, RtxPackets({s})) = Count(r, 1, RtxPackets({s})) + 1
      /\ x \notin RtxPackets({s}) => Count(Append(r, x), 1, RtxPackets({s})) = Count(r, 1, RtxPackets({s}))
    BY CountAdds
<1>3. t \in RtxTasks({s}) <=> t.osn = s
    BY <1>1, RtxIs, Zenon
<1>4. x \in RtxPackets({s}) <=> t.osn = s
    BY RtxIs, Zenon
<1>5. Count(q, 1, Outcomes({s})) \in Nat
    BY FlightType, Zenon
<1> QED BY <1>1, <1>2, <1>3, <1>4, <1>5 DEF Flight

LEMMA FlightFrame ==
    ASSUME NEW s \in Seqs, NEW p \in Seq(PacerTask), p # <<>>, NEW r, NEW q, Head(p) \in FrameTasks
    PROVE  Flight(s, Tail(p), r, q) = Flight(s, p, r, q)
<1>1. /\ Head(p) \in PacerTask
      /\ Head(p) \notin RtxTasks({s}) => Count(p, 1, RtxTasks({s})) = Count(Tail(p), 1, RtxTasks({s}))
    BY CountDrops, Zenon
<1>2. Head(p) \notin RtxTasks({s})
    BY <1>1, RtxIs, Zenon
<1> QED BY <1>1, <1>2 DEF Flight

LEMMA FlightLeaves ==
    ASSUME NEW s \in Seqs, NEW p \in Seq(PacerTask), NEW r \in Seq(RtxPackets(Seqs)), r # <<>>,
           NEW q \in Seq(HistoryTasks), NEW t \in HistoryTasks, t.op \in {"sent", "aborted"},
           t.seq = Head(r).osn
    PROVE  Flight(s, p, Tail(r), Append(q, t)) = Flight(s, p, r, q)
<1>0. PICK x : x = Head(r)
    OBVIOUS
<1>1. /\ Count(Tail(r), 1, RtxPackets({s})) \in Nat /\ x \in RtxPackets(Seqs)
      /\ x \in RtxPackets({s}) => Count(r, 1, RtxPackets({s})) = Count(Tail(r), 1, RtxPackets({s})) + 1
      /\ x \notin RtxPackets({s}) => Count(r, 1, RtxPackets({s})) = Count(Tail(r), 1, RtxPackets({s}))
    BY <1>0, CountDrops, Zenon
<1>2. /\ Count(q, 1, Outcomes({s})) \in Nat
      /\ t \in Outcomes({s}) => Count(Append(q, t), 1, Outcomes({s})) = Count(q, 1, Outcomes({s})) + 1
      /\ t \notin Outcomes({s}) => Count(Append(q, t), 1, Outcomes({s})) = Count(q, 1, Outcomes({s}))
    BY CountAdds
<1>3. x \in RtxPackets({s}) <=> x.osn = s
    BY <1>1, RtxIs, Zenon
<1>4. t \in Outcomes({s}) <=> x.osn = s
    BY <1>0, RtxIs, Zenon
<1>5. Count(p, 1, RtxTasks({s})) \in Nat
    BY CountType
<1> QED BY <1>1, <1>2, <1>3, <1>4, <1>5 DEF Flight

\* Other tasks of the history do not count; an outcome ends a retransmission.
LEMMA FlightPosts ==
    ASSUME NEW s \in Seqs, NEW p, NEW r, NEW q \in Seq(HistoryTasks),
           NEW t \in HistoryTasks, t.op \notin {"sent", "aborted"}
    PROVE  Flight(s, p, r, Append(q, t)) = Flight(s, p, r, q)
<1>1. t \notin Outcomes({s}) => Count(Append(q, t), 1, Outcomes({s})) = Count(q, 1, Outcomes({s}))
    BY CountAdds, ZenonT(40)
<1>2. t \notin Outcomes({s})
    BY RtxIs, Zenon
<1> QED BY <1>1, <1>2 DEF Flight

LEMMA FlightEnds ==
    ASSUME NEW s \in Seqs, NEW p \in Seq(PacerTask), NEW r \in Seq(RtxPackets(Seqs)),
           NEW q \in Seq(HistoryTasks), q # <<>>, NEW t, t = Head(q)
    PROVE  /\ t.op \in {"sent", "aborted"} /\ t.seq = s =>
                Flight(s, p, r, q) = Flight(s, p, r, Tail(q)) + 1
           /\ ~(t.op \in {"sent", "aborted"} /\ t.seq = s) =>
                Flight(s, p, r, q) = Flight(s, p, r, Tail(q))
           /\ Flight(s, p, r, Tail(q)) \in Nat
<1>1. /\ Count(Tail(q), 1, Outcomes({s})) \in Nat /\ t \in HistoryTasks
      /\ t \in Outcomes({s}) => Count(q, 1, Outcomes({s})) = Count(Tail(q), 1, Outcomes({s})) + 1
      /\ t \notin Outcomes({s}) => Count(q, 1, Outcomes({s})) = Count(Tail(q), 1, Outcomes({s}))
    BY CountDrops, Zenon
<1>2. t \in Outcomes({s}) <=> t.op \in {"sent", "aborted"} /\ t.seq = s
    BY <1>1, RtxIs, Zenon
<1>3. Count(p, 1, RtxTasks({s})) \in Nat /\ Count(r, 1, RtxPackets({s})) \in Nat
    BY FlightType, Zenon
<1>4. PICK a, b, c, d : /\ a = Count(p, 1, RtxTasks({s})) /\ b = Count(r, 1, RtxPackets({s}))
                        /\ c = Count(q, 1, Outcomes({s})) /\ d = Count(Tail(q), 1, Outcomes({s}))
    OBVIOUS
<1>5. Flight(s, p, r, q) = a + b + c /\ Flight(s, p, r, Tail(q)) = a + b + d
    BY <1>4 DEF Flight
<1>6. a \in Nat /\ b \in Nat /\ d \in Nat
    BY <1>1, <1>3, <1>4, Zenon
<1>7. /\ t.op \in {"sent", "aborted"} /\ t.seq = s => c = d + 1
      /\ ~(t.op \in {"sent", "aborted"} /\ t.seq = s) => c = d
    BY <1>1, <1>2, <1>4, Zenon
<1> QED BY <1>5, <1>6, <1>7

Mark(x) == IF x.pending THEN 1 ELSE 0

\* History h, the pacer's tasks p and queue r, the history's tasks q, what was
\* sent, o; on: retransmissions were negotiated.
FlightOK(h, p, r, q, o, on) ==
    /\ \A s \in Seqs : Flight(s, p, r, q) # 0 => on /\ Passed(s, o, Len(o) - Count(q, 1, Puts))
    /\ \A i \in 1 .. Len(h) : h[i] # Hole => Flight(h[i].seq, p, r, q) = Mark(h[i])

LEMMA PassedMore ==
    ASSUME NEW o \in Seq(SentPackets), NEW y, \A i \in 1 .. Len(o) : y[i] = o[i],
           NEW n \in Int, n <= Len(o), NEW m \in Int, n <= m, NEW s, Passed(s, o, n)
    PROVE  Passed(s, y, m)
<1>1. PICK i \in 1 .. n : o[i].seq = s
    BY DEF Passed
<1>2. i \in 1 .. Len(o) /\ i \in 1 .. m
    OBVIOUS
<1> QED BY <1>1, <1>2 DEF Passed

\* Nothing new in flight or in the history.
LEMMA FlightKept ==
    ASSUME NEW h \in Seq(Slots), NEW g \in Seq(Slots), Within(g, h), NEW p, NEW r, NEW q, NEW o,
           NEW on, FlightOK(h, p, r, q, o, on), NEW u, NEW v, NEW w, NEW y,
           \A s \in Seqs : Flight(s, u, v, w) = Flight(s, p, r, q),
           on => \A s \in Seqs : Passed(s, o, Len(o) - Count(q, 1, Puts)) =>
                                 Passed(s, y, Len(y) - Count(w, 1, Puts))
    PROVE  FlightOK(g, u, v, w, y, on)
<1>1. \A s \in Seqs : Flight(s, u, v, w) # 0 => on /\ Passed(s, y, Len(y) - Count(w, 1, Puts))
    BY Zenon DEF FlightOK
<1>2. ASSUME NEW i \in 1 .. Len(g), g[i] # Hole
      PROVE  Flight(g[i].seq, u, v, w) = Mark(g[i])
  <2>1. DOMAIN g = 1 .. Len(g) /\ DOMAIN h = 1 .. Len(h)
    OBVIOUS
  <2>2. PICK j \in 1 .. Len(h) : h[j] = g[i]
    BY <1>2, <2>1, Zenon DEF Within
  <2>3. g[i].seq \in Seqs
    BY <1>2, SlotIs
  <2>4. Flight(h[j].seq, p, r, q) = Mark(h[j])
    BY <1>2, <2>2, Zenon DEF FlightOK
  <2> QED BY <2>2, <2>3, <2>4, Zenon
<1> QED BY <1>1, <1>2, Zenon DEF FlightOK

LEMMA WithinSame ==
    ASSUME NEW h PROVE Within(h, h)
BY Zenon DEF Within

\* A packet given to the history for the first time has nothing in flight.
LEMMA FlightPut ==
    ASSUME NEW h, Deque(h), NEW p \in Seq(PacerTask), NEW r \in Seq(RtxPackets(Seqs)),
           NEW q \in Seq(HistoryTasks), q # <<>>, NEW t, t = Head(q), t \in Puts,
           NEW o \in Seq(SentPackets), NEW e, Numbered(o, e), Len(o) <= SeqSpan,
           NEW on \in BOOLEAN, on => Queued(q, o), FlightOK(h, p, r, q, o, on),
           NEW g \in PutRtpPacket(h, t.seq, t.pkt)
    PROVE  FlightOK(g, p, r, Tail(q), o, on)
<1>1. /\ Tail(q) \in Seq(HistoryTasks) /\ t \in HistoryTasks
      /\ Count(Tail(q), 1, Puts) \in Nat
      /\ Count(q, 1, Puts) = Count(Tail(q), 1, Puts) + 1
    BY CountTaken
<1>2. PICK c \in Nat : c = Count(Tail(q), 1, Puts) /\ Count(q, 1, Puts) = c + 1
    BY <1>1
<1>3. PICK L \in Nat : L = Len(o)
    OBVIOUS
<1>4. t.op = "put" /\ t.seq \in Seqs /\ t.pkt \in VideoPackets
    BY <1>1, HistoryTaskIs
<1>5. \A s \in Seqs : Flight(s, p, r, Tail(q)) = Flight(s, p, r, q)
  <2>1. ~(t.op \in {"sent", "aborted"})
    BY <1>4
  <2> QED BY <2>1, FlightEnds, Zenon
<1>6. Flight(t.seq, p, r, q) = 0
  <2> SUFFICES ASSUME Flight(t.seq, p, r, q) # 0 PROVE FALSE
    OBVIOUS
  <2>1. on /\ Passed(t.seq, o, L - (c + 1))
    BY <1>2, <1>3, <1>4, Zenon DEF FlightOK
  <2>2. PICK i \in 1 .. L - (c + 1) : o[i].seq = t.seq
    BY <2>1 DEF Passed
  <2>3. PICK j \in Nat : j = L - c
    BY <2>2
  <2>4. t.seq = o[j].seq
    <3>1. 1 \in 1 .. Len(q) /\ q[1] = t /\ 1 \in Nat /\ 1 > 0
      OBVIOUS
    <3>2. PICK m : m = 1 + 1
      OBVIOUS
    <3>3. Count(q, m, Puts) = c
      BY <1>2, <3>1, <3>2, CountTail, Zenon
    <3>4. Same(q[1], o[L - Count(q, m, Puts)])
      BY <1>3, <2>1, <3>1, <3>2, Zenon DEF Queued
    <3> QED BY <2>3, <3>1, <3>3, <3>4 DEF Same
  <2>5. PICK d \in Nat : d = j - i
    BY <2>2, <2>3
  <2>6. /\ i \in 1 .. Len(o) /\ j \in 1 .. Len(o) /\ d < SeqSpan /\ d > 0
    BY <1>3, <2>2, <2>3, <2>5, Span
  <2>7. /\ o[i].seq \in Seqs /\ o[i].seq + d \in {o[j].seq, o[j].seq + SeqSpan}
    BY <2>5, <2>6, NumberedApart
  <2>8. PICK a \in Int : a = t.seq
    BY <1>4 DEF Seqs
  <2>9. a + d = a \/ a + d = a + SeqSpan
    BY <2>2, <2>4, <2>7, <2>8
  <2> QED BY <2>6, <2>9, Span
<1>7. \A s \in Seqs : Passed(s, o, Len(o) - Count(q, 1, Puts)) =>
                      Passed(s, o, Len(o) - Count(Tail(q), 1, Puts))
    BY <1>2, <1>3, PassedMore
<1>8. \A s \in Seqs : Flight(s, p, r, Tail(q)) # 0 =>
                      on /\ Passed(s, o, Len(o) - Count(Tail(q), 1, Puts))
    BY <1>5, <1>7, Zenon DEF FlightOK
<1>9. ASSUME NEW j \in 1 .. Len(g), g[j] # Hole
      PROVE  Flight(g[j].seq, p, r, Tail(q)) = Mark(g[j])
  <2>1. /\ g \in Seq(Slots) /\ h \in Seq(Slots)
        /\ \A k \in DOMAIN g : g[k] # Hole =>
              g[k] = Stored(t.seq, t.pkt) \/ \E l \in DOMAIN h : h[l] = g[k]
    BY <1>4, PutDeque DEF Deque
  <2>2. CASE g[j] = Stored(t.seq, t.pkt)
    <3>0. PICK a \in Seqs, b \in VideoPackets : a = t.seq /\ b = t.pkt
      BY <1>4, Zenon
    <3>3. Stored(a, b).seq = a /\ Stored(a, b).pending = FALSE
      BY StoredIs
    <3>1. g[j].seq = t.seq /\ g[j].pending = FALSE
      BY <2>2, <3>0, <3>3, Zenon
    <3>2. Mark(g[j]) = 0
      BY <3>1 DEF Mark
    <3> QED BY <1>4, <1>5, <1>6, <3>1, <3>2, Zenon
  <2>3. CASE \E l \in DOMAIN h : h[l] = g[j]
    <3>0. DOMAIN h = 1 .. Len(h)
      BY <2>1
    <3>1. PICK l \in 1 .. Len(h) : h[l] = g[j]
      BY <2>3, <3>0, Zenon
    <3>2. g[j].seq \in Seqs
      BY <1>9, <2>1, SlotIs
    <3>3. Flight(h[l].seq, p, r, q) = Mark(h[l])
      BY <1>9, <3>1, Zenon DEF FlightOK
    <3> QED BY <1>5, <3>1, <3>2, <3>3, Zenon
  <2> QED BY <1>9, <2>1, <2>2, <2>3
<1> QED BY <1>8, <1>9, Zenon DEF FlightOK

LEMMA MarkIs ==
    ASSUME NEW x, x.pending \in BOOLEAN
    PROVE  Mark(x) \in {0, 1} /\ (x.pending => Mark(x) = 1) /\ (~x.pending => Mark(x) = 0)
BY DEF Mark

\* Different slots have different numbers.
LEMMA SlotsApart ==
    ASSUME NEW h, Deque(h), Len(h) <= kMaxCapacity, NEW i \in 1 .. Len(h), h[i] # Hole,
           NEW j \in 1 .. Len(h), h[j] # Hole, h[i].seq = h[j].seq
    PROVE  i = j
<1>1. GetStoredPacket(h, h[i].seq) = i
    BY StoredPacketFinds
<1>2. GetStoredPacket(h, h[j].seq) = j
    BY StoredPacketFinds
<1> QED BY <1>1, <1>2, Zenon

\* The outcome of a retransmission clears the mark that it set.
LEMMA FlightMarks ==
    ASSUME NEW h, Deque(h), Len(h) <= kMaxCapacity, NEW p \in Seq(PacerTask),
           NEW r \in Seq(RtxPackets(Seqs)), NEW q \in Seq(HistoryTasks), q # <<>>,
           NEW t, t = Head(q), t.op \in {"sent", "aborted"}, NEW o, NEW on,
           FlightOK(h, p, r, q, o, on), NEW g, Marks(h, g, t.seq, GetStoredPacket(h, t.seq))
    PROVE  FlightOK(g, p, r, Tail(q), o, on)
<1>1. /\ Tail(q) \in Seq(HistoryTasks) /\ t \in HistoryTasks
      /\ Count(Tail(q), 1, Puts) \in Nat
      /\ Count(q, 1, Puts) = Count(Tail(q), 1, Puts) + IF t \in Puts THEN 1 ELSE 0
    BY CountTaken
<1>2. t \notin Puts /\ t.seq \in Seqs
    BY <1>1, HistoryTaskIs
<1>3. Count(q, 1, Puts) = Count(Tail(q), 1, Puts)
    BY <1>1, <1>2
<1>4. \A s \in Seqs : /\ s = t.seq => Flight(s, p, r, q) = Flight(s, p, r, Tail(q)) + 1
                      /\ s # t.seq => Flight(s, p, r, q) = Flight(s, p, r, Tail(q))
                      /\ Flight(s, p, r, Tail(q)) \in Nat
    BY FlightEnds, Zenon
<1>5. ASSUME NEW s \in Seqs, Flight(s, p, r, Tail(q)) # 0
      PROVE  on /\ Passed(s, o, Len(o) - Count(Tail(q), 1, Puts))
  <2>1. Flight(s, p, r, q) # 0
    BY <1>4, <1>5
  <2> QED BY <1>3, <2>1, Zenon DEF FlightOK
<1>6. PICK k : k = GetStoredPacket(h, t.seq)
    OBVIOUS
<1>7. h \in Seq(Slots)
    BY DEF Deque
<1>8. ASSUME NEW i \in 1 .. Len(h), h[i] # Hole, i # k
      PROVE  Flight(h[i].seq, p, r, Tail(q)) = Mark(h[i])
  <2>1. GetStoredPacket(h, h[i].seq) = i
    BY <1>8, StoredPacketFinds
  <2>2. h[i].seq # t.seq
    BY <1>6, <1>8, <2>1, Zenon
  <2>3. h[i].seq \in Seqs
    BY <1>7, <1>8, SlotIs
  <2>4. Flight(h[i].seq, p, r, q) = Mark(h[i])
    BY <1>8, Zenon DEF FlightOK
  <2> QED BY <1>4, <2>2, <2>3, <2>4, Zenon
<1>9. CASE k = 0 /\ g = h
  <2>1. \A i \in 1 .. Len(h) : i # k
    BY <1>9
  <2>2. \A i \in 1 .. Len(g) : g[i] # Hole => Flight(g[i].seq, p, r, Tail(q)) = Mark(g[i])
    BY <1>8, <1>9, <2>1, Zenon
  <2> QED BY <1>5, <2>2, Zenon DEF FlightOK
<1>10. CASE h[k].seq = t.seq /\ \E x : Changed(h, g, k, x) /\ x.pending = FALSE
  <2>1. PICK x : Changed(h, g, k, x) /\ x.pending = FALSE
    BY <1>10
  <2>2. /\ k \in 1 .. Len(h) /\ h[k] # Hole /\ x.seq = h[k].seq
        /\ Len(g) = Len(h) /\ g[k] = x
        /\ \A j \in 1 .. Len(h) : j # k => g[j] = h[j]
    BY <2>1, Zenon DEF Changed
  <2>3. Flight(t.seq, p, r, Tail(q)) = 0
    <3>1. Flight(t.seq, p, r, q) = Mark(h[k])
      BY <1>10, <2>2, Zenon DEF FlightOK
    <3>2. h[k].pending \in BOOLEAN
      BY <1>7, <2>2, SlotIs
    <3>3. Mark(h[k]) \in {0, 1}
      BY <3>2, MarkIs
    <3> QED BY <1>2, <1>4, <3>1, <3>3
  <2>4. Mark(x) = 0
    BY <2>1 DEF Mark
  <2>5. ASSUME NEW i \in 1 .. Len(g), g[i] # Hole
        PROVE  Flight(g[i].seq, p, r, Tail(q)) = Mark(g[i])
    <3>1. CASE i = k
      BY <1>10, <2>2, <2>3, <2>4, <3>1, Zenon
    <3>2. CASE i # k
      <4>1. i \in 1 .. Len(h) /\ g[i] = h[i]
        BY <2>2, <3>2, Zenon
      <4> QED BY <1>8, <2>5, <3>2, <4>1, Zenon
    <3> QED BY <3>1, <3>2
  <2> QED BY <1>5, <2>5, Zenon DEF FlightOK
<1> QED BY <1>6, <1>9, <1>10, Zenon DEF Marks

\* A retransmission begins with the mark.
LEMMA FlightResends ==
    ASSUME NEW h, Deque(h), Len(h) <= kMaxCapacity, NEW p \in Seq(PacerTask),
           NEW r \in Seq(RtxPackets(Seqs)), NEW q \in Seq(HistoryTasks), NEW o, NEW on, on,
           FlightOK(h, p, r, q, o, on), NEW g, NEW i, NEW x, Changed(h, g, i, x),
           ~h[i].pending, x.pending = TRUE, Passed(h[i].seq, o, Len(o) - Count(q, 1, Puts)),
           NEW t \in PacerTask, t \notin FrameTasks, t.osn = h[i].seq
    PROVE  FlightOK(g, Append(p, t), r, q, o, on)
<1>1. /\ i \in 1 .. Len(h) /\ h[i] # Hole /\ x.seq = h[i].seq
      /\ Len(g) = Len(h) /\ g[i] = x
      /\ \A j \in 1 .. Len(h) : j # i => g[j] = h[j]
    BY Zenon DEF Changed
<1>2. \A s \in Seqs : /\ t.osn = s => Flight(s, Append(p, t), r, q) = Flight(s, p, r, q) + 1
                      /\ t.osn # s => Flight(s, Append(p, t), r, q) = Flight(s, p, r, q)
    BY FlightBegins, Zenon
<1>3. \A s \in Seqs : Flight(s, Append(p, t), r, q) # 0 =>
                      on /\ Passed(s, o, Len(o) - Count(q, 1, Puts))
    BY <1>2, Zenon DEF FlightOK
<1>4. h \in Seq(Slots)
    BY DEF Deque
<1>5. ASSUME NEW j \in 1 .. Len(g), g[j] # Hole
      PROVE  Flight(g[j].seq, Append(p, t), r, q) = Mark(g[j])
  <2>1. CASE j = i
    <3>1. h[i].seq \in Seqs /\ h[i].pending \in BOOLEAN
      BY <1>1, <1>4, SlotIs
    <3>2. Mark(h[i]) = 0 /\ Mark(x) = 1
      BY <3>1 DEF Mark
    <3>3. Flight(h[i].seq, p, r, q) = Mark(h[i])
      BY <1>1, Zenon DEF FlightOK
    <3>4. Flight(h[i].seq, Append(p, t), r, q) = 0 + 1
      BY <1>2, <3>1, <3>2, <3>3, Zenon
    <3>5. Flight(h[i].seq, Append(p, t), r, q) = 1
      BY <3>4
    <3> QED BY <1>1, <2>1, <3>2, <3>5, Zenon
  <2>2. CASE j # i
    <3>1. j \in 1 .. Len(h) /\ g[j] = h[j] /\ h[j] # Hole
      BY <1>1, <1>5, <2>2, Zenon
    <3>2. h[j].seq \in Seqs
      BY <1>4, <3>1, SlotIs
    <3>3. h[j].seq # h[i].seq
      BY <1>1, <2>2, <3>1, SlotsApart, Zenon
    <3>4. Flight(h[j].seq, p, r, q) = Mark(h[j])
      BY <3>1, Zenon DEF FlightOK
    <3> QED BY <1>2, <3>1, <3>2, <3>3, <3>4, Zenon
  <2> QED BY <2>1, <2>2
<1> QED BY <1>3, <1>5, Zenon DEF FlightOK

LEMMA FlightFacts ==
    ASSUME IInv, FlightInv, ~pacer_shutdown, Len(out) <= SeqSpan
    PROVE  FlightOK(packet_history, pacer_tasks, rtx_queue, history_tasks, out, rtx_enabled)
<1>1. DOMAIN packet_history = 1 .. Len(packet_history)
    BY Pieces DEF HistoryInv, Deque
<1>2. \A s : InFlight(s) = Flight(s, pacer_tasks, rtx_queue, history_tasks)
    BY Zenon DEF InFlight, Flight
<1>3. \A s \in Seqs : Flight(s, pacer_tasks, rtx_queue, history_tasks) # 0 =>
            rtx_enabled /\ Passed(s, out, Len(out) - Count(history_tasks, 1, Puts))
    BY <1>2, Zenon DEF FlightInv
<1>4. \A i \in 1 .. Len(packet_history) : packet_history[i] # Hole =>
            Flight(packet_history[i].seq, pacer_tasks, rtx_queue, history_tasks) = Mark(packet_history[i])
    BY <1>1, <1>2, Zenon DEF FlightInv, PendingIsInFlight, Mark
<1> QED BY <1>3, <1>4, Zenon DEF FlightOK

LEMMA FlightStep ==
    ASSUME IInv', FlightOK(packet_history', pacer_tasks', rtx_queue', history_tasks', out', rtx_enabled')
    PROVE  FlightInv'
<1>1. DOMAIN packet_history' = 1 .. Len(packet_history')
    BY DEF IInv, HistoryInv, Deque
<1>2. \A s : InFlight(s)' = Flight(s, pacer_tasks', rtx_queue', history_tasks')
    BY Zenon DEF InFlight, Flight, Count
<1>3. (\A s \in Seqs : InFlight(s) # 0 =>
            rtx_enabled /\ Passed(s, out, Len(out) - Count(history_tasks, 1, Puts)))'
    BY <1>2, Zenon DEF FlightOK, Passed, Count
<1>4. (\A i \in DOMAIN packet_history : packet_history[i] # Hole =>
          InFlight(packet_history[i].seq) = IF packet_history[i].pending THEN 1 ELSE 0)'
    BY <1>1, <1>2, Zenon DEF FlightOK, Mark
<1> QED BY <1>3, <1>4, Zenon DEF FlightInv, PendingIsInFlight

\* The pacer runs and no number was used twice.
Flying == IInv /\ FlightInv /\ ~pacer_shutdown /\ Len(out) <= SeqSpan

LEMMA FlyingFacts ==
    ASSUME Flying
    PROVE  /\ FlightOK(packet_history, pacer_tasks, rtx_queue, history_tasks, out, rtx_enabled)
           /\ pacer_tasks \in Seq(PacerTask) /\ rtx_queue \in Seq(RtxPackets(Seqs))
           /\ history_tasks \in Seq(HistoryTasks) /\ out \in Seq(SentPackets)
           /\ packet_history \in Seq(Slots) /\ Deque(packet_history)
           /\ Len(packet_history) <= kMaxCapacity /\ Len(out) <= SeqSpan
           /\ ~history_shutdown /\ ~history_stopped /\ IInv /\ rtx_enabled \in BOOLEAN
           /\ ssrc_seq \in Seqs /\ video_queue \in Seq(VideoPackets)
<1>1. IInv /\ FlightInv /\ ~pacer_shutdown /\ Len(out) <= SeqSpan
    BY DEF Flying
<1>2. FlightOK(packet_history, pacer_tasks, rtx_queue, history_tasks, out, rtx_enabled)
    BY <1>1, FlightFacts
<1>3. ShutdownInv /\ PacerTypes /\ HistoryInv
    BY <1>1, Pieces
<1>4. ~history_shutdown /\ ~history_stopped /\ rtx_enabled \in BOOLEAN
    BY <1>1, <1>3, Zenon DEF ShutdownInv
<1>5. Deque(packet_history) /\ Len(packet_history) <= kMaxCapacity /\ packet_history \in Seq(Slots)
    BY <1>3 DEF HistoryInv, Deque
<1> QED BY <1>1, <1>2, <1>3, <1>4, <1>5, Pieces DEF PacerTypes, PacerTask

\* What the history has been given, of what was numbered.
LEMMA PutsWithin ==
    ASSUME Flying
    PROVE  /\ Count(history_tasks, 1, Puts) \in Nat /\ Len(out) \in Nat
           /\ Len(out) - Count(history_tasks, 1, Puts) \in Int
           /\ Len(out) - Count(history_tasks, 1, Puts) <= Len(out)
<1>1. Count(history_tasks, 1, Puts) \in Nat
    BY FlyingFacts, CountType
<1>2. Len(out) \in Nat
    BY FlyingFacts
<1> QED BY <1>1, <1>2

LEMMA FlightSame ==
    ASSUME Flying, IInv', UNCHANGED <<rtx_enabled, packet_history>>,
           \A s \in Seqs : Flight(s, pacer_tasks', rtx_queue', history_tasks')
                             = Flight(s, pacer_tasks, rtx_queue, history_tasks),
           rtx_enabled => \A s \in Seqs :
              Passed(s, out, Len(out) - Count(history_tasks, 1, Puts)) =>
              Passed(s, out', Len(out') - Count(history_tasks', 1, Puts))
    PROVE  FlightInv'
<1>1. FlightOK(packet_history, pacer_tasks', rtx_queue', history_tasks', out', rtx_enabled)
  <2>1. /\ packet_history \in Seq(Slots)
        /\ FlightOK(packet_history, pacer_tasks, rtx_queue, history_tasks, out, rtx_enabled)
    BY FlyingFacts
  <2>2. Within(packet_history, packet_history)
    BY WithinSame
  <2>3. PICK u, v, w, y : u = pacer_tasks' /\ v = rtx_queue' /\ w = history_tasks' /\ y = out'
    OBVIOUS
  <2>4. \A s \in Seqs : Flight(s, u, v, w) = Flight(s, pacer_tasks, rtx_queue, history_tasks)
    BY <2>3, Zenon
  <2>5. rtx_enabled => \A s \in Seqs :
              Passed(s, out, Len(out) - Count(history_tasks, 1, Puts)) =>
              Passed(s, y, Len(y) - Count(w, 1, Puts))
    BY <2>3, Zenon
  <2>6. FlightOK(packet_history, u, v, w, y, rtx_enabled)
    BY <2>1, <2>2, <2>4, <2>5, FlightKept
  <2> QED BY <2>3, <2>6, Zenon
<1> QED BY <1>1, FlightStep

LEMMA FlightUnchanged ==
    ASSUME Flying, IInv', UNCHANGED <<rtx_enabled, packet_history, pacer_tasks, rtx_queue, history_tasks, out>>
    PROVE  FlightInv'
<1>1. FlightOK(packet_history', pacer_tasks', rtx_queue', history_tasks', out', rtx_enabled')
    BY FlyingFacts
<1> QED BY <1>1, FlightStep

LEMMA EncodeFlies ==
    ASSUME Flying, IInv', EncodeTask
    PROVE  FlightInv'
<1>1. UNCHANGED <<rtx_enabled, packet_history, rtx_queue, history_tasks, out>>
    BY DEF EncodeTask, history_vars
<1>2. CASE UNCHANGED pacer_tasks
    BY <1>1, <1>2, FlightUnchanged
<1>3. CASE \E key \in BOOLEAN : pacer_tasks' = Append(pacer_tasks, [op |-> "frame", f |-> frame + 1, key |-> key])
  <2>1. PICK t : /\ t = pacer_tasks'[Len(pacer_tasks')] /\ t.op = "frame"
                 /\ pacer_tasks' = Append(pacer_tasks, t)
    <3>1. PICK key \in BOOLEAN : pacer_tasks' = Append(pacer_tasks, [op |-> "frame", f |-> frame + 1, key |-> key])
      BY <1>3
    <3>2. PICK t : t = [op |-> "frame", f |-> frame + 1, key |-> key]
      OBVIOUS
    <3>3. pacer_tasks' = Append(pacer_tasks, t) /\ t.op = "frame"
      BY <3>1, <3>2
    <3>4. t = pacer_tasks'[Len(pacer_tasks')]
      BY <3>3, FlyingFacts
    <3> QED BY <3>3, <3>4
  <2>2. pacer_tasks' \in Seq(PacerTask)
    BY DEF IInv, PacerTypes, PacerTask
  <2>3. t \in PacerTask
    <3>1. Len(pacer_tasks') \in 1 .. Len(pacer_tasks')
      BY <2>1, FlyingFacts
    <3> QED BY <2>1, <2>2, <3>1
  <2>4. t \in FrameTasks
    BY <2>1, <2>3, TaskIs
  <2>5. \A s \in Seqs : Flight(s, Append(pacer_tasks, t), rtx_queue, history_tasks)
                          = Flight(s, pacer_tasks, rtx_queue, history_tasks)
    BY <2>3, <2>4, FlyingFacts, FlightBegins, Zenon
  <2>6. \A s \in Seqs : Flight(s, pacer_tasks', rtx_queue', history_tasks')
                          = Flight(s, pacer_tasks, rtx_queue, history_tasks)
    BY <1>1, <2>1, <2>5, Zenon
  <2>7. \A s \in Seqs : Passed(s, out, Len(out) - Count(history_tasks, 1, Puts)) =>
                        Passed(s, out', Len(out') - Count(history_tasks', 1, Puts))
    BY <1>1, Zenon
  <2> QED BY <1>1, <2>6, <2>7, FlightSame, Zenon
<1>4. (UNCHANGED pacer_tasks) \/ \E key \in BOOLEAN :
        pacer_tasks' = Append(pacer_tasks, [op |-> "frame", f |-> frame + 1, key |-> key])
  <2>1. \A output : (output = "key") \in BOOLEAN
    OBVIOUS
  <2> QED BY <2>1, Zenon DEF EncodeTask
<1> QED BY <1>2, <1>3, <1>4

LEMMA EnqueueFlies ==
    ASSUME Flying, IInv', EnqueuePacketsOnQueue
    PROVE  FlightInv'
<1>1. UNCHANGED <<rtx_enabled, packet_history, history_tasks, out>>
    BY DEF EnqueuePacketsOnQueue, history_vars
<1>2. PICK t : t = Head(pacer_tasks)
    OBVIOUS
<1>3. /\ pacer_tasks # <<>> /\ pacer_tasks' = Tail(pacer_tasks)
      /\ t.op = "frame" => UNCHANGED rtx_queue
      /\ t.op # "frame" => rtx_queue' = Append(rtx_queue, [osn |-> t.osn, pkt |-> t.pkt])
    BY <1>2, Zenon DEF EnqueuePacketsOnQueue
<1>4. t \in PacerTask
    BY <1>2, <1>3, FlyingFacts
<1>5. \A s \in Seqs : Flight(s, pacer_tasks', rtx_queue', history_tasks')
                        = Flight(s, pacer_tasks, rtx_queue, history_tasks)
  <2>1. CASE t \in FrameTasks
    <3>1. t.op = "frame"
      BY <1>4, <2>1, TaskIs
    <3>2. \A s \in Seqs : Flight(s, Tail(pacer_tasks), rtx_queue, history_tasks)
                            = Flight(s, pacer_tasks, rtx_queue, history_tasks)
      BY <1>2, <1>3, <2>1, FlyingFacts, FlightFrame, Zenon
    <3> QED BY <1>1, <1>3, <3>1, <3>2, Zenon
  <2>2. CASE t \notin FrameTasks
    <3>1. t.op = "rtx" /\ t.osn \in Seqs /\ t.pkt \in VideoPackets
      BY <1>4, <2>2, TaskIs
    <3>2. PICK x : x = [osn |-> t.osn, pkt |-> t.pkt]
      OBVIOUS
    <3>3. x \in RtxPackets(Seqs) /\ x.osn = t.osn
      BY <3>1, <3>2 DEF RtxPackets
    <3>4. rtx_queue' = Append(rtx_queue, x)
      BY <1>3, <3>1, <3>2
    <3>5. \A s \in Seqs : Flight(s, Tail(pacer_tasks), Append(rtx_queue, x), history_tasks)
                            = Flight(s, pacer_tasks, rtx_queue, history_tasks)
      <4>1. /\ pacer_tasks \in Seq(PacerTask) /\ pacer_tasks # <<>>
            /\ rtx_queue \in Seq(RtxPackets(Seqs)) /\ history_tasks \in Seq(HistoryTasks)
        BY <1>3, FlyingFacts
      <4> QED BY <1>2, <2>2, <3>3, <4>1, FlightQueues
    <3> QED BY <1>1, <1>3, <3>4, <3>5, Zenon
  <2> QED BY <2>1, <2>2
<1>6. \A s \in Seqs : Passed(s, out, Len(out) - Count(history_tasks, 1, Puts)) =>
                      Passed(s, out', Len(out') - Count(history_tasks', 1, Puts))
    BY <1>1, Zenon
<1> QED BY <1>1, <1>5, <1>6, FlightSame, Zenon

LEMMA SendFlies ==
    ASSUME Flying, IInv', SendPacket
    PROVE  FlightInv'
<1>1. UNCHANGED <<rtx_enabled, packet_history, pacer_tasks>>
    BY DEF SendPacket, history_vars
<1>2. CASE /\ UNCHANGED rtx_queue /\ video_queue # <<>>
           /\ out' = Append(out, [seq |-> ssrc_seq, pkt |-> Head(video_queue)])
           /\ PostHistory([op |-> "put", seq |-> ssrc_seq, pkt |-> Head(video_queue)])
  <2>1. PICK p, x, t : /\ p = Head(video_queue) /\ x = [seq |-> ssrc_seq, pkt |-> p]
                       /\ t = [op |-> "put", seq |-> ssrc_seq, pkt |-> p]
    OBVIOUS
  <2>2. p \in VideoPackets
    BY <1>2, <2>1, FlyingFacts
  <2>3. t \in Puts /\ t \in HistoryTasks /\ t.op = "put" /\ x \in SentPackets
    BY <2>1, <2>2, FlyingFacts, IsHistoryTask DEF SentPackets
  <2>4. history_tasks' = Append(history_tasks, t) /\ out' = Append(out, x)
    BY <1>2, <2>1, FlyingFacts DEF PostHistory
  <2>5. ASSUME NEW s \in Seqs
        PROVE  Flight(s, pacer_tasks', rtx_queue', history_tasks')
                 = Flight(s, pacer_tasks, rtx_queue, history_tasks)
    <3>1. history_tasks \in Seq(HistoryTasks) /\ t.op \notin {"sent", "aborted"}
      BY <2>3, FlyingFacts
    <3>2. Flight(s, pacer_tasks, rtx_queue, Append(history_tasks, t))
            = Flight(s, pacer_tasks, rtx_queue, history_tasks)
      BY <2>3, <3>1, FlightPosts
    <3> QED BY <1>1, <1>2, <2>4, <3>2
  <2>6. ASSUME NEW s \in Seqs, Passed(s, out, Len(out) - Count(history_tasks, 1, Puts))
        PROVE  Passed(s, out', Len(out') - Count(history_tasks', 1, Puts))
    <3>1. PICK n \in Int : n = Len(out) - Count(history_tasks, 1, Puts) /\ n <= Len(out)
      BY PutsWithin
    <3>2. Count(Append(history_tasks, t), 1, Puts) = Count(history_tasks, 1, Puts) + 1
      BY <2>3, FlyingFacts, CountPosted
    <3>3. Len(Append(out, x)) = Len(out) + 1 /\ \A i \in 1 .. Len(out) : Append(out, x)[i] = out[i]
      BY <2>3, FlyingFacts
    <3>4. Len(Append(out, x)) - Count(Append(history_tasks, t), 1, Puts) = n
      BY <3>1, <3>2, <3>3, PutsWithin
    <3>5. PICK y : y = Append(out, x)
      OBVIOUS
    <3>6. \A i \in 1 .. Len(out) : y[i] = out[i]
      BY <3>3, <3>5
    <3>7. out \in Seq(SentPackets) /\ Passed(s, out, n) /\ n <= n
      BY <2>6, <3>1, FlyingFacts
    <3>8. Passed(s, y, n)
      BY <3>1, <3>6, <3>7, PassedMore
    <3> QED BY <2>4, <3>4, <3>5, <3>8
  <2> QED BY <1>1, <2>5, <2>6, FlightSame, Zenon
<1>3. CASE \E sent \in BOOLEAN : /\ rtx_queue # <<>> /\ rtx_queue' = Tail(rtx_queue)
                                 /\ UNCHANGED out /\ SentRtx(Head(rtx_queue), sent)
  <2>1. PICK o, t : /\ o \in {"sent", "aborted"} /\ t = [op |-> o, seq |-> Head(rtx_queue).osn]
                    /\ PostHistory(t)
    BY <1>3 DEF SentRtx
  <2>2. Head(rtx_queue).osn \in Seqs
    <3>1. Head(rtx_queue) \in RtxPackets(Seqs)
      BY <1>3, FlyingFacts
    <3> QED BY <3>1 DEF RtxPackets
  <2>3. t \in HistoryTasks /\ t.op \in {"sent", "aborted"} /\ t.seq = Head(rtx_queue).osn
    BY <2>1, <2>2, IsHistoryTask
  <2>4. history_tasks' = Append(history_tasks, t)
    BY <2>1, FlyingFacts DEF PostHistory
  <2>5. ASSUME NEW s \in Seqs
        PROVE  Flight(s, pacer_tasks', rtx_queue', history_tasks')
                 = Flight(s, pacer_tasks, rtx_queue, history_tasks)
    <3>1. /\ history_tasks \in Seq(HistoryTasks) /\ pacer_tasks \in Seq(PacerTask)
          /\ rtx_queue \in Seq(RtxPackets(Seqs)) /\ rtx_queue # <<>>
      BY <1>3, FlyingFacts
    <3>2. Flight(s, pacer_tasks, Tail(rtx_queue), Append(history_tasks, t))
            = Flight(s, pacer_tasks, rtx_queue, history_tasks)
      BY <2>3, <3>1, FlightLeaves
    <3> QED BY <1>1, <1>3, <2>4, <3>2
  <2>6. Count(history_tasks', 1, Puts) = Count(history_tasks, 1, Puts)
    <3>1. t \notin Puts
      BY <2>3, HistoryTaskIs
    <3> QED BY <2>3, <2>4, <3>1, FlyingFacts, CountPosted, Zenon
  <2>7. \A s \in Seqs : Passed(s, out, Len(out) - Count(history_tasks, 1, Puts)) =>
                        Passed(s, out', Len(out') - Count(history_tasks', 1, Puts))
    BY <1>3, <2>6, Zenon
  <2> QED BY <1>1, <2>5, <2>7, FlightSame, Zenon
<1> QED BY <1>2, <1>3 DEF SendPacket, PopIsMedia, SentMedia

LEMMA PaddingFlies ==
    ASSUME Flying, IInv', SendPadding
    PROVE  FlightInv'
<1>1. UNCHANGED <<rtx_enabled, packet_history, pacer_tasks, rtx_queue, history_tasks>> /\ ~rtx_enabled
    BY DEF SendPadding, history_vars
<1>2. \A s \in Seqs : Flight(s, pacer_tasks', rtx_queue', history_tasks')
                        = Flight(s, pacer_tasks, rtx_queue, history_tasks)
    BY <1>1, Zenon
<1> QED BY <1>1, <1>2, FlightSame, Zenon

\* A task is posted to the history that is no outcome and no packet.
LEMMA PostFlies ==
    ASSUME Flying, IInv', UNCHANGED <<rtx_enabled, packet_history, pacer_tasks, rtx_queue, out>>,
           NEW t \in HistoryTasks, t.op \in {"nacks", "rtt"},
           history_tasks' = history_tasks \/ history_tasks' = Append(history_tasks, t)
    PROVE  FlightInv'
<1>1. CASE history_tasks' = history_tasks
    BY <1>1, FlightUnchanged
<1>2. CASE history_tasks' = Append(history_tasks, t)
  <2>1. t \notin Puts /\ t.op \notin {"sent", "aborted"}
    BY HistoryTaskIs
  <2>2. Count(history_tasks', 1, Puts) = Count(history_tasks, 1, Puts)
    BY <1>2, <2>1, FlyingFacts, CountPosted, Zenon
  <2>3. \A s \in Seqs : Flight(s, pacer_tasks', rtx_queue', history_tasks')
                          = Flight(s, pacer_tasks, rtx_queue, history_tasks)
    <3>1. \A s \in Seqs : Flight(s, pacer_tasks, rtx_queue, Append(history_tasks, t))
                            = Flight(s, pacer_tasks, rtx_queue, history_tasks)
      <4>1. history_tasks \in Seq(HistoryTasks)
        BY FlyingFacts
      <4> QED BY <2>1, <4>1, FlightPosts
    <3> QED BY <1>2, <3>1, Zenon
  <2>4. \A s \in Seqs : Passed(s, out, Len(out) - Count(history_tasks, 1, Puts)) =>
                        Passed(s, out', Len(out') - Count(history_tasks', 1, Puts))
    BY <2>2, Zenon
  <2> QED BY <2>3, <2>4, FlightSame, Zenon
<1> QED BY <1>1, <1>2

LEMMA TaskFlies ==
    ASSUME Flying, IInv', HistoryTask \/ ProcessPendingNacks
    PROVE  FlightInv'
<1>1. PICK t : t = Head(history_tasks)
    OBVIOUS
<1>2. /\ UNCHANGED <<rtx_enabled, pacer_tasks, rtx_queue, out>>
      /\ history_tasks # <<>> /\ history_tasks' = Tail(history_tasks)
    BY DEF HistoryTask, ProcessPendingNacks, pacer_vars
<1>3. /\ t \in HistoryTasks /\ Tail(history_tasks) \in Seq(HistoryTasks)
      /\ Count(history_tasks, 1, Puts) = Count(Tail(history_tasks), 1, Puts)
                                         + IF t \in Puts THEN 1 ELSE 0
      /\ Count(Tail(history_tasks), 1, Puts) \in Nat
    BY <1>1, <1>2, FlyingFacts, CountTaken
<1>4. PICK h, g, p, r, q, o : /\ h = packet_history /\ g = packet_history' /\ p = pacer_tasks
                              /\ r = rtx_queue /\ q = history_tasks /\ o = out
    OBVIOUS
<1>5. /\ FlightOK(h, p, r, q, o, rtx_enabled) /\ p \in Seq(PacerTask) /\ r \in Seq(RtxPackets(Seqs))
      /\ q \in Seq(HistoryTasks) /\ q # <<>> /\ t = Head(q) /\ o \in Seq(SentPackets)
      /\ h \in Seq(Slots) /\ Deque(h) /\ Len(h) <= kMaxCapacity /\ Len(o) <= SeqSpan
      /\ rtx_enabled \in BOOLEAN
    BY <1>1, <1>2, <1>4, FlyingFacts
<1>6. Numbered(o, ssrc_seq) /\ (rtx_enabled => Queued(q, o))
  <2>1. HistoryOK(h, q, o, ssrc_seq, rtx_enabled /\ ~history_shutdown)
    BY <1>4, FlyingFacts, Pieces, HistoryFacts
  <2> QED BY <2>1, FlyingFacts DEF HistoryOK, TailOf
<1>7. SUFFICES FlightOK(g, p, r, Tail(q), o, rtx_enabled)
  <2>1. FlightOK(packet_history', pacer_tasks', rtx_queue', history_tasks', out', rtx_enabled')
    BY <1>2, <1>4, <1>7
  <2> QED BY <2>1, FlightStep
<1>8. CASE t.op = "put" /\ g \in PutRtpPacket(h, t.seq, t.pkt)
  <2>1. t \in Puts
    BY <1>3, <1>8, HistoryTaskIs
  <2> QED BY <1>5, <1>6, <1>8, <2>1, FlightPut, Zenon
<1>9. CASE /\ t.op \in {"sent", "aborted"}
           /\ g = MarkPacketAsSent(h, t.seq) \/ g = MarkPacketAsAborted(h, t.seq)
  <2>1. t.seq \in Seqs
    BY <1>3, <1>9, HistoryTaskIs
  <2>2. Marks(h, g, t.seq, GetStoredPacket(h, t.seq))
    BY <1>5, <1>9, <2>1, MarksAre
  <2> QED BY <1>5, <1>9, <2>2, FlightMarks, Zenon
<1>10. CASE t.op \in {"rtt", "nacks"} /\ (g = h \/ g \in RemoveDeadPackets(h))
  <2>1. t \notin Puts /\ ~(t.op \in {"sent", "aborted"})
    BY <1>3, <1>10, HistoryTaskIs
  <2>2. g \in Seq(Slots) /\ Within(g, h)
    <3>1. CASE g = h
      BY <1>5, <3>1, WithinSame
    <3>2. CASE g \in RemoveDeadPackets(h)
      BY <1>5, <3>2, CullDeque DEF Deque
    <3> QED BY <1>10, <3>1, <3>2
  <2>3. \A s \in Seqs : Flight(s, p, r, Tail(q)) = Flight(s, p, r, q)
    BY <1>5, <2>1, FlightEnds, Zenon
  <2>4. Count(Tail(q), 1, Puts) = Count(q, 1, Puts)
    BY <1>3, <1>4, <2>1
  <2>5. \A s \in Seqs : Passed(s, o, Len(o) - Count(q, 1, Puts)) =>
                        Passed(s, o, Len(o) - Count(Tail(q), 1, Puts))
    BY <2>4, Zenon
  <2> QED BY <1>5, <2>2, <2>3, <2>5, FlightKept, Zenon
<1> QED BY <1>1, <1>4, <1>8, <1>9, <1>10 DEF HistoryTask, ProcessPendingNacks

LEMMA ResendFlies ==
    ASSUME Flying, IInv', ReSendPacket
    PROVE  FlightInv'
<1>1. UNCHANGED <<rtx_enabled, rtx_queue, history_tasks, out>>
    BY DEF ReSendPacket
<1>2. CASE UNCHANGED <<packet_history, pacer_tasks>>
    BY <1>1, <1>2, FlightUnchanged
<1>3. CASE \E i, x, t : Resends(i, x, t)
  <2>1. PICK i, x, t : Resends(i, x, t)
    BY <1>3
  <2>2. PICK h, g : h = packet_history /\ g = packet_history'
    OBVIOUS
  <2>3. /\ Changed(h, g, i, x) /\ ~h[i].pending /\ x.pending = TRUE
        /\ t = [op |-> "rtx", osn |-> h[i].seq, pkt |-> h[i].pkt]
        /\ pacer_tasks' = Append(pacer_tasks, t)
    BY <2>1, <2>2, Zenon DEF Resends, Flying
  <2>4. /\ FlightOK(h, pacer_tasks, rtx_queue, history_tasks, out, rtx_enabled)
        /\ pacer_tasks \in Seq(PacerTask) /\ rtx_queue \in Seq(RtxPackets(Seqs))
        /\ history_tasks \in Seq(HistoryTasks) /\ Deque(h) /\ Len(h) <= kMaxCapacity
        /\ h \in Seq(Slots) /\ Len(h) \in Nat
    BY <2>2, FlyingFacts
  <2>5. i \in 1 .. Len(h) /\ h[i] # Hole
    BY <2>3 DEF Changed
  <2>6. t \in PacerTask /\ t \notin FrameTasks /\ t.osn = h[i].seq
    <3>1. h[i].seq \in Seqs /\ h[i].pkt \in VideoPackets
      BY <2>4, <2>5, SlotIs
    <3>2. t \in RtxTasks(Seqs) /\ t.op = "rtx"
      BY <2>3, <3>1 DEF RtxTasks
    <3> QED BY <2>3, <3>2 DEF PacerTask, FrameTasks
  <2>7. rtx_enabled
    BY FlyingFacts, Pieces DEF NackInv, ReSendPacket
  <2>8. Passed(h[i].seq, out, Len(out) - Count(history_tasks, 1, Puts))
    <3>1. PICK n \in Int : n = Len(out) - Count(history_tasks, 1, Puts)
      BY PutsWithin
    <3>2. Holds(h, out, n)
      <4>1. HistoryOK(h, history_tasks, out, ssrc_seq, rtx_enabled /\ ~history_shutdown)
        BY <2>2, FlyingFacts, Pieces, HistoryFacts
      <4> QED BY <2>7, <3>1, <4>1, FlyingFacts DEF HistoryOK, TailOf
    <3>3. PICK L \in Nat : L = Len(h) /\ L <= n
      BY <2>4, <3>2 DEF Holds
    <3>4. PICK k \in Int : k = (n - L) + i
      BY <2>5, <3>3
    <3>5. k \in 1 .. n
      BY <2>5, <3>3, <3>4
    <3>6. h[i].seq = out[k].seq
      BY <2>5, <3>2, <3>3, <3>4, Zenon DEF Holds, Same
    <3> QED BY <3>1, <3>5, <3>6 DEF Passed
  <2>9. FlightOK(g, Append(pacer_tasks, t), rtx_queue, history_tasks, out, rtx_enabled)
    BY <2>3, <2>4, <2>6, <2>7, <2>8, FlightResends, Zenon
  <2>10. FlightOK(packet_history', pacer_tasks', rtx_queue', history_tasks', out', rtx_enabled')
    BY <1>1, <2>2, <2>3, <2>9
  <2> QED BY <2>10, FlightStep
<1> QED BY <1>2, <1>3, FlyingFacts, ReSendIs

LEMMA FlightStarts == Init => FlightInv
<1> SUFFICES ASSUME Init PROVE FlightInv
    OBVIOUS
<1> USE DEF Init
<1>1. Len(<<>>) \in Nat /\ 1 \in Nat /\ 1 > Len(<<>>) /\ DOMAIN <<>> = {}
    OBVIOUS
<1>2. \A S : Count(<<>>, 1, S) = 0
    BY <1>1, CountEnd
<1>3. \A s : InFlight(s) = 0
    BY <1>2 DEF InFlight
<1>4. PendingIsInFlight
    BY <1>1 DEF PendingIsInFlight
<1> QED BY <1>3, <1>4, Zenon DEF FlightInv

\* Only the pacer numbers packets, and it does not start again.
LEMMA OutGrows ==
    ASSUME IInv, IInv', [Next]_vars
    PROVE  (pacer_shutdown => pacer_shutdown') /\ Len(out) <= Len(out')
<1>1. out \in Seq(SentPackets) /\ pacer_shutdown \in BOOLEAN
    BY Pieces DEF ShutdownInv
<1>2. pacer_shutdown => pacer_shutdown'
    BY <1>1 DEF Next, EncodeThread, PacerThread, HistoryThread, DestroyThread, SendVideo,
        FullIntraRequest, EncodeTaskStarts, EncodeTaskGivesUp, EncodeTask, EnqueuePacketsOnQueue,
        SendPacket, SendPadding, HistoryTask, ProcessPendingNacks, ReSendPacket,
        FinishPendingNacks, OnReceiveNack, OnReceiveNackPosts, OnRttUpdate, DestroyBegins,
        DestroyDetaches, ChannelShutsDown, ChannelStops, ChannelJoined, Done, vars, destroy_vars
<1>3. UNCHANGED out \/ \E x : out' = Append(out, x)
    BY Zenon DEF Next, EncodeThread, PacerThread, HistoryThread, DestroyThread, SendVideo,
        FullIntraRequest, EncodeTaskStarts, EncodeTaskGivesUp, EncodeTask, EnqueuePacketsOnQueue,
        SendPacket, SendPadding, HistoryTask, ProcessPendingNacks, ReSendPacket,
        FinishPendingNacks, OnReceiveNack, OnReceiveNackPosts, OnRttUpdate, DestroyBegins,
        DestroyDetaches, ChannelShutsDown, ChannelStops, ChannelJoined, Done, vars, pacer_vars
<1>4. Len(out) <= Len(out')
  <2>1. \A x : Len(Append(out, x)) = Len(out) + 1
    BY <1>1
  <2> QED BY <1>1, <1>3, <2>1
<1> QED BY <1>2, <1>4

LEMMA FlightSteps ==
    ASSUME IInv, IInv', FlightInv, [Next]_vars
    PROVE  FlightInv'
<1>1. CASE pacer_shutdown' \/ ~(Len(out') <= SeqSpan)
    BY <1>1, Zenon DEF FlightInv
<1>2. CASE ~pacer_shutdown' /\ Len(out') <= SeqSpan
  <2>1. Flying
    <3>1. ~pacer_shutdown
      BY <1>2, OutGrows
    <3>2. Len(out) \in Nat /\ Len(out') \in Nat
      BY DEF IInv, PacerTypes
    <3>3. Len(out) <= SeqSpan
      BY <1>2, <3>2, OutGrows, Span
    <3> QED BY <3>1, <3>3 DEF Flying
  <2>2. ASSUME NEW t, t = [op |-> "nacks"] \/ t = [op |-> "rtt"]
        PROVE  t \in HistoryTasks /\ t.op \in {"nacks", "rtt"}
    BY <2>2, IsHistoryTask
  <2>3. CASE \/ UNCHANGED vars \/ SendVideo \/ FullIntraRequest \/ EncodeTaskStarts
             \/ EncodeTaskGivesUp \/ OnReceiveNack \/ DestroyBegins \/ DestroyDetaches
             \/ ChannelShutsDown \/ ChannelJoined \/ Done
    <3>1. UNCHANGED <<rtx_enabled, packet_history, pacer_tasks, rtx_queue, history_tasks, out>>
      BY <2>3 DEF vars, SendVideo, FullIntraRequest, EncodeTaskStarts, EncodeTaskGivesUp,
          OnReceiveNack, DestroyBegins, DestroyDetaches, ChannelShutsDown, ChannelJoined, Done,
          pacer_vars, history_vars
    <3> QED BY <2>1, <3>1, FlightUnchanged
  <2>4. CASE EncodeTask
    BY <2>1, <2>4, EncodeFlies
  <2>5. CASE EnqueuePacketsOnQueue
    BY <2>1, <2>5, EnqueueFlies
  <2>6. CASE SendPacket
    BY <2>1, <2>6, SendFlies
  <2>7. CASE SendPadding
    BY <2>1, <2>7, PaddingFlies
  <2>8. CASE HistoryTask \/ ProcessPendingNacks
    BY <2>1, <2>8, TaskFlies
  <2>9. CASE ReSendPacket
    BY <2>1, <2>9, ResendFlies
  <2>10. CASE FinishPendingNacks \/ OnReceiveNackPosts \/ OnRttUpdate
    <3>1. UNCHANGED <<rtx_enabled, packet_history, pacer_tasks, rtx_queue, out>>
      BY <2>10 DEF FinishPendingNacks, OnReceiveNackPosts, OnRttUpdate, pacer_vars, history_vars
    <3>2. PICK t : /\ t = [op |-> "nacks"] \/ t = [op |-> "rtt"]
                   /\ history_tasks' = history_tasks \/ history_tasks' = Append(history_tasks, t)
      BY <2>10 DEF FinishPendingNacks, OnReceiveNackPosts, OnRttUpdate, NacksDone, PostHistory
    <3> QED BY <2>1, <2>2, <3>1, <3>2, PostFlies
  <2>11. CASE ChannelStops
    <3>1. history_shutdown
      BY <2>11 DEF ChannelStops
    <3> QED BY <2>1, <3>1, FlyingFacts
  <2> QED BY <2>3, <2>4, <2>5, <2>6, <2>7, <2>8, <2>9, <2>10, <2>11
          DEF Next, EncodeThread, PacerThread, HistoryThread, DestroyThread
<1> QED BY <1>1, <1>2
-----------------------------------------------------------------------------
(* Theorems                                                                  *)

LEMMA Typed ==
    ASSUME IInv
    PROVE  TypeOK
<1>1. {rtx_enabled, b_force_i_frame, force_i_frame, idr, in_nack_task,
       nack_task_scheduled, nack_post, pacer_shutdown, history_shutdown,
       history_stopped} \subseteq BOOLEAN
  <2>1. b_force_i_frame \in BOOLEAN /\ force_i_frame \in BOOLEAN /\ idr \in BOOLEAN
    BY Pieces, Zenon DEF CaptureInv
  <2>2. /\ rtx_enabled \in BOOLEAN /\ pacer_shutdown \in BOOLEAN
        /\ history_shutdown \in BOOLEAN /\ history_stopped \in BOOLEAN
    BY Pieces, Zenon DEF ShutdownInv
  <2>3. in_nack_task \in BOOLEAN /\ nack_task_scheduled \in BOOLEAN /\ nack_post \in BOOLEAN
    BY Pieces, Zenon DEF NackInv
  <2> QED BY <2>1, <2>2, <2>3, Zenon
<1>2. /\ encode_queue \in Seq(BOOLEAN) /\ Len(encode_queue) <= 1
      /\ encoding \in Seq(BOOLEAN) /\ Len(encoding) <= 1
      /\ captured \in 0 .. MaxFrames /\ firs \in 0 .. MaxFirs /\ owed \in Places
    BY Pieces DEF CaptureInv
<1>3. frame \in 0 .. captured
  <2>1. /\ Len(encode_queue) \in Nat /\ Len(encoding) \in Nat /\ captured \in Int /\ frame \in Nat
        /\ frame + Len(encode_queue) + Len(encoding) <= captured
    BY Pieces DEF CaptureInv
  <2> QED BY <2>1
<1>4. packet_history \in Seq(Slots) /\ Len(packet_history) <= kMaxCapacity
    BY Pieces DEF HistoryInv, Deque
<1>5. /\ batch \subseteq Seqs /\ Cardinality(batch) <= kMaxNacksPerTask
      /\ pending_nacks \subseteq Seqs /\ Cardinality(pending_nacks) <= kMaxCapacity
      /\ nacks \in 0 .. MaxNacks
    BY Pieces, Zenon DEF NackInv
<1>6. destroy \in {"no", "joining", "detached", "done"}
    BY Pieces, Zenon DEF ShutdownInv
<1>7. /\ pacer_tasks \in Seq(FrameTasks \cup RtxTasks(Seqs))
      /\ video_queue \in Seq(VideoPackets) /\ rtx_queue \in Seq(RtxPackets(Seqs))
      /\ ssrc_seq \in Seqs /\ out \in Seq(SentPackets)
    BY Pieces, Zenon DEF PacerTypes
<1>8. history_tasks \in Seq(HistoryTasks) /\ faults \in 0 .. MaxFaults
    BY Pieces
<1> QED BY <1>1, <1>2, <1>3, <1>4, <1>5, <1>6, <1>7, <1>8, Zenon DEF TypeOK

\* What an invariant state of the sender promises.
LEMMA Promises ==
    ASSUME IInv
    PROVE  TypeOK /\ HistoryAligned /\ HistoryIsTailOfOut /\ NacksHaveTask
           /\ KeyRequestIsHeld /\ SkipsOnlyToKeyFrames
<1>1. HistoryAligned
  <2>1. Aligned(packet_history)
    BY Pieces DEF HistoryInv, Deque
  <2> QED BY <2>1, Zenon DEF Aligned, HistoryAligned
<1>2. HistoryIsTailOfOut /\ NacksHaveTask /\ KeyRequestIsHeld
    BY Pieces, Zenon DEF HistoryInv, NackInv, CaptureInv
<1>3. SkipsOnlyToKeyFrames
  <2>1. \A m, n \in 1 .. Len(Stream) : Adjacent(Stream, m, n) => Follows(Stream[m], Stream[n])
    BY Pieces, Zenon DEF StreamInv, StreamOK
  <2>2. DOMAIN Stream = 1 .. Len(Stream)
    <3>1. PICK L \in Nat : L = Len(out) /\ DOMAIN out = 1 .. L
      BY Pieces
    <3>2. \A i \in 1 .. L : out[i] \in SentPackets
      BY <3>1, Pieces
    <3>3. \A i \in 1 .. L : out[i].pkt \in VideoPackets
      BY <3>2 DEF SentPackets
    <3>4. [i \in DOMAIN out |-> out[i].pkt] \in Seq(VideoPackets)
      BY <3>1, <3>3
    <3>5. Stream \in Seq(VideoPackets)
      BY <3>4, Pieces DEF Stream
    <3> QED BY <3>5
  <2> SUFFICES ASSUME NEW m \in DOMAIN Stream, NEW n \in DOMAIN Stream, m < n,
                      Stream[m].f # 0, Stream[n].f # 0,
                      \A k \in m + 1 .. n - 1 : Stream[k].f = 0
               PROVE  \/ Stream[n].f = Stream[m].f /\ Stream[n].i = Stream[m].i + 1
                      \/ Stream[n].i = 1 /\ Stream[n].f = Stream[m].f + 1 /\ Stream[m].i = PktsPerFrame
                      \/ /\ Stream[n].i = 1 /\ Stream[n].f > Stream[m].f /\ Stream[n].key
                         /\ Stream[m].key => Stream[m].i = PktsPerFrame
    BY Zenon DEF SkipsOnlyToKeyFrames
  <2>3. Follows(Stream[m], Stream[n])
    BY <2>1, <2>2, Zenon DEF Adjacent
  <2> QED BY <2>3, Zenon DEF Follows
<1> QED BY <1>1, <1>2, <1>3, Typed

\* The inductive invariant of the sender holds in every reachable state: the
\* types and bounds, the order of frames and packets on the way from the
\* encoder to the wire, the alignment of the packet history with what was
\* numbered, and the task behind every pending NACK.
THEOREM Invariance == Spec => []IInv
<1>1. Init => IInv
    BY Starts
<1>2. IInv /\ [Next]_vars => IInv'
    BY Steps
<1> QED BY <1>1, <1>2, PTL DEF Spec

\* The newest FIR is where its progress says: in force_i_frame_streams_ until a
\* frame is admitted or again after a failed ForceIdr, then with that frame in
\* the encode queue and the encoder, then in the encoder's own mark.  Frames
\* before it, and their failures, never take it along.  It is lost only with
\* the frame that carries it, when that cannot be converted or the encoder
\* yields nothing and forgets (IceTransportController::SendVideo,
\* FullIntraRequest).
THEOREM KeyRequestsAreHeld == Spec => []KeyRequestIsHeld
<1>1. IInv => KeyRequestIsHeld
    BY Promises
<1> QED BY <1>1, Invariance, PTL

\* Whatever the pacer flushes, and however padding, sends and key frames
\* interleave, packets leave in the encoder's order, and are skipped only up
\* to a key frame and never inside one (PacketQueue's keyframe_flushing).
THEOREM SkipsReachKeyFrames == Spec => []SkipsOnlyToKeyFrames
<1>1. IInv => SkipsOnlyToKeyFrames
    BY Promises
<1> QED BY <1>1, Invariance, PTL

\* For any number of packets, over any number of wraps of the sequence number:
\* the deque of RtpPacketHistory stays aligned and within its capacity, it is
\* an unbroken tail of what was numbered, and nack_task_scheduled_ stands for
\* exactly one task.
THEOREM HistoryIsRight == Spec => [](TypeOK /\ HistoryAligned /\ HistoryIsTailOfOut /\ NacksHaveTask)
<1>1. IInv => TypeOK /\ HistoryAligned /\ HistoryIsTailOfOut /\ NacksHaveTask
    BY Promises
<1> QED BY <1>1, Invariance, PTL

\* As long as no sequence number was used twice, all of repair is sound: the
\* pending mark of a stored packet stands for exactly one retransmission that
\* is in the pacer or whose outcome is queued.  (Pacing is left open, so a
\* retransmission may wait while the numbers wrap, and then meet another
\* packet of its number: beyond the first span the mark is not claimed.)
THEOREM RepairSound == Spec => [](Len(out) <= SeqSpan => RepairIsSound)
<1>1. Init => IInv /\ FlightInv
    BY Starts, FlightStarts
<1>2. IInv /\ FlightInv /\ [Next]_vars => (IInv /\ FlightInv)'
    BY Steps, FlightSteps
<1>3. IInv /\ FlightInv => (Len(out) <= SeqSpan => RepairIsSound)
  <2> SUFFICES ASSUME IInv, FlightInv, Len(out) <= SeqSpan PROVE RepairIsSound
    OBVIOUS
  <2>1. PendingIsInFlight
    BY Zenon DEF FlightInv, PendingIsInFlight
  <2> QED BY <2>1, Promises DEF RepairIsSound
<1> QED BY <1>1, <1>2, <1>3, PTL DEF Spec
=============================================================================
