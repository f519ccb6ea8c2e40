-------------------------- MODULE SchedulingProofs --------------------------
(***************************************************************************)
(* Proofs about the two components that must not lose a wake-up.           *)
(*                                                                         *)
(* TaskQueueLockFree, for any number of producers, workers and posts: the  *)
(* worker decides to sleep by looking at pending_tasks_ and not at the     *)
(* queue, so the proof shows that under the mutex a counter that is not    *)
(* positive means an empty queue, and a worker that blocks leaves no task  *)
(* behind.                                                                 *)
(*                                                                         *)
(* PacedSender, for all thresholds, rates and bounds: the pacer re-arms    *)
(* its own timer, so the proof shows that whenever it leaves its loop the  *)
(* timer, added to the age of the last packet and of the oldest cluster,   *)
(* is within their limits, and that the clock moves all of them together.  *)
(* The age the code keeps is then shown to bound what the peer sees, the   *)
(* silence on the wire, wherever a keep-alive has a packet to send.        *)
(***************************************************************************)
EXTENDS TaskQueueLockFree, PacedSender, FiniteSetTheorems, SequenceTheorems,
        WellFoundedInduction, TLAPS

\* Who is inside the critical section.
MutexHeld ==
    /\ \A p \in Producers :
          ppc[p] \in {"locked", "accepted", "enqueued"} => mutex = p
    /\ \A w \in Workers : wpc[w] \in {"check", "block"} => mutex = w

\* Every stream holds increasing task numbers, none above the last one posted,
\* and below it while that task has not been enqueued.
StreamsOrdered ==
    \A p \in Producers :
        /\ ppc[p] # "idle" => posted[p] >= 1
        /\ \A i \in DOMAIN task_queue[p] :
              /\ task_queue[p][i] <= posted[p]
              /\ ppc[p] \in {"locked", "accepted"} => task_queue[p][i] < posted[p]
        /\ \A i, j \in DOMAIN task_queue[p] :
              i < j => task_queue[p][i] < task_queue[p][j]

WorkersHoldItems ==
    \A w \in Workers : wpc[w] \in {"decrement", "run"} => item[w] \in Tasks

BlocksOnEmptyQueue == \A w \in Workers : wpc[w] = "block" => Queued = {}

IInv ==
    /\ TypeOK
    /\ MutexHeld
    /\ StreamsOrdered
    /\ WorkersHoldItems
    /\ PendingCountsQueue
    /\ BlocksOnEmptyQueue
    /\ NoTaskBehindSleepingWorkers

-----------------------------------------------------------------------------
(* What the two halves of a post and of a dequeue do to the three sets the  *)
(* counter is compared with.                                                *)

LEMMA CountedSetsFinite ==
    /\ IsFiniteSet(Queued) /\ IsFiniteSet(Decrementing) /\ IsFiniteSet(Enqueued)
    /\ Cardinality(Queued) \in Nat
    /\ Cardinality(Decrementing) \in Nat
    /\ Cardinality(Enqueued) \in Nat
  <1>1. IsFiniteSet(1..MaxPosts)
    BY FS_Interval, MaxPostsAssumption
  <1>2. IsFiniteSet(Tasks)
    BY <1>1, FS_Product, ThreadsAssumption DEF Tasks
  <1>3. IsFiniteSet(Queued) /\ IsFiniteSet(Decrementing) /\ IsFiniteSet(Enqueued)
    <2>1. Queued \subseteq Tasks
      BY DEF Queued
    <2>2. Decrementing \subseteq Workers /\ Enqueued \subseteq Producers
      BY DEF Decrementing, Enqueued
    <2> QED
      BY <1>2, <2>1, <2>2, FS_Subset, ThreadsAssumption
  <1> QED
    BY <1>3, FS_CardinalityType

LEMMA Increment ==
    ASSUME NEW S, NEW x, x \notin S, IsFiniteSet(S)
    PROVE  Cardinality(S \cup {x}) = Cardinality(S) + 1
  BY FS_AddElement

LEMMA Decrement ==
    ASSUME NEW S, NEW x \in S, IsFiniteSet(S)
    PROVE  Cardinality(S \ {x}) = Cardinality(S) - 1
  BY FS_RemoveElement

\* Membership in Queued, stream by stream.
StreamMembership ==
    \A p \in Producers, n \in 1..MaxPosts :
        <<p, n>> \in Queued <=>
            \E i \in 1..Len(task_queue[p]) : task_queue[p][i] = n

LEMMA QueuedMember == TypeOK => StreamMembership
  <1> SUFFICES ASSUME TypeOK, NEW p \in Producers, NEW n \in 1..MaxPosts
               PROVE  <<p, n>> \in Queued <=>
                        \E i \in 1..Len(task_queue[p]) : task_queue[p][i] = n
    BY DEF StreamMembership
  <1>1. task_queue[p] \in Seq(1..MaxPosts)
    BY DEF TypeOK
  <1>2. DOMAIN task_queue[p] = 1..Len(task_queue[p])
    BY <1>1
  <1>3. <<p, n>> \in Tasks /\ <<p, n>>[1] = p /\ <<p, n>>[2] = n
    BY DEF Tasks
  <1> QED
    BY <1>2, <1>3 DEF Queued

\* An enqueue adds exactly the new task.
LEMMA EnqueueAdds ==
    ASSUME TypeOK, TypeOK', StreamsOrdered, NEW p \in Producers, PostEnqueue(p)
    PROVE  /\ <<p, posted[p]>> \notin Queued
           /\ Queued' = Queued \cup {<<p, posted[p]>>}
  <1> DEFINE q == task_queue[p]
             m == posted[p]
  <1>m. StreamMembership /\ StreamMembership'
    BY QueuedMember, PTL
  <1>1. m \in 1..MaxPosts /\ q \in Seq(1..MaxPosts)
    BY MaxPostsAssumption DEF TypeOK, StreamsOrdered, PostEnqueue
  <1>2. \A i \in 1..Len(q) : q[i] < m
    <2>1. DOMAIN q = 1..Len(q)
      BY <1>1
    <2> QED
      BY <2>1 DEF StreamsOrdered, PostEnqueue
  <1>3. <<p, m>> \notin Queued
    BY <1>1, <1>2, <1>m DEF StreamMembership
  <1>4. /\ task_queue'[p] = Append(q, m)
        /\ \A r \in Producers : r # p => task_queue'[r] = task_queue[r]
    BY DEF PostEnqueue, TypeOK
  <1>5. ASSUME NEW r \in Producers, NEW n \in 1..MaxPosts
        PROVE  <<r, n>> \in Queued' <=>
                 (<<r, n>> \in Queued \/ <<r, n>> = <<p, m>>)
    <2>1. <<r, n>> \in Queued' <=>
            \E i \in 1..Len(task_queue'[r]) : task_queue'[r][i] = n
      BY <1>m DEF StreamMembership
    <2>2. <<r, n>> \in Queued <=>
            \E i \in 1..Len(task_queue[r]) : task_queue[r][i] = n
      BY <1>m DEF StreamMembership
    <2>3. CASE r # p
      BY <2>1, <2>2, <2>3, <1>4
    <2>4. CASE r = p
      <3>1. (\E i \in 1..Len(Append(q, m)) : Append(q, m)[i] = n)
              <=> ((\E i \in 1..Len(q) : q[i] = n) \/ n = m)
        BY <1>1
      <3> QED
        BY <2>1, <2>2, <2>4, <3>1, <1>4
    <2> QED
      BY <2>3, <2>4
  <1>6. Queued \subseteq Tasks /\ Queued' \subseteq Tasks
    BY DEF Queued, Tasks
  <1>7. <<p, m>> \in Tasks
    BY <1>1 DEF Tasks
  <1> QED
    BY <1>3, <1>5, <1>6, <1>7 DEF Tasks

\* A dequeue removes exactly the task the worker now holds.
LEMMA DequeueRemoves ==
    ASSUME TypeOK, TypeOK', StreamsOrdered, NEW p \in Producers,
           task_queue[p] # <<>>,
           task_queue' = [task_queue EXCEPT ![p] = Tail(@)]
    PROVE  /\ <<p, Head(task_queue[p])>> \in Queued
           /\ Queued' = Queued \ {<<p, Head(task_queue[p])>>}
  <1> DEFINE q == task_queue[p]
             m == Head(q)
  <1>m. StreamMembership /\ StreamMembership'
    BY QueuedMember, PTL
  <1>0. q \in Seq(1..MaxPosts) /\ q # <<>>
    BY DEF TypeOK
  <1>1. /\ q \in Seq(1..MaxPosts) /\ Len(q) \in Nat /\ Len(q) >= 1
        /\ m = q[1] /\ m \in 1..MaxPosts /\ DOMAIN q = 1..Len(q)
    <2>1. Len(q) \in Nat /\ Len(q) >= 1 /\ DOMAIN q = 1..Len(q)
      BY <1>0, EmptySeq, LenProperties
    <2>2. m = q[1]
      BY <1>0, <2>1
    <2>3. m \in 1..MaxPosts
      BY <1>0, HeadTailProperties
    <2> QED
      BY <1>0, <2>1, <2>2, <2>3
  <1>2. \A i \in 2..Len(q) : q[1] < q[i] /\ q[i] \in 1..MaxPosts
    <2>1. \A i, j \in 1..Len(q) : i < j => q[i] < q[j]
      BY <1>1 DEF StreamsOrdered
    <2>2. \A i \in 1..Len(q) : q[i] \in 1..MaxPosts
      BY <1>1, ElementOfSeq
    <2> QED
      BY <1>1, <2>1, <2>2
  <1>3. <<p, m>> \in Queued
    BY <1>1, <1>m DEF StreamMembership
  <1>4. /\ task_queue'[p] = Tail(q)
        /\ \A r \in Producers : r # p => task_queue'[r] = task_queue[r]
    BY DEF TypeOK
  <1>5. ASSUME NEW r \in Producers, NEW n \in 1..MaxPosts
        PROVE  <<r, n>> \in Queued' <=>
                 (<<r, n>> \in Queued /\ <<r, n>> # <<p, m>>)
    <2>1. <<r, n>> \in Queued' <=>
            \E i \in 1..Len(task_queue'[r]) : task_queue'[r][i] = n
      BY <1>m DEF StreamMembership
    <2>2. <<r, n>> \in Queued <=>
            \E i \in 1..Len(task_queue[r]) : task_queue[r][i] = n
      BY <1>m DEF StreamMembership
    <2>3. CASE r # p
      BY <2>1, <2>2, <2>3, <1>4
    <2>4. CASE r = p
      <3>1. /\ Len(Tail(q)) = Len(q) - 1
            /\ \A i \in 1..(Len(q) - 1) : Tail(q)[i] = q[i + 1]
        BY <1>1
      <3>2. (\E i \in 1..(Len(q) - 1) : q[i + 1] = n)
              <=> (\E i \in 2..Len(q) : q[i] = n)
        <4>1. ASSUME NEW i \in 2..Len(q), q[i] = n
              PROVE  i - 1 \in 1..(Len(q) - 1) /\ q[(i - 1) + 1] = n
          BY <1>1, <4>1
        <4> QED
          BY <1>1, <4>1
      <3>3. (\E i \in 2..Len(q) : q[i] = n)
              <=> ((\E i \in 1..Len(q) : q[i] = n) /\ n # m)
        BY <1>1, <1>2
      <3>4. (\E i \in 1..Len(Tail(q)) : Tail(q)[i] = n)
              <=> (\E i \in 1..(Len(q) - 1) : q[i + 1] = n)
        BY <3>1
      <3> QED
        BY <2>1, <2>2, <2>4, <3>2, <3>3, <3>4, <1>4
    <2> QED
      BY <2>3, <2>4
  <1>6. Queued \subseteq Tasks /\ Queued' \subseteq Tasks
    BY DEF Queued, Tasks
  <1> QED
    BY <1>3, <1>5, <1>6 DEF Tasks

-----------------------------------------------------------------------------

LEMMA InitEstablishes == Init => IInv
  <1> SUFFICES ASSUME Init PROVE IInv
    OBVIOUS
  <1>1. TypeOK
    <2>1. <<>> \in Seq(Tasks) /\ <<>> \in Seq(1..MaxPosts)
      BY EmptySeq
    <2>2. posted \in [Producers -> 0..MaxPosts]
      BY MaxPostsAssumption DEF Init
    <2>3. task_queue \in [Producers -> Seq(1..MaxPosts)] /\ executed \in Seq(Tasks)
      BY <2>1 DEF Init
    <2>4. item \in [Workers -> Tasks \cup {NoTask}]
      BY DEF Init
    <2>5. /\ ppc \in [Producers -> {"idle", "locked", "accepted", "enqueued", "notify"}]
          /\ wpc \in [Workers -> {"dequeue", "decrement", "run", "lock", "check",
                                 "block", "waiting", "exited"}]
      BY DEF Init
    <2>6. mutex \in Threads \cup {Free} /\ stop_flag \in BOOLEAN
      BY DEF Init
    <2>7. pending \in Int
      BY DEF Init
    <2>8. spc \in {"running", "notify", "swap", "join", "stopped"}
      BY DEF Init
    <2> QED
      BY <2>2, <2>3, <2>4, <2>5, <2>6, <2>7, <2>8 DEF TypeOK
  <1>2. MutexHeld /\ StreamsOrdered /\ WorkersHoldItems
    BY DEF Init, MutexHeld, StreamsOrdered, WorkersHoldItems
  <1>3. Queued = {} /\ Decrementing = {} /\ Enqueued = {}
    BY DEF Init, Queued, Decrementing, Enqueued, Tasks
  <1>4. PendingCountsQueue
    BY <1>3, FS_EmptySet DEF Init, PendingCountsQueue
  <1> QED
    BY <1>1, <1>2, <1>3, <1>4
       DEF IInv, BlocksOnEmptyQueue, NoTaskBehindSleepingWorkers

\* The parts of the invariant that count nothing.
LEMMA StateStep ==
    ASSUME TypeOK, MutexHeld, StreamsOrdered, WorkersHoldItems, [Next]_vars
    PROVE  TypeOK' /\ MutexHeld' /\ StreamsOrdered' /\ WorkersHoldItems'
  <1> USE MaxPostsAssumption, ThreadsAssumption
      DEF TypeOK, MutexHeld, StreamsOrdered, WorkersHoldItems
  <1>1. CASE UNCHANGED vars
    BY <1>1 DEF vars
  <1>2. ASSUME NEW p \in Producers, PostLock(p)
        PROVE  TypeOK' /\ MutexHeld' /\ StreamsOrdered' /\ WorkersHoldItems'
    BY <1>2, SMTT(40) DEF PostLock, Threads
  <1>10. ASSUME NEW p \in Producers, PostCheckStop(p)
        PROVE  TypeOK' /\ MutexHeld' /\ StreamsOrdered' /\ WorkersHoldItems'
    <2>1. /\ ppc[p] = "locked"
          /\ \/ mutex' = Free /\ ppc' = [ppc EXCEPT ![p] = "idle"]
             \/ mutex' = mutex /\ ppc' = [ppc EXCEPT ![p] = "accepted"]
          /\ UNCHANGED <<stop_flag, pending, task_queue, posted, wpc, item, spc, executed>>
      BY <1>10, Zenon DEF PostCheckStop
    <2>2. TypeOK'
      BY <2>1
    <2>3. MutexHeld'
      BY <2>1 DEF Threads
    <2>4. StreamsOrdered'
      BY <2>1
    <2>5. WorkersHoldItems'
      BY <2>1
    <2> QED
      BY <2>2, <2>3, <2>4, <2>5
  <1>3. ASSUME NEW p \in Producers, PostEnqueue(p)
        PROVE  TypeOK' /\ MutexHeld' /\ StreamsOrdered' /\ WorkersHoldItems'
    BY <1>3, SMTT(40) DEF PostEnqueue, Threads
  <1>4. ASSUME NEW p \in Producers, PostCount(p)
        PROVE  TypeOK' /\ MutexHeld' /\ StreamsOrdered' /\ WorkersHoldItems'
    BY <1>4, SMTT(40) DEF PostCount, Threads
  <1>5. ASSUME NEW p \in Producers, PostNotify(p)
        PROVE  TypeOK' /\ MutexHeld' /\ StreamsOrdered' /\ WorkersHoldItems'
    BY <1>5 DEF PostNotify, Waiting, Threads
  <1>6. ASSUME NEW w \in Workers, WorkerDequeue(w)
        PROVE  TypeOK' /\ MutexHeld' /\ StreamsOrdered' /\ WorkersHoldItems'
    <2> PICK p \in Producers :
            /\ task_queue[p] # <<>>
            /\ item' = [item EXCEPT ![w] = <<p, Head(task_queue[p])>>]
            /\ task_queue' = [task_queue EXCEPT ![p] = Tail(@)]
      BY <1>6 DEF WorkerDequeue
    <2> DEFINE q == task_queue[p]
    <2>1. q \in Seq(1..MaxPosts) /\ q # <<>>
      OBVIOUS
    <2>2. Head(q) \in 1..MaxPosts /\ Tail(q) \in Seq(1..MaxPosts)
      BY <2>1, HeadTailProperties
    <2>3. TypeOK' /\ MutexHeld' /\ WorkersHoldItems'
      BY <1>6, <2>2 DEF WorkerDequeue, Threads, Tasks
    <2>4. /\ DOMAIN q = 1..Len(q) /\ DOMAIN Tail(q) = 1..(Len(q) - 1)
          /\ Len(q) \in Nat
          /\ \A i \in 1..(Len(q) - 1) : Tail(q)[i] = q[i + 1] /\ i + 1 \in 1..Len(q)
      BY <2>1, <2>2, HeadTailProperties, LenProperties
    <2>5. StreamsOrdered'
      <3> SUFFICES ASSUME NEW r \in Producers
                   PROVE  /\ ppc[r] # "idle" => posted[r] >= 1
                          /\ \A i \in DOMAIN task_queue'[r] :
                               /\ task_queue'[r][i] <= posted[r]
                               /\ ppc[r] \in {"locked", "accepted"} =>
                                    task_queue'[r][i] < posted[r]
                          /\ \A i, j \in DOMAIN task_queue'[r] :
                               i < j => task_queue'[r][i] < task_queue'[r][j]
        BY <1>6 DEF WorkerDequeue
      <3>1. CASE r # p
        BY <3>1
      <3>2. CASE r = p
        <4>1. task_queue'[r] = Tail(q)
          BY <3>2
        <4>2. \A i \in 1..Len(q) : q[i] <= posted[p]
                 /\ (ppc[p] \in {"locked", "accepted"} => q[i] < posted[p])
          BY <2>4
        <4>3. \A i, j \in 1..Len(q) : i < j => q[i] < q[j]
          BY <2>4
        <4>4. \A i, j \in 1..(Len(q) - 1) : i < j => i + 1 < j + 1
          BY <2>4
        <4>5. ppc[p] # "idle" => posted[p] >= 1
          OBVIOUS
        <4> HIDE DEF q, TypeOK, StreamsOrdered, MutexHeld, WorkersHoldItems
        <4> QED
          BY <3>2, <4>1, <4>2, <4>3, <4>4, <4>5, <2>4
      <3> QED
        BY <3>1, <3>2
    <2> QED
      BY <2>3, <2>5
  <1>7a. ASSUME NEW w \in Workers, WorkerDecrement(w)
        PROVE  TypeOK' /\ MutexHeld' /\ StreamsOrdered' /\ WorkersHoldItems'
    BY <1>7a, SMTT(40) DEF WorkerDecrement, Threads
  <1>7b. ASSUME NEW w \in Workers, WorkerQueueEmpty(w)
        PROVE  TypeOK' /\ MutexHeld' /\ StreamsOrdered' /\ WorkersHoldItems'
    BY <1>7b, SMTT(40) DEF WorkerQueueEmpty, Threads
  <1>7c. ASSUME NEW w \in Workers, WorkerLock(w)
        PROVE  TypeOK' /\ MutexHeld' /\ StreamsOrdered' /\ WorkersHoldItems'
    BY <1>7c, SMTT(40) DEF WorkerLock, Threads
  <1>7d. ASSUME NEW w \in Workers, WorkerCheck(w)
        PROVE  TypeOK' /\ MutexHeld' /\ StreamsOrdered' /\ WorkersHoldItems'
    <2>1. /\ wpc[w] = "check"
          /\ \/ mutex' = Free /\ wpc' = [wpc EXCEPT ![w] = "exited"]
             \/ mutex' = Free /\ wpc' = [wpc EXCEPT ![w] = "dequeue"]
             \/ mutex' = mutex /\ wpc' = [wpc EXCEPT ![w] = "block"]
          /\ UNCHANGED <<stop_flag, pending, task_queue, posted, ppc, item, spc, executed>>
      BY <1>7d, Zenon DEF WorkerCheck
    <2>2. TypeOK'
      BY <2>1
    <2>3. MutexHeld'
      BY <2>1 DEF Threads
    <2>4. StreamsOrdered'
      BY <2>1
    <2>5. WorkersHoldItems'
      BY <2>1
    <2> QED
      BY <2>2, <2>3, <2>4, <2>5
  <1>7e. ASSUME NEW w \in Workers, WorkerBlock(w)
        PROVE  TypeOK' /\ MutexHeld' /\ StreamsOrdered' /\ WorkersHoldItems'
    BY <1>7e, SMTT(40) DEF WorkerBlock, Threads
  <1>7f. ASSUME NEW w \in Workers, WorkerSpuriousWakeup(w)
        PROVE  TypeOK' /\ MutexHeld' /\ StreamsOrdered' /\ WorkersHoldItems'
    BY <1>7f, SMTT(40) DEF WorkerSpuriousWakeup, Threads
  <1>8. ASSUME NEW w \in Workers, WorkerRun(w)
        PROVE  TypeOK' /\ MutexHeld' /\ StreamsOrdered' /\ WorkersHoldItems'
    BY <1>8, SMTT(40) DEF WorkerRun, Threads
  <1>9. CASE Stop
    BY <1>9 DEF Stop, StopSetFlag, StopNotifyAll, StopSwapWorkers, StopJoin,
                Waiting, Threads
  <1> QED
    BY <1>1, <1>2, <1>3, <1>4, <1>5, <1>6, <1>7a, <1>7b, <1>7c, <1>7d, <1>7e,
       <1>7f, <1>8, <1>9, <1>10
       DEF Next, Producer, Worker

\* The counter: each half of a post or of a dequeue moves one element into or
\* out of one of the three sets.
LEMMA CountStep ==
    ASSUME IInv, TypeOK', [Next]_vars
    PROVE  PendingCountsQueue'
  <1> USE CountedSetsFinite DEF IInv, PendingCountsQueue
  <1>0. pending \in Int
    BY DEF TypeOK
  <1>1. ASSUME NEW p \in Producers, PostEnqueue(p) PROVE PendingCountsQueue'
    <2>1. /\ <<p, posted[p]>> \notin Queued
          /\ Queued' = Queued \cup {<<p, posted[p]>>}
      BY <1>1, EnqueueAdds
    <2>2. p \notin Enqueued /\ Enqueued' = Enqueued \cup {p}
      BY <1>1 DEF PostEnqueue, Enqueued, TypeOK
    <2>3. Cardinality(Queued') = Cardinality(Queued) + 1
      BY <2>1, Increment
    <2>4. Cardinality(Enqueued') = Cardinality(Enqueued) + 1
      BY <2>2, Increment
    <2>5. Decrementing' = Decrementing /\ pending' = pending
      BY <1>1 DEF PostEnqueue, Decrementing
    <2> QED
      BY <1>0, <2>3, <2>4, <2>5
  <1>2. ASSUME NEW p \in Producers, PostCount(p) PROVE PendingCountsQueue'
    <2>1. p \in Enqueued /\ Enqueued' = Enqueued \ {p}
      BY <1>2 DEF PostCount, Enqueued, TypeOK
    <2>2. Cardinality(Enqueued') = Cardinality(Enqueued) - 1
      BY <2>1, Decrement
    <2>3. Decrementing' = Decrementing /\ Queued' = Queued /\ pending' = pending + 1
      BY <1>2 DEF PostCount, Decrementing, Queued
    <2> QED
      BY <1>0, <2>2, <2>3
  <1>3. ASSUME NEW w \in Workers, WorkerDequeue(w) PROVE PendingCountsQueue'
    <2> PICK p \in Producers :
            /\ task_queue[p] # <<>>
            /\ item' = [item EXCEPT ![w] = <<p, Head(task_queue[p])>>]
            /\ task_queue' = [task_queue EXCEPT ![p] = Tail(@)]
      BY <1>3 DEF WorkerDequeue
    <2>1. /\ <<p, Head(task_queue[p])>> \in Queued
          /\ Queued' = Queued \ {<<p, Head(task_queue[p])>>}
      BY DequeueRemoves
    <2>2. w \notin Decrementing /\ Decrementing' = Decrementing \cup {w}
      BY <1>3 DEF WorkerDequeue, Decrementing, TypeOK
    <2>3. Cardinality(Queued') = Cardinality(Queued) - 1
      BY <2>1, Decrement
    <2>4. Cardinality(Decrementing') = Cardinality(Decrementing) + 1
      BY <2>2, Increment
    <2>5. Enqueued' = Enqueued /\ pending' = pending
      BY <1>3 DEF WorkerDequeue, Enqueued
    <2> QED
      BY <1>0, <2>3, <2>4, <2>5
  <1>4. ASSUME NEW w \in Workers, WorkerDecrement(w) PROVE PendingCountsQueue'
    <2>1. w \in Decrementing /\ Decrementing' = Decrementing \ {w}
      BY <1>4 DEF WorkerDecrement, Decrementing, TypeOK
    <2>2. Cardinality(Decrementing') = Cardinality(Decrementing) - 1
      BY <2>1, Decrement
    <2>3. Enqueued' = Enqueued /\ Queued' = Queued /\ pending' = pending - 1
      BY <1>4 DEF WorkerDecrement, Enqueued, Queued
    <2> QED
      BY <1>0, <2>2, <2>3
  <1>5. ASSUME UNCHANGED <<pending, task_queue>>,
               Enqueued' = Enqueued, Decrementing' = Decrementing
        PROVE  PendingCountsQueue'
    BY <1>5 DEF Queued
  <1>6. ASSUME NEW p \in Producers,
               PostLock(p) \/ PostCheckStop(p) \/ PostNotify(p)
        PROVE  PendingCountsQueue'
    <2>1. UNCHANGED <<pending, task_queue>> /\ Enqueued' = Enqueued
      BY <1>6 DEF PostLock, PostCheckStop, PostNotify, Enqueued, TypeOK
    <2>2. Decrementing' = Decrementing
      BY <1>6 DEF PostLock, PostCheckStop, PostNotify, Decrementing, Waiting, TypeOK
    <2> QED
      BY <2>1, <2>2, <1>5
  <1>7. ASSUME NEW w \in Workers,
               WorkerRun(w) \/ WorkerQueueEmpty(w) \/ WorkerLock(w)
                 \/ WorkerCheck(w) \/ WorkerBlock(w) \/ WorkerSpuriousWakeup(w)
        PROVE  PendingCountsQueue'
    <2>1. UNCHANGED <<pending, task_queue>> /\ Enqueued' = Enqueued
      BY <1>7 DEF WorkerRun, WorkerQueueEmpty, WorkerLock, WorkerCheck,
                  WorkerBlock, WorkerSpuriousWakeup, Enqueued
    <2>2. Decrementing' = Decrementing
      BY <1>7 DEF WorkerRun, WorkerQueueEmpty, WorkerLock, WorkerCheck,
                  WorkerBlock, WorkerSpuriousWakeup, Decrementing, TypeOK
    <2> QED
      BY <2>1, <2>2, <1>5
  <1>8. CASE Stop
    <2>1. UNCHANGED <<pending, task_queue>> /\ Enqueued' = Enqueued
      BY <1>8 DEF Stop, StopSetFlag, StopNotifyAll, StopSwapWorkers, StopJoin,
                  Enqueued
    <2>2. Decrementing' = Decrementing
      BY <1>8 DEF Stop, StopSetFlag, StopNotifyAll, StopSwapWorkers, StopJoin,
                  Decrementing, Waiting, TypeOK
    <2> QED
      BY <2>1, <2>2, <1>5
  <1>9. CASE UNCHANGED vars
    BY <1>9, <1>5 DEF vars, Enqueued, Decrementing
  <1> QED
    BY <1>1, <1>2, <1>3, <1>4, <1>6, <1>7, <1>8, <1>9 DEF Next, Producer, Worker

\* Under the mutex, with no producer between enqueue and fetch_add, a counter
\* that is not positive means an empty queue.
LEMMA NonPositiveMeansEmpty ==
    ASSUME IInv, NEW w \in Workers, mutex = w, pending <= 0
    PROVE  Queued = {}
  <1>1. Enqueued = {}
    BY ThreadsAssumption DEF IInv, MutexHeld, Enqueued
  <1>2. Cardinality(Enqueued) = 0
    BY <1>1, FS_EmptySet
  <1>3. Cardinality(Queued) = 0
    BY <1>2, CountedSetsFinite DEF IInv, PendingCountsQueue, TypeOK
  <1> QED
    BY <1>3, CountedSetsFinite, FS_EmptySet

LEMMA SleepStep ==
    ASSUME IInv, TypeOK', MutexHeld', [Next]_vars
    PROVE  BlocksOnEmptyQueue' /\ NoTaskBehindSleepingWorkers'
  <1> DEFINE Goal == BlocksOnEmptyQueue' /\ NoTaskBehindSleepingWorkers'
  <1> USE ThreadsAssumption
      DEF IInv, BlocksOnEmptyQueue, NoTaskBehindSleepingWorkers, Waiting
  <1>1. ASSUME NEW p \in Producers, PostEnqueue(p) PROVE Goal
    <2>1. \A w \in Workers : wpc'[w] # "block"
      BY <1>1 DEF PostEnqueue, MutexHeld
    <2>2. ppc'[p] = "enqueued"
      BY <1>1 DEF PostEnqueue, TypeOK
    <2> QED
      BY <2>1, <2>2
  <1>2. ASSUME NEW p \in Producers, PostCount(p) PROVE Goal
    <2>1. ppc'[p] = "notify" /\ Queued' = Queued /\ wpc' = wpc
      BY <1>2 DEF PostCount, TypeOK, Queued
    <2> QED
      BY <2>1
  <1>3. ASSUME NEW p \in Producers, PostLock(p) \/ PostCheckStop(p) PROVE Goal
    <2>1. Queued' = Queued /\ wpc' = wpc
      BY <1>3 DEF PostLock, PostCheckStop, Queued
    <2>2. \A r \in Producers : ppc[r] \in {"enqueued", "notify"} => ppc'[r] = ppc[r]
      BY <1>3 DEF PostLock, PostCheckStop, TypeOK
    <2> QED
      BY <2>1, <2>2
  <1>4. ASSUME NEW p \in Producers, PostNotify(p) PROVE Goal
    <2>1. Queued' = Queued /\ \A w \in Workers : wpc'[w] = "block" => wpc[w] = "block"
      BY <1>4 DEF PostNotify, Queued, TypeOK
    <2>2. \E w \in Workers : wpc'[w] # "waiting"
      BY <1>4 DEF PostNotify, TypeOK
    <2> QED
      BY <2>1, <2>2
  <1>5. ASSUME NEW w \in Workers, WorkerDequeue(w) PROVE Goal
    <2> PICK p \in Producers :
            /\ task_queue[p] # <<>>
            /\ task_queue' = [task_queue EXCEPT ![p] = Tail(@)]
      BY <1>5 DEF WorkerDequeue
    <2>1. Queued' \subseteq Queued
      BY DequeueRemoves
    <2>2. wpc'[w] = "decrement"
          /\ \A v \in Workers : wpc'[v] = "block" => wpc[v] = "block"
      BY <1>5 DEF WorkerDequeue, TypeOK
    <2> QED
      BY <2>1, <2>2
  <1>6. ASSUME NEW w \in Workers,
               WorkerDecrement(w) \/ WorkerRun(w) \/ WorkerQueueEmpty(w)
                 \/ WorkerLock(w) \/ WorkerSpuriousWakeup(w)
        PROVE  Goal
    <2>1. Queued' = Queued
      BY <1>6 DEF WorkerDecrement, WorkerRun, WorkerQueueEmpty, WorkerLock,
                  WorkerSpuriousWakeup, Queued
    <2>2. wpc'[w] # "waiting"
          /\ \A v \in Workers : wpc'[v] = "block" => wpc[v] = "block"
      BY <1>6 DEF WorkerDecrement, WorkerRun, WorkerQueueEmpty, WorkerLock,
                  WorkerSpuriousWakeup, TypeOK
    <2> QED
      BY <2>1, <2>2
  <1>7. ASSUME NEW w \in Workers, WorkerCheck(w) PROVE Goal
    <2>1. Queued' = Queued /\ wpc'[w] # "waiting"
      BY <1>7 DEF WorkerCheck, TypeOK, Queued
    <2>2. \A v \in Workers : v # w => wpc'[v] = wpc[v]
      BY <1>7 DEF WorkerCheck, TypeOK
    <2>3. wpc'[w] = "block" => Queued = {}
      <3>1. mutex = w
        BY <1>7 DEF WorkerCheck, MutexHeld
      <3> QED
        BY <1>7, <3>1, NonPositiveMeansEmpty DEF WorkerCheck, TypeOK
    <2> QED
      BY <2>1, <2>2, <2>3
  <1>8. ASSUME NEW w \in Workers, WorkerBlock(w) PROVE Goal
    <2>1. Queued' = Queued /\ Queued = {}
      BY <1>8 DEF WorkerBlock, Queued
    <2> QED
      BY <2>1
  <1>9. CASE Stop
    <2>1. Queued' = Queued /\ ppc' = ppc
      BY <1>9 DEF Stop, StopSetFlag, StopNotifyAll, StopSwapWorkers, StopJoin,
                  Queued
    <2>2. \A w \in Workers : /\ wpc'[w] = "block" => wpc[w] = "block"
                             /\ wpc'[w] = "waiting" => wpc[w] = "waiting"
      BY <1>9 DEF Stop, StopSetFlag, StopNotifyAll, StopSwapWorkers, StopJoin,
                  TypeOK
    <2> QED
      BY <2>1, <2>2
  <1>10. CASE UNCHANGED vars
    BY <1>10 DEF vars, Queued
  <1> QED
    BY <1>1, <1>2, <1>3, <1>4, <1>5, <1>6, <1>7, <1>8, <1>9, <1>10
       DEF Next, Producer, Worker

\* The invariant is inductive.
THEOREM Invariance == Spec => []IInv
  <1>1. Init => IInv
    BY InitEstablishes
  <1>2. IInv /\ [Next]_vars => IInv'
    BY StateStep, CountStep, SleepStep DEF IInv
  <1> QED
    BY <1>1, <1>2, PTL DEF Spec

\* pending_tasks_ mirrors the queue, off only by the threads between the two
\* halves of a post or of a dequeue.
THEOREM PendingCounts == Spec => []PendingCountsQueue
  BY Invariance, PTL DEF IInv

\* No interleaving of PostTask with a worker going to sleep strands a task.
THEOREM NoStrandedTask == Spec => []NoTaskBehindSleepingWorkers
  BY Invariance, PTL DEF IInv

\* Every variable keeps its type.
THEOREM TypeCorrect == Spec => []TypeOK
  BY Invariance, PTL DEF IInv

-----------------------------------------------------------------------------
(* The order in which tasks run.  With a second worker two tasks of one     *)
(* producer may be held at once and run in either order, so the theorem     *)
(* needs the one worker every owner of a queue gives it.                    *)

OneWorker == \A v, w \in Workers : v = w

\* Task n of producer p has left p's stream: no task still in the stream, and
\* none that is about to be enqueued, precedes it.
Behind(p, n) ==
    /\ n <= posted[p]
    /\ ppc[p] \in {"locked", "accepted"} => n < posted[p]
    /\ \A k \in DOMAIN task_queue[p] : n < task_queue[p][k]

ExecutedBehind == \A i \in DOMAIN executed : Behind(executed[i][1], executed[i][2])

Holding(w) == wpc[w] \in {"decrement", "run"}

\* The task in the worker's hand lies between those run and those queued.
HeldBetween ==
    \A w \in Workers : Holding(w) =>
        /\ Behind(item[w][1], item[w][2])
        /\ \A i \in DOMAIN executed :
              executed[i][1] = item[w][1] => executed[i][2] < item[w][2]

OrderInv == RunsInPostOrder /\ ExecutedBehind /\ HeldBetween

\* What is behind a stream stays behind it, whoever steps.
LEMMA BehindStep ==
    ASSUME IInv, TypeOK', [Next]_vars, NEW p \in Producers, NEW n \in 1..MaxPosts,
           Behind(p, n)
    PROVE  Behind(p, n)'
  <1> USE MaxPostsAssumption DEF Behind
  <1>t. /\ posted[p] \in 0..MaxPosts /\ task_queue[p] \in Seq(1..MaxPosts)
        /\ posted'[p] \in 0..MaxPosts /\ task_queue'[p] \in Seq(1..MaxPosts)
    BY DEF IInv, TypeOK
  <1>1. ASSUME NEW r \in Producers, PostLock(r) PROVE Behind(p, n)'
    <2>1. task_queue' = task_queue
      BY <1>1 DEF PostLock
    <2>2. IF r = p THEN posted'[p] = posted[p] + 1
                   ELSE posted'[p] = posted[p] /\ ppc'[p] = ppc[p]
      BY <1>1 DEF PostLock, IInv, TypeOK
    <2> QED
      BY <1>t, <2>1, <2>2
  <1>2. ASSUME NEW r \in Producers,
               PostCheckStop(r) \/ PostCount(r) \/ PostNotify(r)
        PROVE  Behind(p, n)'
    <2>1. task_queue' = task_queue /\ posted' = posted
      BY <1>2 DEF PostCheckStop, PostCount, PostNotify
    <2>2. ppc'[p] \in {"locked", "accepted"} => ppc[p] \in {"locked", "accepted"}
      BY <1>2 DEF PostCheckStop, PostCount, PostNotify, IInv, TypeOK
    <2> QED
      BY <2>1, <2>2
  <1>3. ASSUME NEW r \in Producers, PostEnqueue(r) PROVE Behind(p, n)'
    <2>1. posted' = posted
      BY <1>3 DEF PostEnqueue
    <2>2. CASE r # p
      BY <1>3, <2>2 DEF PostEnqueue, IInv, TypeOK
    <2>3. CASE r = p
      <3>1. /\ ppc[p] = "accepted" /\ ppc'[p] = "enqueued"
            /\ task_queue'[p] = Append(task_queue[p], posted[p])
        BY <1>3, <2>3 DEF PostEnqueue, IInv, TypeOK
      <3>2. \A k \in DOMAIN task_queue'[p] :
               \/ k \in DOMAIN task_queue[p] /\ task_queue'[p][k] = task_queue[p][k]
               \/ task_queue'[p][k] = posted[p]
        BY <3>1, <1>t
      <3>3. n < posted[p]
        BY <3>1
      <3>4. \A k \in DOMAIN task_queue[p] : n < task_queue[p][k]
        OBVIOUS
      <3>5. \A k \in DOMAIN task_queue'[p] : n < task_queue'[p][k]
        BY <3>2, <3>3, <3>4
      <3>6. n <= posted[p]
        OBVIOUS
      <3> QED
        BY <3>1, <3>5, <3>6, <2>1
    <2> QED
      BY <2>2, <2>3
  <1>4. ASSUME NEW w \in Workers, WorkerDequeue(w) PROVE Behind(p, n)'
    <2>1. posted' = posted /\ ppc' = ppc
      BY <1>4 DEF WorkerDequeue
    <2> PICK r \in Producers : /\ task_queue[r] # <<>>
                               /\ task_queue' = [task_queue EXCEPT ![r] = Tail(@)]
      BY <1>4 DEF WorkerDequeue
    <2>2. CASE r # p
      BY <2>1, <2>2 DEF IInv, TypeOK
    <2>3. CASE r = p
      <3>1. task_queue'[p] = Tail(task_queue[p]) /\ task_queue[p] # <<>>
        BY <2>3 DEF IInv, TypeOK
      <3> DEFINE q == task_queue[p]
      <3>3. /\ DOMAIN q = 1..Len(q) /\ DOMAIN Tail(q) = 1..(Len(q) - 1)
            /\ Len(q) \in Nat
            /\ \A i \in 1..(Len(q) - 1) : Tail(q)[i] = q[i + 1]
        BY <3>1, <1>t, HeadTailProperties, LenProperties
      <3>4. \A k \in 1..(Len(q) - 1) : k + 1 \in 1..Len(q)
        BY <3>3
      <3>5. \A k \in 1..(Len(q) - 1) : n < Tail(q)[k]
        BY <3>3, <3>4
      <3> QED
        BY <2>1, <3>1, <3>3, <3>5
    <2> QED
      BY <2>2, <2>3
  <1>5. CASE UNCHANGED <<posted, ppc, task_queue>>
    BY <1>5
  <1>6. ASSUME NEW w \in Workers,
               WorkerDecrement(w) \/ WorkerRun(w) \/ WorkerQueueEmpty(w)
                 \/ WorkerLock(w) \/ WorkerCheck(w) \/ WorkerBlock(w)
                 \/ WorkerSpuriousWakeup(w)
        PROVE  UNCHANGED <<posted, ppc, task_queue>>
    BY <1>6 DEF WorkerDecrement, WorkerRun, WorkerQueueEmpty, WorkerLock,
                WorkerCheck, WorkerBlock, WorkerSpuriousWakeup
  <1>7. Stop \/ UNCHANGED vars => UNCHANGED <<posted, ppc, task_queue>>
    BY DEF Stop, StopSetFlag, StopNotifyAll, StopSwapWorkers, StopJoin, vars
  <1> QED
    BY <1>1, <1>2, <1>3, <1>4, <1>5, <1>6, <1>7 DEF Next, Producer, Worker

\* The head of a stream is behind what follows it, and ahead of what has run.
LEMMA HeadIsNext ==
    ASSUME IInv, OrderInv, TypeOK', NEW w \in Workers, WorkerDequeue(w)
    PROVE  /\ item'[w] \in Tasks
           /\ Behind(item[w][1], item[w][2])'
           /\ \A i \in DOMAIN executed :
                 executed[i][1] = item'[w][1] => executed[i][2] < item'[w][2]
  <1> PICK p \in Producers :
            /\ task_queue[p] # <<>>
            /\ item' = [item EXCEPT ![w] = <<p, Head(task_queue[p])>>]
            /\ task_queue' = [task_queue EXCEPT ![p] = Tail(@)]
    BY DEF WorkerDequeue
  <1> DEFINE q == task_queue[p]
  <1>1. q \in Seq(1..MaxPosts) /\ q # <<>> /\ posted[p] \in 0..MaxPosts
    BY DEF IInv, TypeOK
  <1>0. Head(q) \in 1..MaxPosts
    BY <1>1, HeadTailProperties
  <1> PICK n \in 1..MaxPosts : n = Head(q)
    BY <1>0
  <1>2. /\ Len(q) \in Nat /\ Len(q) >= 1 /\ DOMAIN q = 1..Len(q)
        /\ n = q[1]
    BY <1>1, EmptySeq, LenProperties, HeadTailProperties
  <1>3. /\ task_queue'[p] = Tail(q) /\ posted' = posted /\ ppc' = ppc
        /\ item'[w] = <<p, n>>
    BY DEF WorkerDequeue, IInv, TypeOK
  <1>4. \A k \in DOMAIN Tail(q) : k + 1 \in 2..Len(q) /\ Tail(q)[k] = q[k + 1]
    BY <1>1, <1>2
  <1>5. /\ \A i \in DOMAIN q : q[i] <= posted[p]
               /\ (ppc[p] \in {"locked", "accepted"} => q[i] < posted[p])
        /\ \A i, j \in DOMAIN q : i < j => q[i] < q[j]
    BY DEF IInv, StreamsOrdered
  <1>6. Behind(p, n)'
    <2>1. /\ n <= posted[p]
          /\ ppc[p] \in {"locked", "accepted"} => n < posted[p]
      BY <1>2, <1>5
    <2>2. ASSUME NEW k \in DOMAIN Tail(q) PROVE n < Tail(q)[k]
      <3>1. /\ k + 1 \in DOMAIN q /\ 1 \in DOMAIN q /\ 1 < k + 1
            /\ Tail(q)[k] = q[k + 1] /\ n = q[1]
        BY <1>2, <1>4
      <3> QED
        BY <3>1, <1>5
    <2> QED
      BY <2>1, <2>2, <1>3 DEF Behind
  <1>7. item'[w] \in Tasks /\ item'[w][1] = p /\ item'[w][2] = n
    BY <1>2, <1>3 DEF Tasks
  <1>8. ASSUME NEW i \in DOMAIN executed, executed[i][1] = p
        PROVE  executed[i][2] < n
    <2>1. Behind(executed[i][1], executed[i][2])
      BY DEF OrderInv, ExecutedBehind
    <2>2. \A k \in DOMAIN q : executed[i][2] < q[k]
      BY <2>1, <1>8 DEF Behind
    <2> QED
      BY <2>2, <1>2
  <1> QED
    BY <1>6, <1>7, <1>8 DEF Behind

\* Appending the held task keeps the history ordered.
LEMMA OrderStep ==
    ASSUME OneWorker, IInv, OrderInv, TypeOK', [Next]_vars
    PROVE  OrderInv'
  <1>t. /\ executed \in Seq(Tasks) /\ DOMAIN executed = 1..Len(executed)
        /\ Len(executed) \in Nat
        /\ \A i \in DOMAIN executed : executed[i] \in Tasks
    BY ElementOfSeq, LenProperties DEF IInv, TypeOK
  <1>b. \A t \in Tasks : Behind(t[1], t[2]) => Behind(t[1], t[2])'
    BY BehindStep DEF Tasks
  <1>h. \A w \in Workers : Holding(w) => item[w] \in Tasks
    BY DEF Holding, IInv, WorkersHoldItems
  <1>1. ASSUME NEW w \in Workers, WorkerRun(w) PROVE OrderInv'
    <2> DEFINE e == executed
               m == Len(executed) + 1
    <2>1. /\ executed' = Append(e, item[w])
          /\ Holding(w) /\ item[w] \in Tasks
          /\ \A v \in Workers : ~Holding(v)'
      <3>1. executed' = Append(e, item[w]) /\ Holding(w)
        BY <1>1 DEF WorkerRun, Holding
      <3>2. wpc'[w] = "dequeue"
        BY <1>1 DEF WorkerRun, IInv, TypeOK
      <3> QED
        BY <3>1, <3>2, <1>h DEF OneWorker, Holding
    <2>2. /\ DOMAIN executed' = 1..m
          /\ executed'[m] = item[w]
          /\ \A i \in 1..Len(e) : executed'[i] = e[i]
      BY <2>1, <1>t
    <2>3. \A i \in 1..m : i = m \/ i \in 1..Len(e)
      BY <1>t
    <2>4. ExecutedBehind'
      <3> SUFFICES ASSUME NEW i \in 1..m
                   PROVE  \E t \in Tasks : executed'[i] = t /\ Behind(t[1], t[2])'
        BY <2>2 DEF ExecutedBehind, Behind
      <3>1. CASE i = m
        <4>1. Behind(item[w][1], item[w][2])
          BY <2>1 DEF OrderInv, HeldBetween
        <4> QED
          BY <4>1, <3>1, <2>1, <2>2, <1>b
      <3>2. CASE i \in 1..Len(e)
        <4>1. Behind(e[i][1], e[i][2]) /\ e[i] \in Tasks
          BY <3>2, <1>t DEF OrderInv, ExecutedBehind
        <4> QED
          BY <4>1, <3>2, <2>2, <1>b
      <3> QED
        BY <3>1, <3>2, <2>3
    <2>5. RunsInPostOrder'
      <3>1. \A i \in 1..Len(e) : e[i][1] = item[w][1] => e[i][2] < item[w][2]
        BY <2>1, <1>t DEF OrderInv, HeldBetween
      <3>2. \A i, j \in 1..Len(e) :
               (i < j /\ e[i][1] = e[j][1]) => e[i][2] < e[j][2]
        BY <1>t DEF OrderInv, RunsInPostOrder
      <3>3. \A i, j \in 1..m : i < j => i \in 1..Len(e)
        BY <1>t
      <3> SUFFICES ASSUME NEW i \in 1..m, NEW j \in 1..m, i < j,
                          executed'[i][1] = executed'[j][1]
                   PROVE  executed'[i][2] < executed'[j][2]
        BY <2>2 DEF RunsInPostOrder
      <3>4. i \in 1..Len(e) /\ executed'[i] = e[i]
        BY <3>3, <2>2
      <3>5. CASE j = m
        BY <3>1, <3>4, <3>5, <2>2
      <3>6. CASE j \in 1..Len(e)
        BY <3>2, <3>4, <3>6, <2>2
      <3> QED
        BY <3>5, <3>6, <2>3
    <2> QED
      BY <2>1, <2>4, <2>5 DEF OrderInv, HeldBetween
  <1>2. ASSUME executed' = executed,
               \A w \in Workers : Holding(w)' =>
                   \/ Holding(w) /\ item'[w] = item[w]
                   \/ WorkerDequeue(w)
        PROVE  OrderInv'
    <2>1. ASSUME NEW i \in DOMAIN executed
          PROVE  Behind(executed[i][1], executed[i][2])'
      BY <1>2, <1>t, <1>b DEF OrderInv, ExecutedBehind
    <2>2. ExecutedBehind' /\ RunsInPostOrder'
      BY <2>1, <1>2 DEF OrderInv, ExecutedBehind, RunsInPostOrder
    <2>3. ASSUME NEW w \in Workers, Holding(w)'
          PROVE  /\ Behind(item[w][1], item[w][2])'
                 /\ \A i \in DOMAIN executed :
                      executed[i][1] = item'[w][1] => executed[i][2] < item'[w][2]
      <3>1. CASE WorkerDequeue(w)
        BY <3>1, HeadIsNext
      <3>2. CASE Holding(w) /\ item'[w] = item[w]
        <4>1. /\ item[w] \in Tasks /\ Behind(item[w][1], item[w][2])
              /\ \A i \in DOMAIN executed :
                   executed[i][1] = item[w][1] => executed[i][2] < item[w][2]
          BY <3>2, <1>h DEF OrderInv, HeldBetween
        <4> QED
          BY <4>1, <3>2, <1>b
      <3> QED
        BY <3>1, <3>2, <2>3, <1>2
    <2> QED
      BY <2>2, <2>3, <1>2 DEF OrderInv, HeldBetween
  <1>3. ASSUME NEW p \in Producers, Producer(p) PROVE OrderInv'
    <2>1. executed' = executed /\ item' = item
      BY <1>3 DEF Producer, PostLock, PostCheckStop, PostEnqueue, PostCount,
                  PostNotify
    <2>2. \A w \in Workers : Holding(w)' => Holding(w)
      BY <1>3 DEF Producer, PostLock, PostCheckStop, PostEnqueue, PostCount,
                  PostNotify, Holding, Waiting, IInv, TypeOK
    <2> QED
      BY <2>1, <2>2, <1>2
  <1>4. ASSUME NEW w \in Workers, WorkerDequeue(w) PROVE OrderInv'
    <2>1. executed' = executed
      BY <1>4 DEF WorkerDequeue
    <2>2. \A v \in Workers : WorkerDequeue(v)
      BY <1>4 DEF OneWorker
    <2> QED
      BY <2>1, <2>2, <1>2
  <1>5. ASSUME NEW w \in Workers,
               WorkerDecrement(w) \/ WorkerQueueEmpty(w) \/ WorkerLock(w)
                 \/ WorkerCheck(w) \/ WorkerBlock(w) \/ WorkerSpuriousWakeup(w)
        PROVE  OrderInv'
    <2>1. executed' = executed /\ item' = item
      BY <1>5 DEF WorkerDecrement, WorkerQueueEmpty, WorkerLock, WorkerCheck,
                  WorkerBlock, WorkerSpuriousWakeup
    <2>2. \A v \in Workers : Holding(v)' => Holding(v)
      BY <1>5 DEF WorkerDecrement, WorkerQueueEmpty, WorkerLock, WorkerCheck,
                  WorkerBlock, WorkerSpuriousWakeup, Holding, IInv, TypeOK
    <2> QED
      BY <2>1, <2>2, <1>2
  <1>6. CASE Stop
    <2>1. executed' = executed /\ item' = item
      BY <1>6 DEF Stop, StopSetFlag, StopNotifyAll, StopSwapWorkers, StopJoin
    <2>2. \A v \in Workers : Holding(v)' => Holding(v)
      BY <1>6 DEF Stop, StopSetFlag, StopNotifyAll, StopSwapWorkers, StopJoin,
                  Holding, Waiting, IInv, TypeOK
    <2> QED
      BY <2>1, <2>2, <1>2
  <1>7. CASE UNCHANGED vars
    BY <1>7, <1>2 DEF vars, Holding
  <1> QED
    BY <1>1, <1>3, <1>4, <1>5, <1>6, <1>7 DEF Next, Worker

\* With one worker, whatever the interleaving of its unsynchronised dequeues
\* with the producers, each producer's tasks run in the order of its PostTask
\* calls and none runs twice.
THEOREM PostOrder == ASSUME OneWorker PROVE Spec => []RunsInPostOrder
  <1>1. Init => OrderInv
    BY DEF Init, OrderInv, RunsInPostOrder, ExecutedBehind, HeldBetween, Holding
  <1>2. IInv /\ IInv' /\ OrderInv /\ [Next]_vars => OrderInv'
    BY OrderStep DEF IInv
  <1>3. OrderInv => RunsInPostOrder
    BY DEF OrderInv
  <1> QED
    BY <1>1, <1>2, <1>3, Invariance, PTL DEF Spec
-----------------------------------------------------------------------------
(* Part two: the pacer.                                                    *)

(* Arithmetic that the pacer's bounds rest on.                               *)

LEMMA ProdNat == ASSUME NEW a \in Nat, NEW b \in Nat PROVE a * b \in Nat
OBVIOUS

LEMMA ProdMono ==
    ASSUME NEW a \in Nat, NEW b \in Nat, NEW s \in Nat, a <= b PROVE a * s <= b * s
OBVIOUS

LEMMA ProdLess ==
    ASSUME NEW a \in Nat, NEW b \in Nat, NEW s \in Nat, a < b PROVE a * s + s <= b * s
<1>1. b = a + (b - a) /\ b - a \in Nat /\ b - a >= 1
    OBVIOUS
<1> QED BY <1>1

LEMMA DivNat == ASSUME NEW n \in Nat, NEW s \in Nat, s > 0 PROVE n \div s \in Nat
OBVIOUS

LEMMA DivIs ==
    ASSUME NEW n \in Nat, NEW s \in Nat, s > 0
    PROVE  (n \div s) * s <= n /\ n < (n \div s) * s + s
OBVIOUS

LEMMA DivMono ==
    ASSUME NEW n \in Nat, NEW m \in Nat, NEW s \in Nat, s > 0, n <= m
    PROVE  n \div s <= m \div s
<1>1. n \div s \in Nat /\ m \div s \in Nat
    BY DivNat
<1>2. (n \div s) * s <= n /\ m < (m \div s) * s + s
    BY DivIs
<1>3. CASE m \div s < n \div s
  <2>1. (m \div s) * s + s <= (n \div s) * s
    BY <1>1, <1>3, ProdLess
  <2> QED BY <1>1, <1>2, <2>1
<1> QED BY <1>1, <1>3

LEMMA LeastMost ==
    ASSUME NEW a \in Int, NEW b \in Int
    PROVE  /\ Least(a, b) \in Int /\ Least(a, b) <= a /\ Least(a, b) <= b
           /\ Least(a, b) = a \/ Least(a, b) = b
           /\ Most(a, b) \in Int /\ Most(a, b) >= a /\ Most(a, b) >= b
           /\ Most(a, b) = a \/ Most(a, b) = b
BY DEF Least, Most
-----------------------------------------------------------------------------
(* The invariant of the pacer.                                               *)

Clusters == [age : Nat, bytes : Nat, probes : Nat, started : Nat]
Probers == [clusters : Seq(Clusters), active : BOOLEAN, next : Int, allow : BOOLEAN]
Loops == [is_probing : BOOLEAN, rec : {0, ProbeSize}, data : Nat, bytes : Nat]

Controllers ==
    [media_debt : 0 .. 2 * PacingRate * kMaxDebtInTime, padding_debt : Nat,
     rate : {PacingRate, 2 * PacingRate}, padding_rate : 0 .. PacingRate,
     since_send : Nat, since_process : Int,
     queue : 0 .. MaxQueue + ProbeSize + PacingRate, rtx : -1 .. 1,
     seen_first_packet : BOOLEAN, congested : BOOLEAN, paused : BOOLEAN,
     probing_send_failure : BOOLEAN, prober : Probers]

\* A cluster in the queue has not sent what completes it.
Unfinished(k) ==
    /\ k.bytes <= k.probes * ProbeSize
    /\ k.bytes < ProbeBytes \/ k.probes < ProbeCount

\* Clusters stand in the order of their age.
QueueOK(q) ==
    /\ Len(q) <= kMaxPendingProbeClusters
    /\ \A i \in DOMAIN q : Unfinished(q[i])
    /\ \A i, j \in DOMAIN q : i <= j => q[j].age <= q[i].age

ProberOK(b) ==
    /\ b \in Probers /\ QueueOK(b.clusters)
    /\ b.active => b.clusters # <<>>

\* The next probe does not keep the pacer from the next keep-alive.
Soon(b, since) ==
    b.active => \/ b.next = MinusInfinity
                \/ b.next <= Most(0, (kPausedProcessInterval + kMaxEarlyProbeProcessing) - since)

Hopeless(d) ==
    d.prober.active /\ d.probing_send_failure => Empty(d) /\ (d.congested \/ ~can_pad)

ControllerOK(d) ==
    d \in Controllers /\ ProberOK(d.prober) /\ Soon(d.prober, d.since_send) /\ Hopeless(d)

LoopOK(d, l) ==
    /\ l \in Loops
    /\ l.is_probing => /\ l.rec = ProbeSize /\ l.data < ProbeSize /\ d.prober.active
                       /\ l.data > 0 => d.since_send = 0

\* There is a timer only while the transport is ready, and processing only then.
TimerOK ==
    /\ {is_started, transport_ready, can_pad} \subseteq BOOLEAN
    /\ pc \in {"idle", "schedule", "send", "then"}
    /\ then \in {"nothing", "ready", "not ready"}
    /\ delayed_tasks \subseteq Times
    /\ next_process_time = MinusInfinity \/ next_process_time \in delayed_tasks
    /\ transport_ready => is_started
    /\ ~transport_ready => next_process_time = MinusInfinity
    /\ pc \in {"schedule", "send"} => transport_ready

\* Between tasks: the timer, added to the age of the last packet and of the
\* oldest cluster, stays within their limits.
WorkingOK ==
    Working =>
        /\ next_process_time # MinusInfinity
        /\ next_process_time <= Most(HoldBack, NextSendTime(controller) - Margin(controller))
        /\ next_process_time + controller.since_send <= kPausedProcessInterval + HoldBack
        /\ controller.prober.clusters # <<>> =>
             next_process_time + controller.prober.clusters[1].age < kProbeClusterTimeout + HoldBack

PacerInv ==
    /\ ControllerOK(controller)
    /\ pc = "send" => LoopOK(controller, loop)
    /\ TimerOK /\ WorkingOK

LEMMA ConstantsAre ==
    /\ kPausedProcessInterval \in Nat /\ kProbeClusterTimeout \in Nat
    /\ kMaxPendingProbeClusters \in Nat /\ kMaxEarlyProbeProcessing \in Nat
    /\ kMaxDebtInTime \in Nat /\ kMaxElapsedTime \in Nat /\ HoldBack \in Nat /\ Burst \in Nat
    /\ ProbeDelta \in Nat /\ ProbeSize \in Nat /\ ProbeBytes \in Nat /\ ProbeCount \in Nat
    /\ AllowedProbeDelay \in Nat /\ PacingRate \in Nat /\ LongQueue \in Nat
    /\ MaxLate \in Nat /\ MaxQueue \in Nat /\ MaxBatch \in Nat /\ PaddingRates \subseteq Nat
    /\ kPausedProcessInterval > HoldBack /\ HoldBack > 0
    /\ kMaxPendingProbeClusters > 0 /\ ProbeCount > 0 /\ ProbeSize > 0 /\ PacingRate > 0
    /\ ProbeDelta > kMaxEarlyProbeProcessing
BY PacerAssumption
-----------------------------------------------------------------------------
(* BitrateProber.                                                            *)

LEMMA ProberHas ==
    ASSUME NEW b, b \in Probers
    PROVE  /\ b.clusters \in Seq(Clusters) /\ b.active \in BOOLEAN /\ b.next \in Int
           /\ b.allow \in BOOLEAN
BY DEF Probers

LEMMA ClusterHas ==
    ASSUME NEW k \in Clusters
    PROVE  k.age \in Nat /\ k.bytes \in Nat /\ k.probes \in Nat /\ k.started \in Nat
BY DEF Clusters

LEMMA SuffixOK ==
    ASSUME NEW q \in Seq(Clusters), QueueOK(q), NEW n \in 0 .. Len(q),
           NEW r \in Seq(Clusters), Len(r) = Len(q) - n, \A i \in 1 .. Len(r) : r[i] = q[i + n]
    PROVE  QueueOK(r)
<1>1. Len(r) <= kMaxPendingProbeClusters
    BY ConstantsAre DEF QueueOK
<1>a. \A i \in DOMAIN r : i + n \in DOMAIN q /\ r[i] = q[i + n]
    OBVIOUS
<1>2. \A i \in DOMAIN r : Unfinished(r[i])
    BY <1>a, Zenon DEF QueueOK
<1>3. ASSUME NEW i \in DOMAIN r, NEW j \in DOMAIN r, i <= j PROVE r[j].age <= r[i].age
  <2>1. i + n <= j + n
    BY <1>3
  <2> QED BY <1>a, <2>1, Zenon DEF QueueOK
<1> QED BY <1>1, <1>2, <1>3 DEF QueueOK

LEMMA TailOK ==
    ASSUME NEW q \in Seq(Clusters), q # <<>>, QueueOK(q)
    PROVE  Tail(q) \in Seq(Clusters) /\ QueueOK(Tail(q)) /\ Len(Tail(q)) = Len(q) - 1
<1>1. /\ Tail(q) \in Seq(Clusters) /\ Len(Tail(q)) = Len(q) - 1 /\ 1 \in 0 .. Len(q)
      /\ \A i \in 1 .. Len(Tail(q)) : Tail(q)[i] = q[i + 1]
    OBVIOUS
<1> QED BY <1>1, SuffixOK

LEMMA EmptyOK == <<>> \in Seq(Clusters) /\ QueueOK(<<>>)
BY ConstantsAre DEF QueueOK

LEMMA InfinitiesAre ==
    /\ MinusInfinity \in Int /\ PlusInfinity \in Int
    /\ MinusInfinity < -MaxLate /\ MinusInfinity < -AllowedProbeDelay - 1
    /\ PlusInfinity > kPausedProcessInterval + kMaxEarlyProbeProcessing
    /\ PlusInfinity > kProbeClusterTimeout
BY ConstantsAre DEF MinusInfinity, PlusInfinity

LEMMA Aborted ==
    ASSUME NEW b, ProberOK(b), NEW r, r = AbortProbing(b)
    PROVE  ProberOK(r) /\ ~r.active /\ r.clusters = <<>>
<1>1. r.clusters = <<>> /\ ~r.active /\ r \in Probers
    BY EmptyOK, InfinitiesAre DEF AbortProbing, ProberOK, Probers
<1> QED BY <1>1, EmptyOK DEF ProberOK

LEMMA MadeInactive ==
    ASSUME NEW b, b \in Probers, QueueOK(b.clusters), NEW r, r = Inactive(b)
    PROVE  ProberOK(r) /\ ~r.active /\ r.clusters = b.clusters
<1>1. r.clusters = b.clusters /\ ~r.active /\ r \in Probers
    BY DEF Inactive, Probers
<1> QED BY <1>1 DEF ProberOK

LEMMA Activated ==
    ASSUME NEW b, ProberOK(b), NEW large \in BOOLEAN, NEW since \in Nat, Soon(b, since),
           NEW r, r = MaybeSetActiveState(b, large)
    PROVE  /\ ProberOK(r) /\ Soon(r, since) /\ r.clusters = b.clusters
           /\ b.active => r = b
<1>1. CASE b.clusters # <<>> /\ ~b.active /\ (b.allow \/ large)
  <2>1. r = [b EXCEPT !.next = MinusInfinity, !.active = TRUE]
    BY <1>1 DEF MaybeSetActiveState
  <2>2. r \in Probers /\ r.clusters = b.clusters /\ r.next = MinusInfinity
    BY <2>1, InfinitiesAre DEF ProberOK, Probers
  <2> QED BY <1>1, <2>2 DEF ProberOK, Soon
<1>2. CASE ~(b.clusters # <<>> /\ ~b.active /\ (b.allow \/ large))
  <2>1. r = b
    BY <1>2 DEF MaybeSetActiveState
  <2> QED BY <2>1
<1> QED BY <1>1, <1>2

\* A nonempty set of naturals has a least element.
LEMMA LeastElement ==
    ASSUME NEW S \in SUBSET Nat, S # {}
    PROVE  \E i \in S : \A j \in S : i <= j
<1> DEFINE R == OpToRel(<, Nat)
<1>1. IsWellFoundedOn(R, Nat)
    BY NatLessThanWellFounded
<1>2. \A x, y \in Nat : x < y => <<x, y>> \in R
    BY DEF OpToRel
<1> HIDE DEF R
<1>3. PICK x \in S : \A y \in S : ~(<<y, x>> \in R)
    BY <1>1, WFMin
<1>4. \A y \in S : ~(y < x)
    BY <1>2, <1>3, Zenon
<1> QED BY <1>4

LEMMA FirstLiveIs ==
    ASSUME NEW q \in Seq(Clusters), Live(q) # {}
    PROVE  FirstLive(q) \in Live(q) /\ FirstLive(q) \in 1 .. Len(q)
<1>1. Live(q) \in SUBSET Nat /\ Live(q) \subseteq 1 .. Len(q)
    BY DEF Live
<1>2. \E i \in Live(q) : \A j \in Live(q) : i <= j
    BY <1>1, LeastElement
<1>3. FirstLive(q) \in Live(q)
    BY <1>2, Zenon DEF FirstLive
<1> QED BY <1>1, <1>3

\* What is left has not expired.
LEMMA ExpiredLeave ==
    ASSUME NEW b, ProberOK(b), NEW since \in Nat, Soon(b, since), NEW r, r = RemoveExpiredClusters(b)
    PROVE  /\ ProberOK(r) /\ Soon(r, since)
           /\ r.active => b.active
           /\ \A i \in DOMAIN r.clusters : r.clusters[i].age < kProbeClusterTimeout
           /\ ~FrontExpired(b) => r = b
<1>0. PICK q \in Seq(Clusters) : q = b.clusters /\ QueueOK(q)
    BY DEF ProberOK, Probers
<1>a. \A i \in DOMAIN q : q[i].age \in Nat
    BY ClusterHas
<1>1. CASE ~FrontExpired(b)
  <2>1. r = b
    BY <1>1 DEF RemoveExpiredClusters
  <2>2. ASSUME NEW i \in DOMAIN q PROVE q[i].age < kProbeClusterTimeout
    <3>1. 1 \in DOMAIN q /\ 1 <= i /\ q # <<>>
      OBVIOUS
    <3>2. q[i].age <= q[1].age
      BY <1>0, <3>1 DEF QueueOK
    <3>3. ~(q[1].age >= kProbeClusterTimeout)
      BY <1>0, <1>1, <3>1 DEF FrontExpired
    <3> QED BY <1>a, <3>1, <3>2, <3>3, ConstantsAre
  <2> QED BY <1>0, <2>1, <2>2
<1>2. CASE FrontExpired(b) /\ Live(q) = {}
  <2>1. r = AbortProbing(b)
    BY <1>0, <1>2 DEF RemoveExpiredClusters
  <2>2. ProberOK(r) /\ ~r.active /\ r.clusters = <<>>
    BY <2>1, Aborted
  <2> QED BY <1>2, <2>2 DEF Soon
<1>3. CASE FrontExpired(b) /\ Live(q) # {}
  <2>1. PICK f \in 1 .. Len(q) : f = FirstLive(q) /\ f \in Live(q)
    BY <1>3, FirstLiveIs
  <2>2. r = [b EXCEPT !.clusters = SubSeq(q, f, Len(q)),
                      !.next = IF b.active THEN MinusInfinity ELSE b.next]
    BY <1>0, <1>3, <2>1 DEF RemoveExpiredClusters
  <2>3. PICK s : s = SubSeq(q, f, Len(q))
    OBVIOUS
  <2>4. s \in Seq(Clusters) /\ Len(s) = Len(q) - (f - 1) /\ Len(s) > 0
    BY <2>1, <2>3
  <2>5. \A i \in 1 .. Len(s) : s[i] = q[i + (f - 1)]
    BY <2>1, <2>3, <2>4
  <2>6. QueueOK(s)
    <3>1. f - 1 \in 0 .. Len(q)
      OBVIOUS
    <3> QED BY <1>0, <2>4, <2>5, <3>1, SuffixOK
  <2>7. MinusInfinity \in Int
    BY InfinitiesAre
  <2>8. /\ r \in Probers /\ r.clusters = s /\ r.active = b.active
        /\ b.active => r.next = MinusInfinity
    BY <2>2, <2>3, <2>4, <2>7 DEF ProberOK, Probers
  <2>9. ASSUME NEW i \in DOMAIN s PROVE s[i].age < kProbeClusterTimeout
    <3>1. i + (f - 1) \in DOMAIN q /\ f <= i + (f - 1) /\ f \in DOMAIN q
      BY <2>4
    <3>2. s[i] = q[i + (f - 1)]
      BY <2>4, <2>5
    <3>3. q[i + (f - 1)].age <= q[f].age
      BY <1>0, <3>1 DEF QueueOK
    <3>4. q[f].age < kProbeClusterTimeout
      BY <2>1 DEF Live
    <3> QED BY <1>a, <3>1, <3>2, <3>3, <3>4, ConstantsAre
  <2>10. ProberOK(r)
    BY <2>4, <2>6, <2>8 DEF ProberOK
  <2> QED BY <1>3, <2>8, <2>9, <2>10 DEF Soon
<1> QED BY <1>1, <1>2, <1>3

LEMMA NewCluster ==
    Cluster \in Clusters /\ Unfinished(Cluster) /\ Cluster.age = 0
<1>1. Cluster \in Clusters /\ Cluster.age = 0 /\ Cluster.bytes = 0 /\ Cluster.probes = 0
    BY DEF Cluster, Clusters
<1>2. 0 <= 0 * ProbeSize
    BY ConstantsAre
<1> QED BY <1>1, <1>2, ConstantsAre DEF Unfinished

LEMMA AppendOK ==
    ASSUME NEW q \in Seq(Clusters), QueueOK(q), Len(q) < kMaxPendingProbeClusters,
           NEW r, r = Append(q, Cluster)
    PROVE  r \in Seq(Clusters) /\ QueueOK(r) /\ r # <<>>
<1>1. /\ r \in Seq(Clusters) /\ Len(r) = Len(q) + 1 /\ r[Len(q) + 1] = Cluster
      /\ \A i \in 1 .. Len(q) : r[i] = q[i]
    BY NewCluster
<1>2. ASSUME NEW i \in DOMAIN r PROVE Unfinished(r[i]) /\ r[i].age \in Nat
  <2>1. CASE i = Len(q) + 1
    BY <1>1, <2>1, NewCluster
  <2>2. CASE i \in 1 .. Len(q)
    BY <1>1, <2>2, ClusterHas DEF QueueOK
  <2> QED BY <1>1, <2>1, <2>2
<1>3. ASSUME NEW i \in DOMAIN r, NEW j \in DOMAIN r, i <= j PROVE r[j].age <= r[i].age
  <2>1. CASE j = Len(q) + 1
    <3>1. r[j].age = 0 /\ r[i].age \in Nat
      BY <1>1, <1>2, <2>1, NewCluster
    <3> QED BY <3>1
  <2>2. CASE j \in 1 .. Len(q)
    <3>1. i \in DOMAIN q /\ j \in DOMAIN q /\ r[i] = q[i] /\ r[j] = q[j]
      BY <1>1, <1>3, <2>2
    <3> QED BY <1>3, <3>1 DEF QueueOK
  <2> QED BY <1>1, <2>1, <2>2
<1>4. Len(r) <= kMaxPendingProbeClusters
    BY <1>1, ConstantsAre
<1> QED BY <1>1, <1>2, <1>3, <1>4 DEF QueueOK

LEMMA Created ==
    ASSUME NEW b, ProberOK(b), NEW since \in Nat, Soon(b, since), NEW r, r = CreateProbeCluster(b)
    PROVE  ProberOK(r) /\ Soon(r, since)
<1>0. PICK e : e = RemoveExpiredClusters(b)
    OBVIOUS
<1>1. ProberOK(e) /\ Soon(e, since)
    BY <1>0, ExpiredLeave
<1>2. PICK q \in Seq(Clusters) : q = e.clusters /\ QueueOK(q)
    BY <1>1 DEF ProberOK, Probers
<1>3. PICK kept : kept = IF Len(q) < kMaxPendingProbeClusters THEN q ELSE Tail(q)
    OBVIOUS
<1>4. kept \in Seq(Clusters) /\ QueueOK(kept) /\ Len(kept) < kMaxPendingProbeClusters
  <2>1. CASE Len(q) < kMaxPendingProbeClusters
    BY <1>2, <1>3, <2>1
  <2>2. CASE ~(Len(q) < kMaxPendingProbeClusters)
    <3>1. q # <<>> /\ Len(q) <= kMaxPendingProbeClusters
      BY <1>2, <2>2, ConstantsAre DEF QueueOK
    <3>2. Tail(q) \in Seq(Clusters) /\ QueueOK(Tail(q)) /\ Len(Tail(q)) = Len(q) - 1
      BY <1>2, <3>1, TailOK
    <3> QED BY <1>3, <2>2, <3>1, <3>2, ConstantsAre
  <2> QED BY <2>1, <2>2
<1>5. PICK a : a = Append(kept, Cluster) /\ a \in Seq(Clusters) /\ QueueOK(a) /\ a # <<>>
    BY <1>4, AppendOK
<1>6. PICK m : m = [e EXCEPT !.clusters = a]
    OBVIOUS
<1>7. m \in Probers /\ m.clusters = a /\ m.active = e.active /\ m.next = e.next
    BY <1>1, <1>5, <1>6 DEF ProberOK, Probers
<1>8. ProberOK(m) /\ Soon(m, since)
    BY <1>1, <1>5, <1>7 DEF ProberOK, Soon
<1>9. r = MaybeSetActiveState(m, FALSE)
    BY <1>0, <1>2, <1>3, <1>5, <1>6 DEF CreateProbeCluster
<1> QED BY <1>8, <1>9, Activated

LEMMA OverdueLeaves ==
    ASSUME NEW b, ProberOK(b), b.active, NEW since \in Nat, Soon(b, since), NEW r, r = CurrentCluster(b)
    PROVE  ProberOK(r) /\ Soon(r, since)
<1>0. PICK q \in Seq(Clusters) : q = b.clusters /\ QueueOK(q) /\ q # <<>>
    BY DEF ProberOK, Probers
<1>1. CASE ~(IsFinite(b.next) /\ -b.next > AllowedProbeDelay)
  <2>1. r = b
    BY <1>1 DEF CurrentCluster
  <2> QED BY <2>1
<1>2. CASE IsFinite(b.next) /\ -b.next > AllowedProbeDelay
  <2>1. PICK m : m = [b EXCEPT !.clusters = Tail(q)]
    OBVIOUS
  <2>2. r = IF m.clusters = <<>> THEN Inactive(m) ELSE m
    BY <1>0, <1>2, <2>1 DEF CurrentCluster
  <2>3. Tail(q) \in Seq(Clusters) /\ QueueOK(Tail(q))
    BY <1>0, TailOK
  <2>4. m \in Probers /\ m.clusters = Tail(q) /\ m.active = b.active /\ m.next = b.next
    BY <2>1, <2>3 DEF ProberOK, Probers
  <2>5. CASE m.clusters = <<>>
    <3>1. r = Inactive(m)
      BY <2>2, <2>5
    <3>2. ProberOK(r) /\ ~r.active
      BY <2>3, <2>4, <3>1, MadeInactive
    <3> QED BY <3>2 DEF Soon
  <2>6. CASE m.clusters # <<>>
    <3>1. r = m
      BY <2>2, <2>6
    <3> QED BY <2>3, <2>4, <2>6, <3>1 DEF ProberOK, Soon
  <2> QED BY <2>5, <2>6
<1> QED BY <1>1, <1>2

LEMMA DivProd ==
    ASSUME NEW a \in Nat, NEW s \in Nat, s > 0 PROVE (s * a) \div s = a
<1>1. s * a \in Nat /\ s * a = a * s
    OBVIOUS
<1>2. PICK q \in Nat : q = (s * a) \div s
    BY <1>1, DivNat
<1>3. q * s <= a * s /\ a * s < q * s + s
    BY <1>1, <1>2, DivIs
<1>4. CASE a < q
  <2>1. a * s + s <= q * s
    BY <1>4, ProdLess
  <2> QED BY <1>3, <2>1
<1>5. CASE q < a
  <2>1. q * s + s <= a * s
    BY <1>5, ProdLess
  <2> QED BY <1>3, <2>1
<1> QED BY <1>2, <1>4, <1>5

\* What one more probe adds to a cluster that is not finished.
LEMMA ClusterIsShort ==
    ASSUME NEW k \in Clusters, Unfinished(k), NEW data \in 1 .. ProbeSize
    PROVE  /\ k.bytes + data <= (k.probes + 1) * ProbeSize
           /\ k.bytes + data <= ClusterBytes
           /\ ((k.bytes + data) * ProbeDelta) \div ProbeSize \in Nat
           /\ ((k.bytes + data) * ProbeDelta) \div ProbeSize <= ClusterSpan
           /\ ProbeDelta <= ClusterSpan /\ ClusterSpan \in Nat
<1>0. k.bytes \in Nat /\ k.probes \in Nat
    BY ClusterHas
<1> USE ConstantsAre
<1>a. PICK p \in Nat : p = k.probes * ProbeSize /\ (k.probes + 1) * ProbeSize = p + ProbeSize
    BY <1>0
<1>1. k.bytes + data <= (k.probes + 1) * ProbeSize
    BY <1>0, <1>a DEF Unfinished
<1>b. PICK m \in Nat : m = (ProbeCount - 1) * ProbeSize
  <2>1. ProbeCount - 1 \in Nat
    OBVIOUS
  <2> QED BY <2>1, ProdNat
<1>2. k.bytes <= ProbeBytes - 1 \/ k.bytes <= m
  <2>1. CASE k.bytes < ProbeBytes
    BY <1>0, <2>1
  <2>2. CASE k.probes < ProbeCount
    <3>1. k.probes <= ProbeCount - 1 /\ ProbeCount - 1 \in Nat
      BY <1>0, <2>2
    <3>2. k.probes * ProbeSize <= (ProbeCount - 1) * ProbeSize
      BY <1>0, <3>1, ProdMono
    <3> QED BY <1>0, <1>a, <1>b, <3>2 DEF Unfinished
  <2> QED BY <2>1, <2>2 DEF Unfinished
<1>3. PICK x \in Int : x = Most(ProbeBytes - 1, m) /\ x >= ProbeBytes - 1 /\ x >= m
    BY DEF Most
<1>4. ClusterBytes = x + ProbeSize
    BY <1>b, <1>3 DEF ClusterBytes
<1>5. /\ ClusterBytes \in Nat /\ k.bytes + data <= ClusterBytes /\ ProbeSize <= ClusterBytes
      /\ k.bytes + data \in Nat
    BY <1>0, <1>2, <1>3, <1>4
<1>6. PICK u \in Nat, v \in Nat, w \in Nat :
          /\ u = (k.bytes + data) * ProbeDelta /\ v = ClusterBytes * ProbeDelta
          /\ w = ProbeSize * ProbeDelta /\ u <= v /\ w <= v
    BY <1>5, ProdNat, ProdMono
<1>7. /\ u \div ProbeSize \in Nat /\ v \div ProbeSize \in Nat
      /\ u \div ProbeSize <= v \div ProbeSize /\ w \div ProbeSize <= v \div ProbeSize
    BY <1>6, DivNat, DivMono
<1>8. w \div ProbeSize = ProbeDelta
    BY <1>6, DivProd
<1> QED BY <1>1, <1>5, <1>6, <1>7, <1>8 DEF ClusterSpan

LEMMA ProbeBooked ==
    ASSUME NEW b, ProberOK(b), b.active, NEW data \in 1 .. ProbeSize, NEW r, r = ProbeSent(b, data)
    PROVE  ProberOK(r) /\ Soon(r, 0)
<1>0. PICK q \in Seq(Clusters) : q = b.clusters /\ QueueOK(q) /\ q # <<>>
    BY DEF ProberOK, Probers
<1>1. PICK k \in Clusters : k = q[1] /\ Unfinished(k) /\ 1 \in DOMAIN q
    BY <1>0 DEF QueueOK
<1>2. /\ k.age \in Nat /\ k.bytes \in Nat /\ k.probes \in Nat /\ k.started \in Nat
    BY ClusterHas
<1>a. PICK st \in Nat : st = IF k.probes = 0 THEN 0 ELSE k.started
    BY <1>2
<1>3. PICK s : s = [k EXCEPT !.bytes = k.bytes + data, !.probes = k.probes + 1, !.started = st]
    OBVIOUS
<1>4. /\ s \in Clusters /\ s.age = k.age /\ s.bytes = k.bytes + data
      /\ s.probes = k.probes + 1 /\ s.started \in Nat
  <2>1. k.bytes + data \in Nat /\ k.probes + 1 \in Nat
    BY <1>2, ConstantsAre
  <2> QED BY <1>3, <2>1 DEF Clusters
<1>5. PICK x \in Nat : /\ x = (s.bytes * ProbeDelta) \div ProbeSize /\ x <= ClusterSpan
                       /\ ProbeDelta <= ClusterSpan /\ ClusterSpan \in Nat
  <2>1. /\ ((k.bytes + data) * ProbeDelta) \div ProbeSize \in Nat
        /\ ((k.bytes + data) * ProbeDelta) \div ProbeSize <= ClusterSpan
        /\ ProbeDelta <= ClusterSpan /\ ClusterSpan \in Nat
    BY <1>1, ClusterIsShort
  <2> QED BY <1>4, <2>1
<1>6. PICK n : n = Most(x - s.started, ProbeDelta)
    OBVIOUS
<1>7. n \in Int /\ n <= kPausedProcessInterval + kMaxEarlyProbeProcessing
    BY <1>4, <1>5, <1>6, ConstantsAre, ClusterAssumption DEF Most
<1> DEFINE done == s.bytes >= ProbeBytes /\ s.probes >= ProbeCount
<1>9. PICK a : a = IF done THEN Tail(q) ELSE [q EXCEPT ![1] = s]
    OBVIOUS
<1>10. BookProbe(b, data) = [b EXCEPT !.next = n, !.clusters = a]
    BY <1>0, <1>1, <1>a, <1>3, <1>5, <1>6, <1>9 DEF BookProbe
<1>11. a \in Seq(Clusters) /\ QueueOK(a)
  <2>1. CASE done
    BY <1>0, <1>9, <2>1, TailOK
  <2>2. CASE ~done
    <3>1. /\ a \in Seq(Clusters) /\ Len(a) = Len(q) /\ a[1] = s
          /\ \A i \in DOMAIN q : i # 1 => a[i] = q[i]
      BY <1>1, <1>4, <1>9, <2>2
    <3>2. Unfinished(s)
      <4>1. k.bytes + data <= (k.probes + 1) * ProbeSize
        BY <1>1, ClusterIsShort
      <4>2. s.bytes <= s.probes * ProbeSize
        BY <1>4, <4>1
      <4>3. s.bytes < ProbeBytes \/ s.probes < ProbeCount
        BY <1>2, <1>4, <2>2, ConstantsAre
      <4> QED BY <4>2, <4>3 DEF Unfinished
    <3>3. DOMAIN a = DOMAIN q /\ \A i \in DOMAIN q : a[i].age = q[i].age
      BY <1>1, <1>4, <3>1
    <3>4. \A i \in DOMAIN a : Unfinished(a[i])
      BY <1>0, <3>1, <3>2, <3>3 DEF QueueOK
    <3> QED BY <1>0, <3>1, <3>3, <3>4 DEF QueueOK
  <2> QED BY <2>1, <2>2
<1>12. PICK m : m = BookProbe(b, data)
    OBVIOUS
<1>13. m \in Probers /\ m.clusters = a /\ m.active = b.active /\ m.next = n
    BY <1>7, <1>10, <1>11, <1>12 DEF ProberOK, Probers
<1>14. r = IF m.clusters = <<>> THEN Inactive(m) ELSE m
    BY <1>12 DEF ProbeSent
<1>15. CASE a = <<>>
  <2>1. ProberOK(r) /\ ~r.active
    BY <1>11, <1>13, <1>14, <1>15, MadeInactive
  <2> QED BY <2>1 DEF Soon
<1>16. CASE a # <<>>
  <2>1. r = m
    BY <1>13, <1>14, <1>16
  <2>2. n <= Most(0, (kPausedProcessInterval + kMaxEarlyProbeProcessing) - 0)
    BY <1>7, ConstantsAre DEF Most
  <2> QED BY <1>11, <1>13, <1>16, <2>1, <2>2 DEF ProberOK, Soon
<1> QED BY <1>15, <1>16
-----------------------------------------------------------------------------
(* PacingController.                                                         *)

LEMMA ControllerHas ==
    ASSUME NEW d \in Controllers
    PROVE  /\ d.media_debt \in Nat /\ d.padding_debt \in Nat /\ d.rate \in Nat /\ d.rate > 0
           /\ d.padding_rate \in Nat /\ d.padding_rate <= PacingRate
           /\ d.since_send \in Nat /\ d.since_process \in Int
           /\ d.queue \in Nat /\ d.queue <= MaxQueue + ProbeSize + PacingRate
           /\ d.rtx \in Int /\ d.rtx >= -1 /\ d.rtx <= 1 /\ d.prober \in Probers
           /\ d.media_debt <= 2 * PacingRate * kMaxDebtInTime
<1>1. 2 * PacingRate * kMaxDebtInTime \in Nat
    BY ConstantsAre
<1>2. /\ d.media_debt \in 0 .. 2 * PacingRate * kMaxDebtInTime /\ d.padding_debt \in Nat
      /\ d.rate \in {PacingRate, 2 * PacingRate} /\ d.padding_rate \in 0 .. PacingRate
      /\ d.since_send \in Nat /\ d.since_process \in Int
      /\ d.queue \in 0 .. MaxQueue + ProbeSize + PacingRate
      /\ d.rtx \in -1 .. 1 /\ d.prober \in Probers
    BY DEF Controllers
<1> QED BY <1>1, <1>2, ConstantsAre

LEMMA ControllerFlags ==
    ASSUME NEW d \in Controllers
    PROVE  /\ d.seen_first_packet \in BOOLEAN /\ d.congested \in BOOLEAN
           /\ d.paused \in BOOLEAN /\ d.probing_send_failure \in BOOLEAN
BY DEF Controllers

\* What the invariant of a controller depends on.
Kept(d, e) ==
    /\ e.prober = d.prober /\ e.since_send = d.since_send
    /\ e.queue = d.queue /\ e.rtx = d.rtx /\ e.congested = d.congested
    /\ e.probing_send_failure = d.probing_send_failure

LEMMA KeptOK ==
    ASSUME NEW d, ControllerOK(d), NEW e \in Controllers, Kept(d, e)
    PROVE  ControllerOK(e)
BY DEF ControllerOK, Kept, Hopeless, Empty, Unpaced

LEMMA ElapsedOK ==
    ASSUME NEW d, ControllerOK(d), NEW t \in Int, NEW e, e = Elapse(d, t)
    PROVE  ControllerOK(e) /\ Kept(d, e)
<1>0. d \in Controllers
    BY DEF ControllerOK
<1>1. CASE t + d.since_process < 0
  <2>1. e = d
    BY <1>1 DEF Elapse
  <2> QED BY <2>1 DEF Kept
<1>2. CASE ~(t + d.since_process < 0)
  <2> USE ConstantsAre
  <2>1. PICK x \in Nat : x = Least(t + d.since_process, kMaxElapsedTime)
    BY <1>0, <1>2, ControllerHas DEF Least
  <2>2. PICK y \in Nat, z \in Nat : y = d.rate * x /\ z = d.padding_rate * x
    BY <1>0, ControllerHas, ProdNat
  <2>3. PICK m \in Nat : m = Most(0, d.media_debt - y) /\ m <= d.media_debt
    BY <1>0, ControllerHas DEF Most
  <2>4. PICK p \in Nat : p = Most(0, d.padding_debt - z)
    BY <1>0, ControllerHas DEF Most
  <2>5. e = [d EXCEPT !.since_process = -t, !.media_debt = m, !.padding_debt = p]
    BY <1>2, <2>1, <2>2, <2>3, <2>4 DEF Elapse
  <2>6. m \in 0 .. 2 * PacingRate * kMaxDebtInTime /\ -t \in Int
    BY <1>0, <2>3, ControllerHas
  <2>7. e \in Controllers
    BY <1>0, <2>5, <2>6 DEF Controllers
  <2>8. Kept(d, e)
    BY <1>0, <2>5 DEF Kept, Controllers
  <2> QED BY <2>7, <2>8, KeptOK
<1> QED BY <1>1, <1>2

LEMMA PaddingBudgetOK ==
    ASSUME NEW d, ControllerOK(d), NEW size \in Nat, NEW e, e = UpdatePaddingBudgetWithSentData(d, size)
    PROVE  ControllerOK(e) /\ Kept(d, e)
<1>0. d \in Controllers
    BY DEF ControllerOK
<1>1. PICK y \in Nat : y = d.padding_rate * kMaxDebtInTime
    BY <1>0, ControllerHas, ConstantsAre, ProdNat
<1>2. PICK p \in Nat : p = Least(d.padding_debt + size, y)
    BY <1>0, ControllerHas DEF Least
<1>3. e = [d EXCEPT !.padding_debt = p]
    BY <1>1, <1>2 DEF UpdatePaddingBudgetWithSentData
<1>4. e \in Controllers
    BY <1>0, <1>3 DEF Controllers
<1>5. Kept(d, e)
    BY <1>0, <1>3 DEF Kept, Controllers
<1> QED BY <1>4, <1>5, KeptOK

LEMMA RateOK ==
    ASSUME NEW d, ControllerOK(d), NEW e, e = MaybeUpdateMediaRateDueToLongQueue(d)
    PROVE  ControllerOK(e) /\ Kept(d, e)
<1>0. d \in Controllers
    BY DEF ControllerOK
<1>1. PICK x \in {PacingRate, 2 * PacingRate} : e = [d EXCEPT !.rate = x]
    BY DEF MaybeUpdateMediaRateDueToLongQueue
<1>2. e \in Controllers
    BY <1>0, <1>1 DEF Controllers
<1>3. Kept(d, e)
    BY <1>0, <1>1 DEF Kept, Controllers
<1> QED BY <1>2, <1>3, KeptOK

LEMMA SoonResets ==
    ASSUME NEW b, b \in Probers, NEW since \in Nat, Soon(b, since)
    PROVE  Soon(b, 0)
BY ConstantsAre DEF Soon, Most, Probers

\* A packet that was sent: only the time since the last one matters.
SentNow(d, e) ==
    /\ e.prober = d.prober /\ e.since_send = 0
    /\ e.queue = d.queue /\ e.rtx = d.rtx /\ e.congested = d.congested
    /\ e.probing_send_failure = d.probing_send_failure

LEMMA SentOK ==
    ASSUME NEW d, ControllerOK(d), NEW size \in Nat, NEW e, e = OnPacketSent(d, size)
    PROVE  ControllerOK(e) /\ SentNow(d, e)
<1>0. d \in Controllers
    BY DEF ControllerOK
<1>1. PICK s : s = [d EXCEPT !.since_send = 0]
    OBVIOUS
<1>2. s \in Controllers /\ SentNow(d, s)
    BY <1>0, <1>1 DEF SentNow, Controllers
<1>3. ControllerOK(s)
  <2>1. Soon(s.prober, s.since_send)
    BY <1>0, <1>2, ControllerHas, SoonResets DEF ControllerOK, SentNow
  <2> QED BY <1>2, <2>1 DEF ControllerOK, SentNow, Hopeless, Empty, Unpaced
<1>4. CASE size = 0
  <2>1. e = s
    BY <1>1, <1>4 DEF OnPacketSent
  <2> QED BY <1>2, <1>3, <2>1
<1>5. CASE size # 0
  <2>1. PICK y \in Nat : y = d.rate * kMaxDebtInTime /\ y <= 2 * PacingRate * kMaxDebtInTime
    <3>1. d.rate <= 2 * PacingRate /\ d.rate \in Nat /\ 2 * PacingRate \in Nat
      BY <1>0, ConstantsAre DEF Controllers
    <3>2. d.rate * kMaxDebtInTime <= (2 * PacingRate) * kMaxDebtInTime
      BY <3>1, ConstantsAre, ProdMono
    <3> QED BY <3>1, <3>2, ConstantsAre, ProdNat
  <2>2. PICK m \in Nat : m = Least(d.media_debt + size, y) /\ m <= y
    BY <1>0, ControllerHas DEF Least
  <2>3. PICK u : u = [s EXCEPT !.media_debt = m]
    OBVIOUS
  <2>a. s.media_debt = d.media_debt
    BY <1>0, <1>1 DEF Controllers
  <2>4. e = UpdatePaddingBudgetWithSentData(u, size)
    BY <1>1, <1>5, <2>1, <2>2, <2>3, <2>a DEF OnPacketSent
  <2>5. m \in 0 .. 2 * PacingRate * kMaxDebtInTime
    BY <2>1, <2>2, ConstantsAre
  <2>6. u \in Controllers /\ Kept(s, u)
    BY <1>2, <2>3, <2>5 DEF Kept, Controllers
  <2>7. ControllerOK(u)
    BY <1>3, <2>6, KeptOK
  <2>8. ControllerOK(e) /\ Kept(u, e)
    BY <2>4, <2>7, PaddingBudgetOK
  <2> QED BY <1>2, <2>6, <2>8 DEF Kept, SentNow
<1> QED BY <1>4, <1>5

LEMMA ExpirationIs ==
    ASSUME NEW b, b \in Probers
    PROVE  /\ NextClusterExpiration(b) \in Int /\ NextClusterExpiration(b) <= PlusInfinity
           /\ b.clusters # <<>> => NextClusterExpiration(b) = kProbeClusterTimeout - b.clusters[1].age
<1>0. PICK q \in Seq(Clusters) : q = b.clusters
    BY DEF Probers
<1>1. CASE q = <<>>
    BY <1>0, <1>1, InfinitiesAre DEF NextClusterExpiration
<1>2. CASE q # <<>>
  <2>1. q[1].age \in Nat
    BY <1>2, ClusterHas
  <2>2. NextClusterExpiration(b) = kProbeClusterTimeout - q[1].age
    BY <1>0, <1>2 DEF NextClusterExpiration
  <2> QED BY <1>0, <2>1, <2>2, InfinitiesAre, ConstantsAre
<1> QED BY <1>1, <1>2

LEMMA PaddingDrainIs ==
    ASSUME NEW d \in Controllers, d.padding_rate > 0
    PROVE  PaddingDrainTime(d) \in Int
<1>1. PICK x \in Nat, y \in Nat : x = d.media_debt \div d.rate /\ y = d.padding_debt \div d.padding_rate
    BY ControllerHas, DivNat
<1>2. PICK t \in Int : t = Most(x, y)
    BY DEF Most
<1> QED BY <1>1, <1>2 DEF PaddingDrainTime

LEMMA PacedTimeIs ==
    ASSUME NEW d \in Controllers
    PROVE  PacedTime(d) \in Int /\ PacedTime(d) <= KeepaliveTime(d)
<1>1. PICK x \in Nat : x = d.media_debt \div d.rate
    BY ControllerHas, DivNat
<1>2. PICK y \in Int : y = IF d.queue > 0 THEN (IF Burst > x THEN 0 ELSE x)
                           ELSE IF d.padding_rate > 0 THEN PaddingDrainTime(d)
                           ELSE kPausedProcessInterval
    BY PaddingDrainIs, ConstantsAre
<1>3. KeepaliveTime(d) \in Int /\ y - d.since_process \in Int
    BY ControllerHas, ConstantsAre DEF KeepaliveTime
<1>4. PacedTime(d) = Least(KeepaliveTime(d), y - d.since_process)
    BY <1>1, <1>2 DEF PacedTime
<1> QED BY <1>3, <1>4, LeastMost

\* The time of the next packet without the expiration of a cluster.
PlannedTime(d) ==
    IF d.paused THEN KeepaliveTime(d)
    ELSE IF ProbeFirst(d) THEN ProbeTime(d)
    ELSE IF Unpaced(d) THEN -d.rtx
    ELSE IF d.congested \/ ~d.seen_first_packet THEN KeepaliveTime(d)
    ELSE PacedTime(d)

LEMMA PlannedTimeIs ==
    ASSUME NEW d, ControllerOK(d)
    PROVE  /\ PlannedTime(d) \in Int
           /\ NextSendTime(d) = Least(NextClusterExpiration(d.prober), PlannedTime(d))
           /\ PlannedTime(d) > Margin(d) =>
                PlannedTime(d) <= (kPausedProcessInterval - d.since_send) + Margin(d)
<1>0. d \in Controllers /\ d.prober \in Probers /\ d.since_send \in Nat /\ d.rtx \in Int
    BY ControllerHas DEF ControllerOK
<1>1. NextSendTime(d) = Least(NextClusterExpiration(d.prober), PlannedTime(d))
    BY DEF NextSendTime, PlannedTime
<1>2. PICK m \in Nat : m = Margin(d) /\ (d.prober.active => m = kMaxEarlyProbeProcessing)
    BY ConstantsAre DEF Margin
<1>3. PICK k \in Int : k = KeepaliveTime(d) /\ k = kPausedProcessInterval - d.since_send
    BY <1>0, ConstantsAre DEF KeepaliveTime
<1>4. CASE d.paused
  <2>1. PlannedTime(d) = k
    BY <1>3, <1>4 DEF PlannedTime
  <2> QED BY <1>1, <1>2, <1>3, <2>1
<1>5. CASE ~d.paused /\ ProbeFirst(d)
  <2>1. PlannedTime(d) = ProbeTime(d) /\ d.prober.active
    BY <1>5 DEF PlannedTime, ProbeFirst
  <2>2. d.prober.next \in Int
    BY <1>0, ProberHas
  <2>3. ProbeTime(d) \in Int
    BY <2>2 DEF ProbeTime
  <2>4. \/ ProbeTime(d) = 0
        \/ ProbeTime(d) <= Most(0, (kPausedProcessInterval + kMaxEarlyProbeProcessing) - d.since_send)
    BY <2>1 DEF ProbeTime, ControllerOK, Soon
  <2>5. ProbeTime(d) > m => ProbeTime(d) <= (kPausedProcessInterval - d.since_send) + m
    BY <1>0, <1>2, <2>1, <2>3, <2>4, ConstantsAre DEF Most
  <2> QED BY <1>1, <1>2, <2>1, <2>3, <2>5
<1>6. CASE ~d.paused /\ ~ProbeFirst(d) /\ Unpaced(d)
  <2>1. PlannedTime(d) = -d.rtx /\ -d.rtx <= 0
    <3>1. d.rtx # -1
      BY <1>6 DEF Unpaced, NoPacket
    <3> QED BY <1>0, <1>6, <3>1, ControllerHas DEF PlannedTime
  <2> QED BY <1>0, <1>1, <1>2, <2>1
<1>7. CASE ~d.paused /\ ~ProbeFirst(d) /\ ~Unpaced(d)
  <2>1. PlannedTime(d) \in {k, PacedTime(d)}
    BY <1>3, <1>7 DEF PlannedTime
  <2>2. PacedTime(d) \in Int /\ PacedTime(d) <= k
    BY <1>0, <1>3, PacedTimeIs
  <2> QED BY <1>1, <1>2, <1>3, <2>1, <2>2
<1> QED BY <1>4, <1>5, <1>6, <1>7

LEMMA SendTimeIs ==
    ASSUME NEW d, ControllerOK(d)
    PROVE  /\ NextSendTime(d) \in Int /\ NextSendTime(d) <= PlusInfinity
           /\ NextSendTime(d) > Margin(d) =>
                NextSendTime(d) <= (kPausedProcessInterval - d.since_send) + Margin(d)
           /\ d.prober.clusters # <<>> =>
                NextSendTime(d) <= kProbeClusterTimeout - d.prober.clusters[1].age
           /\ Margin(d) \in Nat
<1>0. d \in Controllers /\ d.prober \in Probers /\ d.since_send \in Nat
    BY ControllerHas DEF ControllerOK
<1>1. PICK p \in Int : p = PlannedTime(d) /\ NextSendTime(d) = Least(NextClusterExpiration(d.prober), p)
                       /\ (p > Margin(d) => p <= (kPausedProcessInterval - d.since_send) + Margin(d))
    BY PlannedTimeIs
<1>2. PICK x \in Int : /\ x = NextClusterExpiration(d.prober) /\ x <= PlusInfinity
                       /\ d.prober.clusters # <<>> => x = kProbeClusterTimeout - d.prober.clusters[1].age
    BY <1>0, ExpirationIs
<1>3. Margin(d) \in Nat
    BY ConstantsAre DEF Margin
<1>4. NextSendTime(d) \in Int /\ NextSendTime(d) <= x /\ NextSendTime(d) <= p
    BY <1>1, <1>2, LeastMost
<1> QED BY <1>0, <1>1, <1>2, <1>3, <1>4, InfinitiesAre, ConstantsAre
-----------------------------------------------------------------------------
(* The operations of the controller keep its invariant.                      *)

Held(d) == d.prober.active /\ d.probing_send_failure

\* e is d with new packets: nothing is held back.
Awake(d, e) ==
    /\ e.since_send = d.since_send /\ ~Held(e)
    /\ d.prober.active => e.prober.active

LEMMA NotHeldOK ==
    ASSUME NEW d \in Controllers, ProberOK(d.prober), Soon(d.prober, d.since_send), ~Held(d)
    PROVE  ControllerOK(d)
BY DEF ControllerOK, Hopeless, Held

LEMMA WokenOK ==
    ASSUME NEW d, ControllerOK(d), NEW large \in BOOLEAN, NEW e, e = EnqueueProbes(d, large)
    PROVE  ControllerOK(e) /\ Awake(d, e) /\ e.queue = d.queue
<1>0. d \in Controllers /\ ProberOK(d.prober) /\ d.since_send \in Nat /\ Soon(d.prober, d.since_send)
    BY ControllerHas DEF ControllerOK
<1>1. PICK b : b = MaybeSetActiveState(d.prober, large)
    OBVIOUS
<1>2. ProberOK(b) /\ Soon(b, d.since_send) /\ (d.prober.active => b = d.prober)
    BY <1>0, <1>1, Activated
<1>3. b \in Probers /\ b.active \in BOOLEAN
    BY <1>2 DEF ProberOK, Probers
<1>4. e = [d EXCEPT !.prober = b, !.probing_send_failure = d.probing_send_failure /\ ~b.active]
    BY <1>1 DEF EnqueueProbes
<1>5. (d.probing_send_failure /\ ~b.active) \in BOOLEAN
    OBVIOUS
<1>6. /\ e \in Controllers /\ e.prober = b /\ e.since_send = d.since_send /\ e.queue = d.queue
      /\ e.probing_send_failure = (d.probing_send_failure /\ ~b.active)
    BY <1>0, <1>3, <1>4, <1>5 DEF Controllers
<1>7. Awake(d, e)
    BY <1>2, <1>6 DEF Awake, Held
<1> QED BY <1>2, <1>6, <1>7, NotHeldOK DEF Awake

LEMMA EnqueuedOK ==
    ASSUME NEW d, ControllerOK(d), NEW kind \in {"media", "rtx", "padding"},
           d.queue + 1 <= MaxQueue + ProbeSize + PacingRate \/ kind = "rtx",
           NEW e, e = EnqueuePacket(d, kind)
    PROVE  /\ ControllerOK(e) /\ Awake(d, e)
           /\ e.queue = IF kind = "rtx" THEN d.queue ELSE d.queue + 1
<1>0. d \in Controllers
    BY DEF ControllerOK
<1> DEFINE large == kind # "padding"
<1>1. PICK p : p = EnqueueProbes(d, large)
    OBVIOUS
<1>2. ControllerOK(p) /\ Awake(d, p) /\ p.queue = d.queue
  <2>1. large \in BOOLEAN
    OBVIOUS
  <2> HIDE DEF large
  <2> QED BY <1>1, <2>1, WokenOK
<1>3. PICK t : t = Least(0, NextSendTime(p))
    OBVIOUS
<1>4. t \in Int
    BY <1>2, <1>3, SendTimeIs DEF Least
<1>5. PICK f : f = IF Empty(p) THEN Elapse(p, t) ELSE p
    OBVIOUS
<1>6. ControllerOK(f) /\ Kept(p, f)
  <2>1. CASE Empty(p)
    BY <1>2, <1>4, <1>5, <2>1, ElapsedOK
  <2>2. CASE ~Empty(p)
    BY <1>2, <1>5, <2>2 DEF Kept
  <2> QED BY <2>1, <2>2
<1>7. f \in Controllers /\ Awake(d, f) /\ f.queue = d.queue
    BY <1>2, <1>6 DEF ControllerOK, Kept, Awake, Held
<1>8. PICK q : q = IF kind = "rtx" THEN [f EXCEPT !.rtx = 0] ELSE [f EXCEPT !.queue = f.queue + 1]
    OBVIOUS
<1>9. /\ q \in Controllers /\ q.prober = f.prober /\ q.since_send = f.since_send
      /\ q.probing_send_failure = f.probing_send_failure
      /\ q.queue = IF kind = "rtx" THEN d.queue ELSE d.queue + 1
  <2>1. CASE kind = "rtx"
    <3>1. q = [f EXCEPT !.rtx = 0]
      BY <1>8, <2>1
    <3> QED BY <1>7, <2>1, <3>1 DEF Controllers
  <2>2. CASE kind # "rtx"
    <3>1. q = [f EXCEPT !.queue = f.queue + 1]
      BY <1>8, <2>2
    <3>2. f.queue + 1 \in 0 .. MaxQueue + ProbeSize + PacingRate
      BY <1>0, <1>7, <2>2, ControllerHas, ConstantsAre
    <3> QED BY <1>7, <2>2, <3>1, <3>2 DEF Controllers
  <2> QED BY <2>1, <2>2
<1>10. PICK s : s = [q EXCEPT !.seen_first_packet = TRUE]
    OBVIOUS
<1>11. /\ s \in Controllers /\ s.prober = f.prober /\ s.since_send = f.since_send
       /\ s.probing_send_failure = f.probing_send_failure /\ s.queue = q.queue
    BY <1>9, <1>10 DEF Controllers
<1>12. ControllerOK(s) /\ Awake(d, s)
  <2>1. Awake(d, s)
    BY <1>7, <1>11 DEF Awake, Held
  <2>2. ~Held(s) /\ ProberOK(s.prober) /\ Soon(s.prober, s.since_send)
    BY <1>6, <1>11, <2>1 DEF Awake, ControllerOK
  <2> QED BY <1>11, <2>1, <2>2, NotHeldOK
<1>13. e = MaybeUpdateMediaRateDueToLongQueue(s)
    BY <1>1, <1>3, <1>5, <1>8, <1>10 DEF EnqueuePacket
<1>14. ControllerOK(e) /\ Kept(s, e)
    BY <1>12, <1>13, RateOK
<1> QED BY <1>9, <1>11, <1>12, <1>14 DEF Kept, Awake, Held

LEMMA BatchOK ==
    ASSUME NEW d, ControllerOK(d), NEW kind \in {"media", "padding"}, NEW n \in Nat, n > 0,
           d.queue + n <= MaxQueue + ProbeSize + PacingRate, NEW e, e = EnqueueBatch(d, kind, n)
    PROVE  ControllerOK(e) /\ Awake(d, e)
<1>0. d.queue \in Nat
    BY ControllerHas DEF ControllerOK
<1>1. PICK p : p = EnqueuePacket(d, kind)
    OBVIOUS
<1>2. ControllerOK(p) /\ Awake(d, p) /\ p.queue = d.queue + 1
  <2>1. d.queue + 1 <= MaxQueue + ProbeSize + PacingRate /\ kind # "rtx" /\ kind \in {"media", "rtx", "padding"}
    BY <1>0, ConstantsAre
  <2> QED BY <1>1, <2>1, EnqueuedOK
<1>3. PICK q : q = [p EXCEPT !.queue = p.queue + (n - 1)]
    OBVIOUS
<1>4. /\ q \in Controllers /\ q.prober = p.prober /\ q.since_send = p.since_send
      /\ q.probing_send_failure = p.probing_send_failure
  <2>1. p.queue + (n - 1) \in 0 .. MaxQueue + ProbeSize + PacingRate /\ p \in Controllers
    BY <1>0, <1>2, ConstantsAre DEF ControllerOK
  <2> QED BY <1>3, <2>1 DEF Controllers
<1>5. ControllerOK(q) /\ Awake(d, q)
  <2>1. Awake(d, q)
    BY <1>2, <1>4 DEF Awake, Held
  <2>2. ~Held(q) /\ ProberOK(q.prober) /\ Soon(q.prober, q.since_send)
    BY <1>2, <1>4, <2>1 DEF Awake, ControllerOK
  <2> QED BY <1>4, <2>1, <2>2, NotHeldOK
<1>6. e = MaybeUpdateMediaRateDueToLongQueue(q)
    BY <1>1, <1>3 DEF EnqueueBatch
<1>7. ControllerOK(e) /\ Kept(q, e)
    BY <1>5, <1>6, RateOK
<1> QED BY <1>5, <1>7 DEF Kept, Awake, Held

LEMMA CongestionOK ==
    ASSUME NEW d, ControllerOK(d), NEW e, e = SetCongested(d, ~d.congested)
    PROVE  ControllerOK(e)
<1>0. d \in Controllers /\ d.congested \in BOOLEAN /\ d.probing_send_failure \in BOOLEAN
    BY ControllerFlags DEF ControllerOK
<1>1. CASE d.congested
  <2>1. PICK f : f = Elapse(d, 0)
    OBVIOUS
  <2>2. ControllerOK(f) /\ Kept(d, f) /\ f \in Controllers
    BY <2>1, ElapsedOK DEF ControllerOK
  <2>3. e = [f EXCEPT !.congested = FALSE, !.probing_send_failure = FALSE]
    BY <1>0, <1>1, <2>1 DEF SetCongested
  <2>4. /\ e \in Controllers /\ e.prober = f.prober /\ e.since_send = f.since_send
        /\ e.probing_send_failure = FALSE
    BY <2>2, <2>3 DEF Controllers
  <2> QED BY <2>2, <2>4, NotHeldOK DEF Held, ControllerOK
<1>2. CASE ~d.congested
  <2>1. e = [d EXCEPT !.congested = TRUE, !.probing_send_failure = d.probing_send_failure]
    BY <1>0, <1>2 DEF SetCongested
  <2>2. /\ e \in Controllers /\ e.prober = d.prober /\ e.since_send = d.since_send
        /\ e.probing_send_failure = d.probing_send_failure /\ e.congested = TRUE
        /\ e.queue = d.queue /\ e.rtx = d.rtx
    BY <1>0, <2>1 DEF Controllers
  <2>3. Hopeless(e)
    BY <2>2 DEF ControllerOK, Hopeless, Empty, Unpaced
  <2> QED BY <2>2, <2>3 DEF ControllerOK
<1> QED BY <1>0, <1>1, <1>2

LEMMA AllowOK ==
    ASSUME NEW d, ControllerOK(d), NEW allow \in BOOLEAN,
           NEW e, e = SetAllowProbeWithoutMediaPacket(d, allow)
    PROVE  ControllerOK(e)
<1>0. d \in Controllers /\ d.probing_send_failure \in BOOLEAN /\ d.since_send \in Nat
    BY ControllerFlags, ControllerHas DEF ControllerOK
<1>1. PICK a : a = [d.prober EXCEPT !.allow = allow]
    OBVIOUS
<1>2. /\ a \in Probers /\ a.clusters = d.prober.clusters /\ a.active = d.prober.active
      /\ a.next = d.prober.next /\ a.allow = allow
    BY <1>0, <1>1, ControllerHas DEF Probers
<1>3. ProberOK(a) /\ Soon(a, d.since_send)
    BY <1>2 DEF ControllerOK, ProberOK, Soon
<1>4. PICK b : b = MaybeSetActiveState(a, FALSE)
    OBVIOUS
<1>5. ProberOK(b) /\ Soon(b, d.since_send)
    BY <1>0, <1>3, <1>4, Activated
<1>6. b \in Probers /\ b.active \in BOOLEAN
    BY <1>5, ProberHas DEF ProberOK
<1>7. e = [d EXCEPT !.prober = b,
                    !.probing_send_failure = d.probing_send_failure /\ ~(allow /\ b.active)]
    BY <1>1, <1>4 DEF SetAllowProbeWithoutMediaPacket
<1>8. (d.probing_send_failure /\ ~(allow /\ b.active)) \in BOOLEAN
    OBVIOUS
<1>9. /\ e \in Controllers /\ e.prober = b /\ e.since_send = d.since_send
      /\ e.probing_send_failure = (d.probing_send_failure /\ ~(allow /\ b.active))
      /\ e.queue = d.queue /\ e.rtx = d.rtx /\ e.congested = d.congested
    BY <1>0, <1>6, <1>7, <1>8 DEF Controllers
<1>10. CASE allow
    BY <1>5, <1>9, <1>10, NotHeldOK DEF Held
<1>11. CASE ~allow
  <2>1. b.active = d.prober.active
    BY <1>2, <1>4, <1>11 DEF MaybeSetActiveState
  <2>2. Hopeless(e)
    BY <1>9, <2>1 DEF ControllerOK, Hopeless, Empty, Unpaced
  <2> QED BY <1>5, <1>9, <2>2 DEF ControllerOK
<1> QED BY <1>10, <1>11

LEMMA ResumedOK ==
    ASSUME NEW d, ControllerOK(d), NEW e, e = Resume(d)
    PROVE  ControllerOK(e)
<1>0. d \in Controllers /\ d.since_process \in Int
    BY ControllerHas DEF ControllerOK
<1>1. PICK x \in Int : x = IF d.paused THEN 0 ELSE d.since_process
    BY <1>0
<1>2. e = [d EXCEPT !.paused = FALSE, !.since_process = x]
    BY <1>1 DEF Resume
<1>3. e \in Controllers /\ Kept(d, e)
    BY <1>0, <1>2 DEF Kept, Controllers
<1> QED BY <1>3, KeptOK

LEMMA KeepaliveOK ==
    ASSUME NEW d, ControllerOK(d), NEW e, e = SendKeepalive(d)
    PROVE  ControllerOK(e)
<1>1. CASE ~KeepaliveDue(d)
    BY <1>1 DEF SendKeepalive
<1>2. CASE KeepaliveDue(d)
  <2>1. PICK n \in Nat : n = IF KeepalivePacket(d) THEN 1 ELSE 0
    OBVIOUS
  <2>2. e = OnPacketSent(d, n)
    BY <1>2, <2>1 DEF SendKeepalive
  <2> QED BY <2>2, SentOK
<1> QED BY <1>1, <1>2

LEMMA WithoutExpiredOK ==
    ASSUME NEW d, ControllerOK(d), NEW e, e = WithoutExpired(d)
    PROVE  ControllerOK(e)
<1>0. d \in Controllers /\ d.since_send \in Nat /\ ProberOK(d.prober) /\ Soon(d.prober, d.since_send)
    BY ControllerHas DEF ControllerOK
<1>a. d.probing_send_failure \in BOOLEAN
    BY <1>0, ControllerFlags
<1>1. PICK b : b = RemoveExpiredClusters(d.prober)
    OBVIOUS
<1>2. /\ ProberOK(b) /\ Soon(b, d.since_send)
      /\ ~FrontExpired(d.prober) => b = d.prober
    BY <1>0, <1>1, ExpiredLeave
<1>3. b \in Probers
    BY <1>2 DEF ProberOK
<1> DEFINE f == d.probing_send_failure /\ ~FrontExpired(d.prober)
<1>4. f \in BOOLEAN
    OBVIOUS
<1>5. e = [d EXCEPT !.prober = b, !.probing_send_failure = f]
    BY <1>1 DEF WithoutExpired
<1>6. CASE FrontExpired(d.prober)
  <2>1. ~f
    BY <1>6
  <2> HIDE DEF f
  <2>2. e \in Controllers /\ e.prober = b /\ e.since_send = d.since_send /\ e.probing_send_failure = f
    BY <1>0, <1>3, <1>4, <1>5 DEF Controllers
  <2> QED BY <1>2, <2>1, <2>2, NotHeldOK DEF Held
<1>7. CASE ~FrontExpired(d.prober)
  <2>1. f = d.probing_send_failure /\ b = d.prober
    BY <1>a, <1>2, <1>7
  <2> HIDE DEF f
  <2>2. e \in Controllers /\ Kept(d, e)
    BY <1>0, <1>5, <2>1 DEF Kept, Controllers
  <2> QED BY <2>2, KeptOK
<1> QED BY <1>6, <1>7

LEMMA CurrentOK ==
    ASSUME NEW d, ControllerOK(d), NEW e, e = TakeCurrentCluster(d)
    PROVE  ControllerOK(e)
<1>0. d \in Controllers /\ d.since_send \in Nat /\ ProberOK(d.prober) /\ Soon(d.prober, d.since_send)
    BY ControllerHas DEF ControllerOK
<1>1. CASE ~d.prober.active
    BY <1>1 DEF TakeCurrentCluster
<1>2. CASE d.prober.active
  <2>1. PICK b : b = CurrentCluster(d.prober)
    OBVIOUS
  <2>2. ProberOK(b) /\ Soon(b, d.since_send)
    BY <1>0, <1>2, <2>1, OverdueLeaves
  <2>3. b \in Probers
    BY <2>2 DEF ProberOK
  <2>4. e = [d EXCEPT !.prober = b]
    BY <1>2, <2>1 DEF TakeCurrentCluster
  <2>5. /\ e \in Controllers /\ e.prober = b /\ e.since_send = d.since_send
        /\ e.probing_send_failure = d.probing_send_failure /\ e.congested = d.congested
        /\ e.queue = d.queue /\ e.rtx = d.rtx
    BY <1>0, <2>3, <2>4 DEF Controllers
  <2>6. Hopeless(e)
    BY <1>2, <2>5 DEF ControllerOK, Hopeless, Empty, Unpaced
  <2> QED BY <2>2, <2>5, <2>6 DEF ControllerOK
<1> QED BY <1>1, <1>2

\* The probe of a send loop is marked unsendable only when it is.
LEMMA LeftOK ==
    ASSUME NEW d, ControllerOK(d), NEW l \in Loops,
           l.is_probing => /\ d.prober.active /\ l.data <= ProbeSize
                           /\ l.data > 0 => d.since_send = 0
                           /\ l.data = 0 => Empty(d) /\ (d.congested \/ ~can_pad),
           NEW e, e = LeaveSendLoop(d, l)
    PROVE  ControllerOK(e)
<1>0. d \in Controllers /\ ProberOK(d.prober) /\ l.data \in Nat
    BY DEF ControllerOK, Loops
<1>1. PICK f : f = IF ~l.is_probing THEN d
                   ELSE IF l.data = 0 THEN [d EXCEPT !.probing_send_failure = TRUE]
                   ELSE [d EXCEPT !.probing_send_failure = FALSE,
                                  !.prober = ProbeSent(d.prober, l.data)]
    OBVIOUS
<1>2. e = MaybeUpdateMediaRateDueToLongQueue(f)
    BY <1>1 DEF LeaveSendLoop
<1>3. ControllerOK(f)
  <2>1. CASE ~l.is_probing
    BY <1>1, <2>1
  <2>2. CASE l.is_probing /\ l.data = 0
    <3>1. f = [d EXCEPT !.probing_send_failure = TRUE]
      BY <1>1, <2>2
    <3>2. /\ f \in Controllers /\ f.prober = d.prober /\ f.since_send = d.since_send
          /\ f.congested = d.congested /\ f.queue = d.queue /\ f.rtx = d.rtx
      BY <1>0, <3>1 DEF Controllers
    <3>3. Hopeless(f)
      BY <2>2, <3>2 DEF Hopeless, Empty, Unpaced
    <3> QED BY <3>2, <3>3 DEF ControllerOK
  <2>3. CASE l.is_probing /\ l.data # 0
    <3>1. l.data \in 1 .. ProbeSize /\ d.since_send = 0 /\ d.prober.active
      BY <1>0, <2>3, ConstantsAre
    <3>2. PICK b : b = ProbeSent(d.prober, l.data)
      OBVIOUS
    <3>3. ProberOK(b) /\ Soon(b, 0) /\ b \in Probers
      BY <1>0, <3>1, <3>2, ProbeBooked DEF ProberOK
    <3>4. f = [d EXCEPT !.probing_send_failure = FALSE, !.prober = b]
      BY <1>1, <2>3, <3>2
    <3>5. f \in Controllers /\ f.prober = b /\ f.since_send = 0 /\ f.probing_send_failure = FALSE
      BY <1>0, <3>1, <3>3, <3>4 DEF Controllers
    <3> QED BY <3>3, <3>5, NotHeldOK DEF Held
  <2> QED BY <2>1, <2>2, <2>3
<1> QED BY <1>2, <1>3, RateOK

LEMMA TakenOK ==
    ASSUME NEW d, ControllerOK(d), NEW l, Pending(d, l) # "none", NEW e, e = Taken(d, l)
    PROVE  ControllerOK(e) /\ e.prober = d.prober
<1>0. d \in Controllers
    BY DEF ControllerOK
<1>1. CASE Pending(d, l) = "rtx"
  <2>1. e = [d EXCEPT !.rtx = NoPacket] /\ ~Empty(d)
    BY <1>1 DEF Taken, Pending, Empty
  <2>2. /\ e \in Controllers /\ e.prober = d.prober /\ e.since_send = d.since_send
        /\ e.probing_send_failure = d.probing_send_failure
    BY <1>0, <2>1 DEF Controllers, NoPacket
  <2>3. ~Held(e)
    BY <2>1, <2>2 DEF Held, ControllerOK, Hopeless
  <2> QED BY <2>2, <2>3, NotHeldOK DEF ControllerOK
<1>2. CASE Pending(d, l) = "paced"
  <2>1. e = [d EXCEPT !.queue = d.queue - 1] /\ d.queue > 0
    BY <1>2 DEF Taken, Pending
  <2>2. d.queue - 1 \in 0 .. MaxQueue + ProbeSize + PacingRate /\ ~Empty(d)
    BY <1>0, <2>1, ControllerHas, ConstantsAre DEF Empty
  <2>3. /\ e \in Controllers /\ e.prober = d.prober /\ e.since_send = d.since_send
        /\ e.probing_send_failure = d.probing_send_failure
    BY <1>0, <2>1, <2>2 DEF Controllers
  <2>4. ~Held(e)
    BY <2>2, <2>3 DEF Held, ControllerOK, Hopeless
  <2> QED BY <2>3, <2>4, NotHeldOK DEF ControllerOK
<1>3. CASE Pending(d, l) \notin {"rtx", "paced"}
    BY <1>3 DEF Taken
<1> QED BY <1>1, <1>2, <1>3
-----------------------------------------------------------------------------
(* The steps keep the invariant.                                             *)

LEMMA NextControllerOK ==
    ASSUME NEW d, ControllerOK(d), controller' = d, can_pad' = can_pad
    PROVE  ControllerOK(controller)'
BY DEF ControllerOK, Hopeless, Empty, Unpaced

\* A step inside MaybeProcessPackets.
LEMMA ProcessingKeepsTimer ==
    ASSUME TimerOK, pc \in {"schedule", "send"}, pc' \in {"schedule", "send"},
           UNCHANGED <<is_started, transport_ready, next_process_time, delayed_tasks, then, can_pad>>
    PROVE  TimerOK' /\ WorkingOK'
BY DEF TimerOK, WorkingOK, Working

LEMMA NoLoopIs == NoLoop \in Loops /\ ~NoLoop.is_probing /\ NoLoop.data = 0
BY DEF NoLoop, Loops

LEMMA ProcessPacketsStep ==
    ASSUME PacerInv, ProcessPackets
    PROVE  PacerInv'
<1>0. ControllerOK(controller) /\ TimerOK /\ pc = "schedule"
    BY DEF PacerInv, ProcessPackets
<1>1. PICK d, t :
        /\ d = SendKeepalive(WithoutExpired(controller)) /\ t = NextSendTime(d)
        /\ IF Margin(d) < t
           THEN controller' = Elapse(d, 0) /\ UNCHANGED <<pc, loop>>
           ELSE \E e \in {TakeCurrentCluster(Elapse(d, t))} :
                  /\ controller' = e /\ pc' = "send"
                  /\ loop' = IF e.prober.active
                             THEN [is_probing |-> TRUE, rec |-> ProbeSize, data |-> 0,
                                   bytes |-> e.prober.clusters[1].bytes]
                             ELSE NoLoop
    BY DEF ProcessPackets
<1>a. UNCHANGED <<is_started, transport_ready, next_process_time, delayed_tasks, then, can_pad>>
    BY DEF ProcessPackets
<1>2. ControllerOK(d)
  <2>1. PICK w : w = WithoutExpired(controller)
    OBVIOUS
  <2>2. ControllerOK(w)
    BY <1>0, <2>1, WithoutExpiredOK
  <2> QED BY <1>1, <2>1, <2>2, KeepaliveOK
<1>3. t \in Int
    BY <1>1, <1>2, SendTimeIs
<1>4. CASE Margin(d) < t
  <2>1. controller' = Elapse(d, 0) /\ pc' = "schedule"
    BY <1>0, <1>1, <1>4
  <2>2. ControllerOK(controller)'
    BY <1>2, <1>a, <2>1, ElapsedOK, NextControllerOK
  <2>3. TimerOK' /\ WorkingOK'
    BY <1>0, <1>a, <2>1, ProcessingKeepsTimer
  <2> QED BY <2>1, <2>2, <2>3 DEF PacerInv
<1>5. CASE ~(Margin(d) < t)
  <2>1. PICK f : f = Elapse(d, t)
    OBVIOUS
  <2>2. ControllerOK(f)
    BY <1>2, <1>3, <2>1, ElapsedOK
  <2>3. PICK e : /\ e = TakeCurrentCluster(f) /\ controller' = e /\ pc' = "send"
                 /\ loop' = IF e.prober.active
                            THEN [is_probing |-> TRUE, rec |-> ProbeSize, data |-> 0,
                                  bytes |-> e.prober.clusters[1].bytes]
                            ELSE NoLoop
    BY <1>1, <1>5, <2>1
  <2>4. ControllerOK(e)
    BY <2>2, <2>3, CurrentOK
  <2>5. ControllerOK(controller)'
    BY <1>a, <2>3, <2>4, NextControllerOK
  <2>6. LoopOK(e, loop')
    <3>1. CASE e.prober.active
      <4>1. PICK q \in Seq(Clusters) : q = e.prober.clusters /\ q # <<>>
        BY <2>4, <3>1 DEF ControllerOK, ProberOK, Probers
      <4>2. q[1].bytes \in Nat
        BY <4>1, ClusterHas
      <4>3. loop' = [is_probing |-> TRUE, rec |-> ProbeSize, data |-> 0, bytes |-> q[1].bytes]
        BY <2>3, <3>1, <4>1
      <4>4. loop' \in Loops
        BY <4>2, <4>3 DEF Loops
      <4> QED BY <3>1, <4>3, <4>4, ConstantsAre DEF LoopOK
    <3>2. CASE ~e.prober.active
      BY <2>3, <3>2, NoLoopIs DEF LoopOK
    <3> QED BY <3>1, <3>2
  <2>7. LoopOK(controller, loop)'
    BY <2>3, <2>6 DEF LoopOK
  <2>8. TimerOK' /\ WorkingOK'
    BY <1>0, <1>a, <2>3, ProcessingKeepsTimer
  <2> QED BY <2>5, <2>7, <2>8 DEF PacerInv
<1> QED BY <1>4, <1>5

LEMMA SendPacketStep ==
    ASSUME PacerInv, SendPacket
    PROVE  PacerInv'
<1>0. ControllerOK(controller) /\ TimerOK /\ pc = "send" /\ LoopOK(controller, loop)
    BY DEF PacerInv, SendPacket
<1>a. UNCHANGED <<is_started, transport_ready, next_process_time, delayed_tasks, then, can_pad>>
    BY DEF SendPacket
<1>b. loop \in Loops /\ loop.data \in Nat /\ loop.rec \in Int /\ loop.is_probing \in BOOLEAN
    BY <1>0, ConstantsAre DEF LoopOK, Loops
<1>1. PICK l : l = [loop EXCEPT !.data = loop.data + 1,
                                !.bytes = IF loop.is_probing THEN 1 ELSE loop.bytes]
    OBVIOUS
<1>2. /\ l \in Loops /\ l.data = loop.data + 1 /\ l.is_probing = loop.is_probing
      /\ l.rec = loop.rec
  <2>1. loop.data + 1 \in Nat /\ (IF loop.is_probing THEN 1 ELSE loop.bytes) \in Nat
    BY <1>b DEF Loops
  <2> QED BY <1>1, <1>b, <2>1 DEF Loops
<1> DEFINE break(t) == IF l.is_probing THEN l.data >= l.rec ELSE t > 0
<1>3. PICK d, t :
        /\ d = OnPacketSent(Taken(controller, loop), 1) /\ t = NextSendTime(d)
        /\ controller' = IF break(t) THEN LeaveSendLoop(d, l) ELSE Elapse(d, Least(t, 0))
        /\ pc' = IF break(t) THEN "schedule" ELSE "send"
        /\ loop' = IF break(t) THEN NoLoop ELSE l
    BY <1>1 DEF SendPacket
<1>4. ControllerOK(d) /\ d.prober = controller.prober /\ d.since_send = 0
  <2>1. PICK k : k = Taken(controller, loop)
    OBVIOUS
  <2>2. ControllerOK(k) /\ k.prober = controller.prober
    BY <1>0, <2>1, TakenOK DEF SendPacket
  <2>3. ControllerOK(d) /\ SentNow(k, d)
    BY <1>3, <2>1, <2>2, SentOK
  <2> QED BY <2>2, <2>3 DEF SentNow
<1>5. t \in Int
    BY <1>3, <1>4, SendTimeIs
<1>6. pc' \in {"schedule", "send"}
    BY <1>3
<1>7. TimerOK' /\ WorkingOK'
    BY <1>0, <1>a, <1>6, ProcessingKeepsTimer
<1>8. CASE break(t)
  <2>1. controller' = LeaveSendLoop(d, l) /\ pc' = "schedule"
    BY <1>3, <1>8
  <2>2. l.is_probing => /\ d.prober.active /\ l.data <= ProbeSize /\ l.data > 0
    BY <1>0, <1>b, <1>2, <1>4, ConstantsAre DEF LoopOK
  <2>3. ControllerOK(LeaveSendLoop(d, l))
    BY <1>2, <1>4, <2>2, LeftOK
  <2>4. ControllerOK(controller)'
    BY <1>a, <2>1, <2>3, NextControllerOK
  <2> QED BY <1>7, <2>1, <2>4 DEF PacerInv
<1>9. CASE ~break(t)
  <2>1. controller' = Elapse(d, Least(t, 0)) /\ loop' = l
    BY <1>3, <1>9
  <2>2. PICK e : e = Elapse(d, Least(t, 0))
    OBVIOUS
  <2>3. ControllerOK(e) /\ Kept(d, e)
    BY <1>4, <1>5, <2>2, ElapsedOK, LeastMost
  <2>4. ControllerOK(controller)'
    BY <1>a, <2>1, <2>2, <2>3, NextControllerOK
  <2>5. l.is_probing => l.data < ProbeSize /\ l.rec = ProbeSize
    BY <1>0, <1>9, <1>b, <1>2, ConstantsAre DEF LoopOK
  <2>6. LoopOK(e, l)
    BY <1>0, <1>2, <1>4, <2>3, <2>5 DEF LoopOK, Kept
  <2>7. LoopOK(controller, loop)'
    BY <2>1, <2>2, <2>6 DEF LoopOK
  <2> QED BY <1>7, <2>4, <2>7 DEF PacerInv
<1> QED BY <1>8, <1>9

LEMMA PaddingIs ==
    ASSUME NEW d \in Controllers, NEW l \in Loops, LoopOK(d, l), NEW n, n = PaddingToAdd(d, l.rec, l.data)
    PROVE  /\ n \in Nat
           /\ n > 0 => d.queue = 0 /\ n <= ProbeSize + PacingRate
           /\ l.is_probing /\ l.data = 0 /\ Empty(d) /\ ~d.congested => n > 0
<1>0. l.data \in Nat /\ l.rec \in {0, ProbeSize} /\ d.padding_rate \in Nat /\ d.padding_rate <= PacingRate
    BY ControllerHas DEF Loops
<1>1. CASE ~Empty(d) \/ d.congested
  <2>1. n = 0
    BY <1>1 DEF PaddingToAdd
  <2> QED BY <1>1, <2>1
<1>2. CASE ~(~Empty(d) \/ d.congested) /\ l.rec > 0
  <2>1. n = Most(0, l.rec - l.data) /\ d.queue = 0
    BY <1>2 DEF PaddingToAdd, Empty
  <2>2. n \in Nat /\ n <= ProbeSize + PacingRate /\ (l.data = 0 => n > 0)
    BY <1>0, <1>2, <2>1, ConstantsAre DEF Most
  <2> QED BY <2>1, <2>2
<1>3. CASE ~(~Empty(d) \/ d.congested) /\ ~(l.rec > 0)
  <2>1. n \in {0, d.padding_rate} /\ d.queue = 0
    BY <1>3 DEF PaddingToAdd, Empty
  <2>2. ~l.is_probing
    BY <1>0, <1>3, ConstantsAre DEF LoopOK
  <2> QED BY <1>0, <2>1, <2>2, ConstantsAre
<1> QED BY <1>1, <1>2, <1>3

LEMMA GeneratePaddingStep ==
    ASSUME PacerInv, GeneratePadding
    PROVE  PacerInv'
<1>0. ControllerOK(controller) /\ TimerOK /\ pc = "send" /\ LoopOK(controller, loop)
    BY DEF PacerInv, GeneratePadding
<1>a. UNCHANGED <<is_started, transport_ready, next_process_time, delayed_tasks, then, can_pad>>
    BY DEF GeneratePadding
<1>b. controller \in Controllers /\ loop \in Loops
    BY <1>0 DEF ControllerOK, LoopOK
<1>1. PICK n : n = PaddingToAdd(controller, loop.rec, loop.data)
    OBVIOUS
<1>2. /\ n \in Nat
      /\ n > 0 => controller.queue = 0 /\ n <= ProbeSize + PacingRate
      /\ loop.is_probing /\ loop.data = 0 /\ Empty(controller) /\ ~controller.congested => n > 0
    BY <1>0, <1>1, <1>b, PaddingIs
<1>3. IF n > 0 /\ can_pad
      THEN controller' = EnqueueBatch(controller, "padding", n) /\ UNCHANGED <<pc, loop>>
      ELSE /\ controller' = LeaveSendLoop(UpdatePaddingBudgetWithSentData(controller, n), loop)
           /\ pc' = "schedule"
    BY <1>1 DEF GeneratePadding
<1>4. pc' \in {"schedule", "send"}
    BY <1>0, <1>3
<1>5. TimerOK' /\ WorkingOK'
    BY <1>0, <1>a, <1>4, ProcessingKeepsTimer
<1>6. CASE n > 0 /\ can_pad
  <2>1. PICK e : e = EnqueueBatch(controller, "padding", n) /\ controller' = e /\ loop' = loop
    BY <1>3, <1>6
  <2>2. controller.queue + n <= MaxQueue + ProbeSize + PacingRate
    BY <1>2, <1>6, ConstantsAre
  <2>3. ControllerOK(e) /\ Awake(controller, e)
    BY <1>0, <1>2, <1>6, <2>1, <2>2, BatchOK
  <2>4. ControllerOK(controller)'
    BY <1>a, <2>1, <2>3, NextControllerOK
  <2>5. LoopOK(e, loop)
    BY <1>0, <2>3 DEF LoopOK, Awake
  <2>6. LoopOK(controller, loop)'
    BY <2>1, <2>5 DEF LoopOK
  <2> QED BY <1>5, <2>4, <2>6 DEF PacerInv
<1>7. CASE ~(n > 0 /\ can_pad)
  <2>1. PICK d : d = UpdatePaddingBudgetWithSentData(controller, n)
    OBVIOUS
  <2>2. ControllerOK(d) /\ Kept(controller, d)
    BY <1>0, <1>2, <2>1, PaddingBudgetOK
  <2>3. controller' = LeaveSendLoop(d, loop) /\ pc' = "schedule"
    BY <1>3, <1>7, <2>1
  <2>4. ~Unpaced(controller) /\ ~(controller.queue > 0 /\ loop.is_probing)
    BY DEF GeneratePadding, Pending
  <2>5. loop.is_probing => Empty(controller)
    BY <1>b, <2>4, ControllerHas DEF Empty
  <2>6. loop.is_probing => /\ d.prober.active /\ loop.data <= ProbeSize
                           /\ loop.data > 0 => d.since_send = 0
                           /\ loop.data = 0 => Empty(d) /\ (d.congested \/ ~can_pad)
    <3>1. loop.is_probing => /\ d.prober.active /\ loop.data <= ProbeSize
                             /\ loop.data > 0 => d.since_send = 0
      BY <1>0, <1>b, <2>2, ConstantsAre DEF LoopOK, Kept, Loops
    <3>2. loop.is_probing /\ loop.data = 0 => Empty(d) /\ (d.congested \/ ~can_pad)
      BY <1>2, <1>7, <2>2, <2>5 DEF Kept, Empty, Unpaced
    <3> QED BY <3>1, <3>2
  <2>7. ControllerOK(LeaveSendLoop(d, loop))
    BY <1>b, <2>2, <2>6, LeftOK
  <2>8. ControllerOK(controller)'
    BY <1>a, <2>3, <2>7, NextControllerOK
  <2> QED BY <1>5, <2>3, <2>8 DEF PacerInv
<1> QED BY <1>6, <1>7

LEMMA TimesAre ==
    ASSUME NEW t \in Times
    PROVE  t \in Int /\ t >= -MaxLate /\ t <= PlusInfinity /\ t # MinusInfinity
<1>1. t \in Int /\ t >= -MaxLate /\ t <= PlusInfinity
    BY InfinitiesAre, ConstantsAre DEF Times
<1> QED BY <1>1, InfinitiesAre, ConstantsAre

LEMMA TimerMeets ==
    ASSUME NEW h \in {0, HoldBack}, NEW s \in Int, NEW m \in Nat, NEW t \in Int, NEW n \in Int,
           s > m, t = h \/ t = s - m, n <= t, NEW age \in Nat, NEW limit \in Nat
    PROVE  /\ s <= (limit - age) + m => n + age <= limit + HoldBack
           /\ s <= limit - age => n + age < limit + HoldBack
<1>1. h <= HoldBack /\ h \in Int /\ HoldBack \in Int /\ HoldBack > 0
    BY ConstantsAre
<1>2. CASE t = h
    BY <1>1, <1>2
<1>3. CASE t = s - m
    BY <1>1, <1>3
<1> QED BY <1>2, <1>3

\* When the loop is left nothing is due, so that the timer meets every limit.
LEMMA RescheduleStep ==
    ASSUME PacerInv, Reschedule
    PROVE  PacerInv'
<1>0. /\ ControllerOK(controller) /\ TimerOK /\ pc = "schedule" /\ transport_ready /\ is_started
      /\ controller' = controller /\ can_pad' = can_pad /\ transport_ready' = transport_ready
      /\ is_started' = is_started /\ then' = then /\ pc' \in {"idle", "then"}
    BY DEF PacerInv, Reschedule, TimerOK
<1>1. PICK s \in Int, m \in Nat : s = NextSendTime(controller) /\ m = Margin(controller)
    BY <1>0, SendTimeIs
<1>2. PICK since \in Nat : since = controller.since_send
    BY <1>0, ControllerHas DEF ControllerOK
<1>3. /\ s > m /\ s <= PlusInfinity /\ s <= (kPausedProcessInterval - since) + m
    BY <1>0, <1>1, <1>2, SendTimeIs DEF Reschedule
<1>4. PICK h \in {0, HoldBack} : h = IF controller.prober.active THEN 0 ELSE HoldBack
    OBVIOUS
<1>5. PICK t \in Int : t = Most(h, s - m) /\ t >= h /\ (t = h \/ t = s - m)
    BY <1>4, ConstantsAre DEF Most
<1>6. IF RearmNeeded(t)
      THEN /\ next_process_time' = t
           /\ delayed_tasks' = (delayed_tasks \ {next_process_time}) \cup {t}
      ELSE UNCHANGED <<next_process_time, delayed_tasks>>
    BY <1>1, <1>4, <1>5 DEF Reschedule
<1>7. t \in Times /\ t >= 0
    BY <1>3, <1>5, ConstantsAre, InfinitiesAre DEF Times
<1>8. PICK n \in Int : /\ n = next_process_time' /\ n <= t /\ n # MinusInfinity
                       /\ n \in delayed_tasks' /\ delayed_tasks' \subseteq Times
  <2>1. CASE RearmNeeded(t)
    <3>1. delayed_tasks \subseteq Times
      BY <1>0 DEF TimerOK
    <3>2. t \in delayed_tasks' /\ delayed_tasks' \subseteq Times /\ next_process_time' = t
      BY <1>6, <1>7, <2>1, <3>1
    <3>3. t # MinusInfinity
      BY <1>7, TimesAre
    <3> QED BY <3>2, <3>3
  <2>2. CASE ~RearmNeeded(t)
    <3>1. /\ next_process_time \in delayed_tasks /\ delayed_tasks \subseteq Times
          /\ next_process_time # MinusInfinity /\ ~(next_process_time > t)
      BY <1>0, <2>2 DEF RearmNeeded, TimerOK
    <3>2. next_process_time \in Int
      BY <3>1, TimesAre
    <3>3. next_process_time' = next_process_time /\ delayed_tasks' = delayed_tasks
      BY <1>6, <2>2
    <3> QED BY <3>1, <3>2, <3>3
  <2> QED BY <2>1, <2>2
<1>9. TimerOK'
    BY <1>0, <1>8 DEF TimerOK
<1>10. next_process_time' <= Most(HoldBack, s - m)
  <2>1. t <= Most(HoldBack, s - m) /\ Most(HoldBack, s - m) \in Int
    BY <1>4, <1>5, ConstantsAre DEF Most
  <2> QED BY <1>5, <1>8, <2>1
<1>11. next_process_time' + since <= kPausedProcessInterval + HoldBack
  <2>1. kPausedProcessInterval \in Nat /\ n <= t /\ (t = h \/ t = s - m)
    BY <1>5, <1>8, ConstantsAre
  <2>2. n + since <= kPausedProcessInterval + HoldBack
    BY <1>3, <2>1, TimerMeets
  <2> QED BY <1>8, <2>2
<1>12. controller.prober.clusters # <<>> =>
          next_process_time' + controller.prober.clusters[1].age < kProbeClusterTimeout + HoldBack
  <2> SUFFICES ASSUME controller.prober.clusters # <<>>
               PROVE  next_process_time' + controller.prober.clusters[1].age < kProbeClusterTimeout + HoldBack
    OBVIOUS
  <2>1. PICK q \in Seq(Clusters) : q = controller.prober.clusters /\ q # <<>>
    BY <1>0 DEF ControllerOK, ProberOK, Probers
  <2>2. PICK a \in Nat : a = q[1].age
    BY <2>1, ClusterHas
  <2>3. s <= kProbeClusterTimeout - a
    BY <1>0, <1>1, <2>1, <2>2, SendTimeIs
  <2>4. next_process_time' + a < kProbeClusterTimeout + HoldBack
    BY <1>3, <1>4, <1>5, <1>8, <2>3, ConstantsAre, TimerMeets
  <2> QED BY <2>1, <2>2, <2>4
<1>13. WorkingOK'
  <2>1. NextSendTime(controller)' = s /\ Margin(controller)' = m
    BY <1>0, <1>1 DEF NextSendTime, NextClusterExpiration, KeepaliveTime, ProbeFirst, ProbeTime,
                      Unpaced, PacedTime, PaddingDrainTime, Margin
  <2> QED BY <1>0, <1>2, <1>8, <1>10, <1>11, <1>12, <2>1 DEF WorkingOK
<1>14. ControllerOK(controller)'
    BY <1>0, NextControllerOK
<1> QED BY <1>0, <1>9, <1>13, <1>14 DEF PacerInv

LEMMA DelayedTaskStep ==
    ASSUME PacerInv, DelayedTask
    PROVE  PacerInv'
<1>0. /\ ControllerOK(controller) /\ TimerOK /\ WorkingOK /\ pc = "idle"
      /\ controller' = controller /\ can_pad' = can_pad /\ transport_ready' = transport_ready
      /\ is_started' = is_started /\ then' = then
    BY DEF PacerInv, DelayedTask
<1>1. PICK t \in delayed_tasks :
        /\ delayed_tasks' = delayed_tasks \ {t}
        /\ IF is_started /\ transport_ready /\ t = next_process_time
           THEN next_process_time' = MinusInfinity /\ pc' = "schedule"
           ELSE UNCHANGED <<next_process_time, pc>>
    BY DEF DelayedTask
<1>2. t # MinusInfinity
    BY <1>0, <1>1, TimesAre DEF TimerOK
<1>3. ControllerOK(controller)'
    BY <1>0, NextControllerOK
<1>4. CASE is_started /\ transport_ready /\ t = next_process_time
    BY <1>0, <1>1, <1>3, <1>4 DEF PacerInv, TimerOK, WorkingOK, Working
<1>5. CASE ~(is_started /\ transport_ready /\ t = next_process_time)
  <2>1. next_process_time' = next_process_time /\ pc' = "idle"
    BY <1>0, <1>1, <1>5
  <2>2. TimerOK'
    BY <1>0, <1>1, <1>2, <1>5, <2>1 DEF TimerOK
  <2>3. NextSendTime(controller)' = NextSendTime(controller) /\ Margin(controller)' = Margin(controller)
    BY <1>0 DEF NextSendTime, NextClusterExpiration, KeepaliveTime, ProbeFirst, ProbeTime,
                Unpaced, PacedTime, PaddingDrainTime, Margin
  <2>4. WorkingOK'
    BY <1>0, <2>1, <2>3 DEF WorkingOK, Working
  <2> QED BY <1>3, <2>1, <2>2, <2>4 DEF PacerInv
<1> QED BY <1>4, <1>5

\* A closure that changes the controller and then processes packets.
LEMMA ClosureStep ==
    ASSUME PacerInv, pc = "idle", NEW d, ControllerOK(d), controller' = d,
           MaybeProcess(is_started, transport_ready),
           UNCHANGED <<is_started, transport_ready, next_process_time, delayed_tasks, loop, then, can_pad>>
    PROVE  PacerInv'
<1>1. ControllerOK(controller)'
    BY NextControllerOK
<1>2. CASE is_started /\ transport_ready
  <2>1. pc' = "schedule"
    BY <1>2 DEF MaybeProcess
  <2> QED BY <1>1, <1>2, <2>1 DEF PacerInv, TimerOK, WorkingOK, Working
<1>3. CASE ~(is_started /\ transport_ready)
  <2>1. pc' = "idle"
    BY <1>3 DEF MaybeProcess
  <2> QED BY <1>1, <1>3, <2>1 DEF PacerInv, TimerOK, WorkingOK, Working
<1> QED BY <1>2, <1>3

LEMMA EnqueuePacketsStep ==
    ASSUME PacerInv, EnqueuePackets
    PROVE  PacerInv'
<1>0. ControllerOK(controller) /\ controller.queue \in Nat
    BY ControllerHas DEF PacerInv, ControllerOK
<1>1. ControllerOK(controller')
  <2>1. CASE \E n \in 1 .. MaxBatch : /\ controller.queue + n <= MaxQueue
                                      /\ controller' = EnqueueBatch(controller, "media", n)
    <3>1. PICK n \in 1 .. MaxBatch : /\ controller.queue + n <= MaxQueue
                                     /\ controller' = EnqueueBatch(controller, "media", n)
      BY <2>1
    <3>2. n \in Nat /\ n > 0 /\ controller.queue + n <= MaxQueue + ProbeSize + PacingRate
      BY <1>0, <3>1, ConstantsAre
    <3> QED BY <1>0, <3>1, <3>2, BatchOK
  <2>2. CASE controller' = EnqueuePacket(controller, "rtx")
    BY <1>0, <2>2, EnqueuedOK
  <2> QED BY <2>1, <2>2 DEF EnqueuePackets
<1> QED BY <1>1, ClosureStep DEF EnqueuePackets

LEMMA CreateProbeClustersStep ==
    ASSUME PacerInv, CreateProbeClusters
    PROVE  PacerInv'
<1>0. /\ ControllerOK(controller) /\ controller \in Controllers /\ ProberOK(controller.prober)
      /\ controller.since_send \in Nat /\ Soon(controller.prober, controller.since_send)
    BY ControllerHas DEF PacerInv, ControllerOK
<1>1. PICK b : b = CreateProbeCluster(controller.prober)
    OBVIOUS
<1>2. ProberOK(b) /\ Soon(b, controller.since_send) /\ b \in Probers
    BY <1>0, <1>1, Created DEF ProberOK
<1>3. PICK d : d = [controller EXCEPT !.prober = b]
    OBVIOUS
<1>4. d \in Controllers /\ d.prober = b /\ d.since_send = controller.since_send
    BY <1>0, <1>2, <1>3 DEF Controllers
<1>5. controller' = [d EXCEPT !.probing_send_failure = FALSE]
    BY <1>1, <1>3 DEF CreateProbeClusters, ClearProbingSendFailure
<1>6. PICK e : e = [d EXCEPT !.probing_send_failure = FALSE] /\ controller' = e
    BY <1>5
<1>7. e \in Controllers /\ e.prober = b /\ e.since_send = d.since_send /\ e.probing_send_failure = FALSE
    BY <1>4, <1>6 DEF Controllers
<1>8. ControllerOK(e)
    BY <1>2, <1>4, <1>7, NotHeldOK DEF Held
<1> QED BY <1>6, <1>8, ClosureStep DEF CreateProbeClusters

LEMMA CongestionChangesStep ==
    ASSUME PacerInv, CongestionChanges
    PROVE  PacerInv'
<1>1. ControllerOK(controller')
    BY CongestionOK DEF PacerInv, CongestionChanges
<1> QED BY <1>1, ClosureStep DEF CongestionChanges

LEMMA SetPacingRatesStep ==
    ASSUME PacerInv, SetPacingRates
    PROVE  PacerInv'
<1>0. ControllerOK(controller) /\ controller \in Controllers
    BY DEF PacerInv, ControllerOK
<1>1. PICK r \in PaddingRates :
          controller' = MaybeUpdateMediaRateDueToLongQueue([controller EXCEPT !.padding_rate = Least(r, PacingRate)])
    BY DEF SetPacingRates
<1>2. PICK x \in 0 .. PacingRate : x = Least(r, PacingRate)
    BY ConstantsAre DEF Least
<1>3. PICK d : d = [controller EXCEPT !.padding_rate = x]
    OBVIOUS
<1>4. d \in Controllers /\ Kept(controller, d)
    BY <1>0, <1>2, <1>3 DEF Controllers, Kept
<1>5. ControllerOK(d)
    BY <1>0, <1>4, KeptOK
<1>6. controller' = MaybeUpdateMediaRateDueToLongQueue(d)
    BY <1>1, <1>2, <1>3
<1>7. ControllerOK(controller')
    BY <1>5, <1>6, RateOK
<1> QED BY <1>7, ClosureStep DEF SetPacingRates

LEMMA UpdateMediaTransportStateStep ==
    ASSUME PacerInv, UpdateMediaTransportState
    PROVE  PacerInv'
<1>0. ControllerOK(controller) /\ TimerOK /\ pc = "idle"
    BY DEF PacerInv, UpdateMediaTransportState
<1> DEFINE allow == ~transport_ready /\ can_pad
<1>1. controller' = SetAllowProbeWithoutMediaPacket(controller, allow) /\ allow \in BOOLEAN
    BY DEF UpdateMediaTransportState
<1> HIDE DEF allow
<1>2. ControllerOK(controller')
    BY <1>0, <1>1, AllowOK
<1>3. can_pad' = can_pad /\ UNCHANGED <<is_started, transport_ready, next_process_time, delayed_tasks>>
    BY DEF UpdateMediaTransportState
<1>4. ControllerOK(controller)'
    BY <1>2, <1>3, NextControllerOK
<1>5. /\ then' \in {"ready", "not ready"}
      /\ pc' = IF is_started /\ transport_ready THEN "schedule" ELSE "then"
    BY DEF UpdateMediaTransportState
<1>6. TimerOK'
    BY <1>0, <1>3, <1>5 DEF TimerOK
<1> QED BY <1>4, <1>5, <1>6 DEF PacerInv, WorkingOK, Working

LEMMA SetTransportReadyStep ==
    ASSUME PacerInv, SetTransportReady
    PROVE  PacerInv'
<1>0. /\ ControllerOK(controller) /\ controller \in Controllers /\ ProberOK(controller.prober)
      /\ TimerOK /\ can_pad' = can_pad /\ delayed_tasks' = delayed_tasks /\ then' = "nothing"
    BY DEF PacerInv, SetTransportReady, ControllerOK
<1>1. CASE TransportReady
  <2>1. ControllerOK(controller')
    BY <1>0, <1>1, ResumedOK DEF TransportReady
  <2>2. ControllerOK(controller)'
    BY <1>0, <2>1, NextControllerOK
  <2> QED BY <1>0, <1>1, <2>2 DEF PacerInv, TimerOK, WorkingOK, Working, TransportReady
<1>2. CASE TransportNotReady
  <2>1. PICK b : b = AbortProbing(controller.prober)
    OBVIOUS
  <2>2. ProberOK(b) /\ ~b.active /\ b \in Probers
    BY <1>0, <2>1, Aborted DEF ProberOK
  <2>3. PICK e : /\ e = [controller EXCEPT !.prober = b, !.probing_send_failure = FALSE, !.paused = TRUE]
                 /\ controller' = e
    BY <1>2, <2>1 DEF TransportNotReady
  <2>4. e \in Controllers /\ e.prober = b
    BY <1>0, <2>2, <2>3 DEF Controllers
  <2>5. ControllerOK(e)
    BY <2>2, <2>4, NotHeldOK DEF Held, Soon
  <2>6. ControllerOK(controller)'
    BY <1>0, <2>3, <2>5, NextControllerOK
  <2> QED BY <1>0, <1>2, <2>6 DEF PacerInv, TimerOK, WorkingOK, Working, TransportNotReady
<1> QED BY <1>1, <1>2 DEF SetTransportReady
-----------------------------------------------------------------------------
(* The clock.                                                                *)

Older(k) == [k EXCEPT !.age = Least(k.age + 1, kProbeClusterTimeout + MaxLate + HoldBack),
                      !.started = Least(k.started + 1, kProbeClusterTimeout)]

\* Everything is at most one tick older.
LEMMA OlderCluster ==
    ASSUME NEW k \in Clusters, NEW o, o = Older(k)
    PROVE  /\ o \in Clusters /\ o.age = Least(k.age + 1, kProbeClusterTimeout + MaxLate + HoldBack)
           /\ o.age <= k.age + 1 /\ o.bytes = k.bytes /\ o.probes = k.probes
<1>1. k.age \in Nat /\ k.started \in Nat
    BY ClusterHas
<1>2. PICK a \in Nat : a = Least(k.age + 1, kProbeClusterTimeout + MaxLate + HoldBack) /\ a <= k.age + 1
    BY <1>1, ConstantsAre DEF Least
<1>3. PICK s \in Nat : s = Least(k.started + 1, kProbeClusterTimeout)
    BY <1>1, ConstantsAre DEF Least
<1>4. o = [k EXCEPT !.age = a, !.started = s]
    BY <1>2, <1>3 DEF Older
<1> QED BY <1>2, <1>4 DEF Clusters

LEMMA OlderQueue ==
    ASSUME NEW q \in Seq(Clusters), QueueOK(q),
           NEW r, r = [i \in DOMAIN q |-> Older(q[i])]
    PROVE  /\ r \in Seq(Clusters) /\ QueueOK(r) /\ Len(r) = Len(q)
           /\ q # <<>> => r[1].age \in Nat /\ r[1].age <= q[1].age + 1
<1>1. ASSUME NEW i \in DOMAIN q
      PROVE  /\ r[i] \in Clusters
             /\ r[i].age = Least(q[i].age + 1, kProbeClusterTimeout + MaxLate + HoldBack)
             /\ r[i].age <= q[i].age + 1 /\ r[i].bytes = q[i].bytes /\ r[i].probes = q[i].probes
  <2>1. q[i] \in Clusters
    OBVIOUS
  <2>2. r[i] = Older(q[i])
    OBVIOUS
  <2> QED BY <2>1, <2>2, OlderCluster
<1>2. r \in Seq(Clusters) /\ Len(r) = Len(q) /\ DOMAIN r = DOMAIN q
  <2>1. DOMAIN q = 1 .. Len(q) /\ Len(q) \in Nat
    OBVIOUS
  <2>2. r \in [1 .. Len(q) -> Clusters]
    BY <1>1, <2>1
  <2> QED BY <2>1, <2>2
<1>3. ASSUME NEW i \in DOMAIN r PROVE Unfinished(r[i])
  <2>1. Unfinished(q[i]) /\ r[i].bytes = q[i].bytes /\ r[i].probes = q[i].probes
    BY <1>1, <1>2 DEF QueueOK
  <2> QED BY <2>1 DEF Unfinished
<1>4. ASSUME NEW i \in DOMAIN r, NEW j \in DOMAIN r, i <= j PROVE r[j].age <= r[i].age
  <2>1. q[i].age \in Nat /\ q[j].age \in Nat
    BY <1>2, ClusterHas
  <2>2. q[j].age <= q[i].age
    BY <1>2, <1>4 DEF QueueOK
  <2>3. PICK top \in Nat : top = kProbeClusterTimeout + MaxLate + HoldBack
    BY ConstantsAre
  <2>4. r[i].age = Least(q[i].age + 1, top) /\ r[j].age = Least(q[j].age + 1, top)
    BY <1>1, <1>2, <2>3
  <2> QED BY <2>1, <2>2, <2>4 DEF Least
<1>5. Len(r) <= kMaxPendingProbeClusters
    BY <1>2 DEF QueueOK
<1>6. QueueOK(r)
    BY <1>3, <1>4, <1>5 DEF QueueOK
<1>7. q # <<>> => r[1].age \in Nat /\ r[1].age <= q[1].age + 1
  <2> SUFFICES ASSUME q # <<>> PROVE r[1].age \in Nat /\ r[1].age <= q[1].age + 1
    OBVIOUS
  <2>1. 1 \in DOMAIN q
    OBVIOUS
  <2> QED BY <1>1, <2>1, ClusterHas
<1> QED BY <1>2, <1>6, <1>7

OlderProber(b) ==
    [b EXCEPT !.clusters = [i \in DOMAIN b.clusters |-> Older(b.clusters[i])],
              !.next = IF IsFinite(b.next) THEN Most(b.next - 1, -AllowedProbeDelay - 1) ELSE b.next]

LEMMA OlderNext ==
    ASSUME NEW n \in Int, NEW x, x = IF IsFinite(n) THEN Most(n - 1, -AllowedProbeDelay - 1) ELSE n
    PROVE  /\ x \in Int /\ x >= n - 1 /\ (x = MinusInfinity <=> n = MinusInfinity)
<1>1. CASE IsFinite(n)
  <2>1. x \in Int /\ x >= n - 1 /\ x >= -AllowedProbeDelay - 1
    BY <1>1, ConstantsAre DEF Most
  <2> QED BY <1>1, <2>1, InfinitiesAre, ConstantsAre DEF IsFinite
<1>2. CASE ~IsFinite(n)
    BY <1>2
<1> QED BY <1>1, <1>2

LEMMA OlderSoon ==
    ASSUME NEW n \in Int, NEW x, x = IF IsFinite(n) THEN Most(n - 1, -AllowedProbeDelay - 1) ELSE n,
           NEW since \in Nat, NEW later \in Nat, later <= since + 1,
           n <= Most(0, (kPausedProcessInterval + kMaxEarlyProbeProcessing) - since)
    PROVE  \/ x = MinusInfinity
           \/ x <= Most(0, (kPausedProcessInterval + kMaxEarlyProbeProcessing) - later)
<1>1. PICK K \in Nat : K = kPausedProcessInterval + kMaxEarlyProbeProcessing /\ PlusInfinity > K
    BY ConstantsAre, InfinitiesAre
<1>2. n # PlusInfinity
    BY <1>1, InfinitiesAre DEF Most
<1>3. CASE n = MinusInfinity
    BY <1>3 DEF IsFinite
<1>4. CASE n # MinusInfinity
  <2>1. x = Most(n - 1, -AllowedProbeDelay - 1)
    BY <1>2, <1>4 DEF IsFinite
  <2>2. n <= Most(0, K - since)
    BY <1>1
  <2>3. x <= Most(0, K - later)
    BY <1>1, <2>1, <2>2, ConstantsAre DEF Most
  <2> QED BY <1>1, <2>3
<1> QED BY <1>3, <1>4

LEMMA OlderProberIs ==
    ASSUME NEW b, ProberOK(b), NEW since \in Nat, NEW later \in Nat, later <= since + 1, Soon(b, since),
           NEW r, r = OlderProber(b)
    PROVE  /\ ProberOK(r) /\ Soon(r, later) /\ r.active = b.active
           /\ r.next \in Int /\ r.next >= b.next - 1
           /\ r.next = MinusInfinity <=> b.next = MinusInfinity
           /\ r.clusters = <<>> <=> b.clusters = <<>>
           /\ b.clusters # <<>> => r.clusters[1].age \in Nat /\ r.clusters[1].age <= b.clusters[1].age + 1
<1>0. PICK q \in Seq(Clusters) : q = b.clusters /\ QueueOK(q)
    BY DEF ProberOK, Probers
<1>1. PICK a : a = [i \in DOMAIN q |-> Older(q[i])]
    OBVIOUS
<1>2. /\ a \in Seq(Clusters) /\ QueueOK(a) /\ Len(a) = Len(q)
      /\ q # <<>> => a[1].age \in Nat /\ a[1].age <= q[1].age + 1
    BY <1>0, <1>1, OlderQueue
<1>a. b \in Probers /\ b.next \in Int
    BY ProberHas DEF ProberOK
<1>3. PICK n : n = IF IsFinite(b.next) THEN Most(b.next - 1, -AllowedProbeDelay - 1) ELSE b.next
    OBVIOUS
<1>4. n \in Int /\ n >= b.next - 1 /\ (n = MinusInfinity <=> b.next = MinusInfinity)
    BY <1>a, <1>3, OlderNext
<1>5. r = [b EXCEPT !.clusters = a, !.next = n]
    BY <1>0, <1>1, <1>3 DEF OlderProber
<1>6. r \in Probers /\ r.clusters = a /\ r.next = n /\ r.active = b.active
    BY <1>a, <1>2, <1>4, <1>5 DEF Probers
<1>7. a = <<>> <=> q = <<>>
    BY <1>2
<1>8. ProberOK(r)
    BY <1>0, <1>2, <1>6, <1>7 DEF ProberOK
<1>9. Soon(r, later)
  <2>1. CASE ~b.active \/ b.next = MinusInfinity
    BY <1>4, <1>6, <2>1 DEF Soon
  <2>2. CASE b.active /\ b.next # MinusInfinity
    <3>1. b.next <= Most(0, (kPausedProcessInterval + kMaxEarlyProbeProcessing) - since)
      BY <2>2 DEF Soon
    <3>2. \/ n = MinusInfinity
          \/ n <= Most(0, (kPausedProcessInterval + kMaxEarlyProbeProcessing) - later)
      BY <1>a, <1>3, <3>1, OlderSoon
    <3> QED BY <1>6, <3>2 DEF Soon
  <2> QED BY <2>1, <2>2
<1> QED BY <1>0, <1>2, <1>4, <1>6, <1>7, <1>8, <1>9

\* e is d one tick later.
Later(d, e) ==
    /\ e \in Controllers /\ e.prober = OlderProber(d.prober)
    /\ e.since_send <= d.since_send + 1 /\ e.since_process <= d.since_process + 1
    /\ e.rtx = IF d.rtx = NoPacket THEN d.rtx ELSE 1
    /\ e.media_debt = d.media_debt /\ e.padding_debt = d.padding_debt
    /\ e.rate = d.rate /\ e.padding_rate = d.padding_rate /\ e.queue = d.queue
    /\ e.seen_first_packet = d.seen_first_packet /\ e.congested = d.congested
    /\ e.paused = d.paused /\ e.probing_send_failure = d.probing_send_failure

LEMMA LaterOK ==
    ASSUME NEW d, ControllerOK(d), NEW e, Later(d, e)
    PROVE  ControllerOK(e)
<1>0. /\ d \in Controllers /\ e \in Controllers /\ d.since_send \in Nat /\ e.since_send \in Nat
      /\ e.since_send <= d.since_send + 1 /\ ProberOK(d.prober) /\ Soon(d.prober, d.since_send)
    BY ControllerHas DEF ControllerOK, Later
<1>1. PICK r : r = OlderProber(d.prober)
    OBVIOUS
<1>2. ProberOK(r) /\ Soon(r, e.since_send) /\ r.active = d.prober.active
    BY <1>0, <1>1, OlderProberIs
<1>3. e.prober = r
    BY <1>1 DEF Later
<1>4. Unpaced(e) <=> Unpaced(d)
    BY <1>0 DEF Unpaced, NoPacket, Later
<1>5. Hopeless(e)
    BY <1>2, <1>3, <1>4 DEF Hopeless, Empty, ControllerOK, Later
<1> QED BY <1>0, <1>2, <1>3, <1>5 DEF ControllerOK

LEMMA LeastShift ==
    ASSUME NEW a \in Int, NEW b \in Int, NEW x \in Int, NEW y \in Int, x >= a - 1, y >= b - 1
    PROVE  Least(x, y) >= Least(a, b) - 1
BY DEF Least

\* The next packet moves no faster than the clock.
LEMMA LaterPlanned ==
    ASSUME NEW d, ControllerOK(d), NEW e, Later(d, e)
    PROVE  PlannedTime(e) >= PlannedTime(d) - 1
<1>0. /\ ControllerOK(e) /\ d \in Controllers /\ e \in Controllers
      /\ d.since_send \in Nat /\ e.since_send \in Nat /\ e.since_send <= d.since_send + 1
      /\ d.since_process \in Int /\ e.since_process \in Int /\ e.since_process <= d.since_process + 1
      /\ d.rtx \in Int
    BY LaterOK, ControllerHas DEF ControllerOK, Later
<1>1. PlannedTime(d) \in Int /\ PlannedTime(e) \in Int
    BY <1>0, PlannedTimeIs
<1>2. /\ KeepaliveTime(e) \in Int /\ KeepaliveTime(d) \in Int
      /\ KeepaliveTime(e) >= KeepaliveTime(d) - 1
    BY <1>0, ConstantsAre DEF KeepaliveTime
<1>3. /\ e.prober.active = d.prober.active /\ e.prober.next \in Int /\ d.prober.next \in Int
      /\ e.prober.next >= d.prober.next - 1
      /\ e.prober.next = MinusInfinity <=> d.prober.next = MinusInfinity
  <2>1. ProberOK(d.prober) /\ Soon(d.prober, d.since_send) /\ d.prober.next \in Int
    BY ProberHas DEF ControllerOK, ProberOK
  <2>2. PICK r : r = OlderProber(d.prober) /\ e.prober = r
    BY DEF Later
  <2> QED BY <1>0, <2>1, <2>2, OlderProberIs
<1>4. CASE d.paused
  <2>1. PlannedTime(d) = KeepaliveTime(d) /\ PlannedTime(e) = KeepaliveTime(e)
    BY <1>4 DEF PlannedTime, Later
  <2> QED BY <1>2, <2>1
<1>5. CASE ~d.paused /\ ProbeFirst(d)
  <2>1. PlannedTime(d) = ProbeTime(d) /\ PlannedTime(e) = ProbeTime(e)
    BY <1>3, <1>5 DEF PlannedTime, ProbeFirst, Later
  <2>2. ProbeTime(e) >= ProbeTime(d) - 1
    BY <1>3 DEF ProbeTime
  <2> QED BY <2>1, <2>2
<1>6. CASE ~d.paused /\ ~ProbeFirst(d) /\ Unpaced(d)
  <2>1. PlannedTime(d) = -d.rtx /\ PlannedTime(e) = -1
    BY <1>3, <1>6 DEF PlannedTime, ProbeFirst, Later, Unpaced, NoPacket
  <2>2. d.rtx >= 0
    BY <1>0, <1>6, ControllerHas DEF Unpaced, NoPacket
  <2> QED BY <1>0, <2>1, <2>2
<1>7. CASE ~d.paused /\ ~ProbeFirst(d) /\ ~Unpaced(d) /\ (d.congested \/ ~d.seen_first_packet)
  <2>1. PlannedTime(d) = KeepaliveTime(d) /\ PlannedTime(e) = KeepaliveTime(e)
    BY <1>3, <1>7 DEF PlannedTime, ProbeFirst, Later, Unpaced
  <2> QED BY <1>2, <2>1
<1>8. CASE ~d.paused /\ ~ProbeFirst(d) /\ ~Unpaced(d) /\ ~(d.congested \/ ~d.seen_first_packet)
  <2>1. PlannedTime(d) = PacedTime(d) /\ PlannedTime(e) = PacedTime(e)
    BY <1>3, <1>8 DEF PlannedTime, ProbeFirst, Later, Unpaced
  <2>2. PICK x \in Nat : x = d.media_debt \div d.rate
    BY <1>0, ControllerHas, DivNat
  <2>3. PICK y \in Int : y = IF d.queue > 0 THEN (IF Burst > x THEN 0 ELSE x)
                             ELSE IF d.padding_rate > 0 THEN PaddingDrainTime(d)
                             ELSE kPausedProcessInterval
    BY <1>0, PaddingDrainIs, ConstantsAre
  <2>4. PacedTime(d) = Least(KeepaliveTime(d), y - d.since_process)
    BY <2>2, <2>3 DEF PacedTime
  <2>5. PaddingDrainTime(e) = PaddingDrainTime(d)
    BY DEF PaddingDrainTime, Later
  <2>6. PacedTime(e) = Least(KeepaliveTime(e), y - e.since_process)
    BY <2>2, <2>3, <2>5 DEF PacedTime, Later
  <2>7. y - e.since_process >= (y - d.since_process) - 1 /\ y - e.since_process \in Int /\ y - d.since_process \in Int
    BY <1>0
  <2> QED BY <1>2, <2>1, <2>4, <2>6, <2>7, LeastShift
<1> QED BY <1>4, <1>5, <1>6, <1>7, <1>8

LEMMA LaterSendTime ==
    ASSUME NEW d, ControllerOK(d), NEW e, Later(d, e)
    PROVE  NextSendTime(e) >= NextSendTime(d) - 1 /\ Margin(e) = Margin(d)
<1>0. /\ ControllerOK(e) /\ d.prober \in Probers /\ e.prober \in Probers
      /\ d.since_send \in Nat /\ e.since_send \in Nat /\ e.since_send <= d.since_send + 1
    BY LaterOK, ControllerHas DEF ControllerOK, Later
<1>1. PICK r : r = OlderProber(d.prober) /\ e.prober = r
    BY DEF Later
<1>2. /\ r.active = d.prober.active
      /\ r.clusters = <<>> <=> d.prober.clusters = <<>>
      /\ d.prober.clusters # <<>> =>
           r.clusters[1].age \in Nat /\ r.clusters[1].age <= d.prober.clusters[1].age + 1
    BY <1>0, <1>1, OlderProberIs DEF ControllerOK
<1>3. PICK a \in Int, x \in Int : a = NextClusterExpiration(d.prober) /\ x = NextClusterExpiration(e.prober)
    BY <1>0, ExpirationIs
<1>4. x >= a - 1
  <2>1. CASE d.prober.clusters = <<>>
    BY <1>1, <1>2, <1>3, <2>1 DEF NextClusterExpiration
  <2>2. CASE d.prober.clusters # <<>>
    <3>1. PICK q \in Seq(Clusters) : q = d.prober.clusters /\ q # <<>>
      BY <1>0, <2>2, ProberHas
    <3>2. PICK k \in Nat : k = d.prober.clusters[1].age
      BY <3>1, ClusterHas
    <3>3. PICK j \in Nat : j = r.clusters[1].age /\ j <= k + 1
      BY <1>2, <2>2, <3>2
    <3>4. a = kProbeClusterTimeout - k /\ x = kProbeClusterTimeout - j
      BY <1>1, <1>2, <1>3, <2>2, <3>2, <3>3 DEF NextClusterExpiration
    <3> QED BY <3>3, <3>4, ConstantsAre
  <2> QED BY <2>1, <2>2
<1>5. PICK b \in Int, y \in Int : b = PlannedTime(d) /\ y = PlannedTime(e)
    BY <1>0, PlannedTimeIs
<1>6. y >= b - 1
    BY <1>5, LaterPlanned
<1>7. NextSendTime(d) = Least(a, b) /\ NextSendTime(e) = Least(x, y)
    BY <1>0, <1>3, <1>5, PlannedTimeIs
<1>8. NextSendTime(e) >= NextSendTime(d) - 1
    BY <1>4, <1>6, <1>7, LeastShift
<1> QED BY <1>1, <1>2, <1>8 DEF Margin

LEMMA TickIsLater ==
    ASSUME PacerInv, Tick
    PROVE  Later(controller, controller')
<1>0. /\ controller \in Controllers /\ controller.since_send \in Nat /\ controller.since_process \in Int
      /\ ProberOK(controller.prober) /\ Soon(controller.prober, controller.since_send)
    BY ControllerHas DEF PacerInv, ControllerOK
<1>1. PICK s \in Nat : /\ s = Least(controller.since_send + 1, kPausedProcessInterval + HoldBack + MaxLate + 1)
                       /\ s <= controller.since_send + 1
    BY <1>0, ConstantsAre DEF Least
<1>2. PICK p \in Int : /\ p = Least(controller.since_process + 1, kMaxElapsedTime)
                       /\ p <= controller.since_process + 1
    BY <1>0, ConstantsAre DEF Least
<1>3. PICK x \in -1 .. 1 : x = IF controller.rtx = NoPacket THEN controller.rtx ELSE 1
    BY DEF NoPacket
<1>4. PICK b : b = OlderProber(controller.prober)
    OBVIOUS
<1>5. b \in Probers
    BY <1>0, <1>1, <1>4, OlderProberIs DEF ProberOK
<1>6. controller' = [controller EXCEPT !.prober = b, !.since_send = s, !.since_process = p, !.rtx = x]
    BY <1>1, <1>2, <1>3, <1>4 DEF Tick, OlderProber, Older
<1>7. PICK e : e = controller' /\ e = [controller EXCEPT !.prober = b, !.since_send = s,
                                                         !.since_process = p, !.rtx = x]
    BY <1>6
<1>8. e \in Controllers
    BY <1>0, <1>5, <1>7 DEF Controllers
<1>9. /\ e.prober = b /\ e.since_send = s /\ e.since_process = p /\ e.rtx = x
      /\ e.media_debt = controller.media_debt /\ e.padding_debt = controller.padding_debt
      /\ e.rate = controller.rate /\ e.padding_rate = controller.padding_rate
      /\ e.queue = controller.queue /\ e.seen_first_packet = controller.seen_first_packet
      /\ e.congested = controller.congested /\ e.paused = controller.paused
      /\ e.probing_send_failure = controller.probing_send_failure
    BY <1>0, <1>7 DEF Controllers
<1> QED BY <1>1, <1>2, <1>3, <1>4, <1>7, <1>8, <1>9 DEF Later

LEMMA TickStep ==
    ASSUME PacerInv, Tick
    PROVE  PacerInv'
<1>0. /\ ControllerOK(controller) /\ TimerOK /\ WorkingOK /\ pc = "idle" /\ pc' = pc
      /\ can_pad' = can_pad /\ transport_ready' = transport_ready /\ is_started' = is_started
      /\ then' = then /\ delayed_tasks \subseteq Times
    BY DEF PacerInv, Tick, TimerOK
<1>1. PICK e : e = controller' /\ Later(controller, e)
    BY TickIsLater
<1>2. ControllerOK(e)
    BY <1>0, <1>1, LaterOK
<1>3. ControllerOK(controller)'
    BY <1>0, <1>1, <1>2, NextControllerOK
<1>4. /\ delayed_tasks' = {t - 1 : t \in delayed_tasks}
      /\ next_process_time' = IF next_process_time = MinusInfinity
                              THEN MinusInfinity ELSE next_process_time - 1
    BY DEF Tick
<1>5. ASSUME NEW t \in delayed_tasks
      PROVE  t \in Int /\ t - 1 \in Times /\ t - 1 # MinusInfinity
  <2>1. t \in Int /\ t <= PlusInfinity /\ t > -MaxLate
    BY <1>0, TimesAre DEF Tick
  <2>2. t - 1 \in Times
    BY <2>1, ConstantsAre, InfinitiesAre DEF Times
  <2> QED BY <2>1, <2>2, TimesAre
<1>6. /\ delayed_tasks' \subseteq Times
      /\ next_process_time' = MinusInfinity \/ next_process_time' \in delayed_tasks'
    BY <1>0, <1>4, <1>5 DEF TimerOK
<1>7. TimerOK'
    BY <1>0, <1>4, <1>6 DEF TimerOK
<1>8. WorkingOK'
  <2> SUFFICES ASSUME Working' PROVE
        /\ next_process_time' # MinusInfinity
        /\ next_process_time' <= Most(HoldBack, NextSendTime(e) - Margin(e))
        /\ next_process_time' + e.since_send <= kPausedProcessInterval + HoldBack
        /\ e.prober.clusters # <<>> =>
             next_process_time' + e.prober.clusters[1].age < kProbeClusterTimeout + HoldBack
    <3>1. NextSendTime(controller)' = NextSendTime(e) /\ Margin(controller)' = Margin(e)
      BY <1>0, <1>1 DEF NextSendTime, NextClusterExpiration, KeepaliveTime, ProbeFirst, ProbeTime,
                        Unpaced, PacedTime, PaddingDrainTime, Margin
    <3> QED BY <1>1, <3>1 DEF WorkingOK
  <2>1. PICK n \in Int : /\ n = next_process_time /\ next_process_time' = n - 1
                         /\ n - 1 # MinusInfinity
    BY <1>0, <1>4, <1>5 DEF Working, WorkingOK, TimerOK
  <2>2. /\ n <= Most(HoldBack, NextSendTime(controller) - Margin(controller))
        /\ n + controller.since_send <= kPausedProcessInterval + HoldBack
        /\ controller.prober.clusters # <<>> =>
             n + controller.prober.clusters[1].age < kProbeClusterTimeout + HoldBack
    BY <1>0, <2>1 DEF Working, WorkingOK
  <2>3. n - 1 <= Most(HoldBack, NextSendTime(e) - Margin(e))
    <3>1. PICK s \in Int, m \in Nat : s = NextSendTime(controller) /\ m = Margin(controller)
      BY <1>0, SendTimeIs
    <3>2. PICK x \in Int : x = NextSendTime(e)
      BY <1>2, SendTimeIs
    <3>3. x >= s - 1 /\ Margin(e) = m
      BY <1>0, <1>1, <3>1, <3>2, LaterSendTime
    <3>4. n - 1 <= Most(HoldBack, x - m)
      BY <2>2, <3>1, <3>3, ConstantsAre DEF Most
    <3> QED BY <3>2, <3>3, <3>4
  <2>4. controller.since_send \in Nat /\ e.since_send \in Nat /\ e.since_send <= controller.since_send + 1
    BY <1>0, <1>1, <1>2, ControllerHas DEF ControllerOK, Later
  <2>5. (n - 1) + e.since_send <= kPausedProcessInterval + HoldBack
    BY <2>2, <2>4, ConstantsAre
  <2>6. e.prober.clusters # <<>> =>
             (n - 1) + e.prober.clusters[1].age < kProbeClusterTimeout + HoldBack
    <3> SUFFICES ASSUME e.prober.clusters # <<>>
                 PROVE  (n - 1) + e.prober.clusters[1].age < kProbeClusterTimeout + HoldBack
      OBVIOUS
    <3>1. PICK r : r = OlderProber(controller.prober) /\ e.prober = r
      BY <1>1 DEF Later
    <3>2. /\ r.clusters = <<>> <=> controller.prober.clusters = <<>>
          /\ controller.prober.clusters # <<>> =>
               r.clusters[1].age \in Nat /\ r.clusters[1].age <= controller.prober.clusters[1].age + 1
      BY <1>0, <2>4, <3>1, OlderProberIs DEF ControllerOK
    <3>3. PICK q \in Seq(Clusters) : q = controller.prober.clusters /\ q # <<>>
      BY <1>0, <3>1, <3>2 DEF ControllerOK, ProberOK, Probers
    <3>4. PICK k \in Nat : k = controller.prober.clusters[1].age
      BY <3>3, ClusterHas
    <3>5. PICK j \in Nat : j = e.prober.clusters[1].age /\ j <= k + 1
      BY <3>1, <3>2, <3>3, <3>4
    <3>6. n + k < kProbeClusterTimeout + HoldBack
      BY <2>2, <3>3, <3>4
    <3>7. (n - 1) + j < kProbeClusterTimeout + HoldBack
      BY <3>5, <3>6, ConstantsAre
    <3> QED BY <3>5, <3>7
  <2> QED BY <2>1, <2>3, <2>5, <2>6
<1> QED BY <1>0, <1>3, <1>7, <1>8 DEF PacerInv

LEMMA StutterPacer ==
    ASSUME PacerInv, UNCHANGED pacer_vars
    PROVE  PacerInv'
<1>1. /\ controller' = controller /\ can_pad' = can_pad /\ transport_ready' = transport_ready
      /\ is_started' = is_started /\ then' = then /\ pc' = pc /\ loop' = loop
      /\ delayed_tasks' = delayed_tasks /\ next_process_time' = next_process_time
    BY DEF pacer_vars
<1>2. ControllerOK(controller)'
    BY <1>1, NextControllerOK DEF PacerInv
<1>3. NextSendTime(controller)' = NextSendTime(controller) /\ Margin(controller)' = Margin(controller)
    BY <1>1 DEF NextSendTime, NextClusterExpiration, KeepaliveTime, ProbeFirst, ProbeTime,
                Unpaced, PacedTime, PaddingDrainTime, Margin
<1>4. WorkingOK'
    BY <1>1, <1>3 DEF PacerInv, WorkingOK, Working
<1>5. TimerOK'
    BY <1>1 DEF PacerInv, TimerOK
<1>6. pc' = "send" => LoopOK(controller, loop)'
    BY <1>1 DEF PacerInv, LoopOK
<1> QED BY <1>2, <1>4, <1>5, <1>6 DEF PacerInv

LEMMA PacerStarts ==
    ASSUME PacerInit
    PROVE  PacerInv
<1>0. /\ controller.prober = [clusters |-> <<>>, active |-> FALSE, next |-> PlusInfinity, allow |-> FALSE]
      /\ pc = "idle" /\ is_started = FALSE /\ transport_ready = FALSE /\ then = "nothing"
      /\ delayed_tasks = {} /\ next_process_time = MinusInfinity /\ can_pad \in BOOLEAN
    BY DEF PacerInit
<1>1. controller.prober \in Probers /\ controller.prober.clusters = <<>> /\ ~controller.prober.active
    BY <1>0, InfinitiesAre DEF Probers
<1>2. ProberOK(controller.prober)
    BY <1>1, EmptyOK DEF ProberOK
<1>3. /\ 0 \in 0 .. 2 * PacingRate * kMaxDebtInTime /\ 0 \in 0 .. PacingRate
      /\ 0 \in 0 .. MaxQueue + ProbeSize + PacingRate /\ NoPacket \in -1 .. 1
    BY ConstantsAre DEF NoPacket
<1>4. controller \in Controllers
    BY <1>1, <1>3 DEF PacerInit, Controllers
<1>5. ControllerOK(controller)
    BY <1>1, <1>2, <1>4, NotHeldOK DEF Held, Soon
<1> QED BY <1>0, <1>5 DEF PacerInv, TimerOK, WorkingOK, Working

\* The pacer keeps its invariant, whatever rates, congestion, transport events
\* and lateness it meets.
THEOREM PacerInvariant == PacerSpec => []PacerInv
<1>1. ASSUME PacerInv, [PacerNext]_pacer_vars PROVE PacerInv'
    BY <1>1, ProcessPacketsStep, SendPacketStep, GeneratePaddingStep, RescheduleStep,
       SetTransportReadyStep, DelayedTaskStep, TickStep, EnqueuePacketsStep,
       CreateProbeClustersStep, CongestionChangesStep, SetPacingRatesStep,
       UpdateMediaTransportStateStep, StutterPacer DEF PacerNext, Processing
<1> QED BY <1>1, PacerStarts, PTL DEF PacerSpec

-----------------------------------------------------------------------------
(* What the peer hears.  The code restarts the interval of the keep-alive    *)
(* also when no packet could be made, so the age that it keeps bounds the    *)
(* silence only where a keep-alive has a packet to send.                     *)

\* The silence is no longer than the age the code keeps, and is counted only
\* while a keep-alive has a packet.
SilenceInv ==
    /\ silence \in Nat /\ silence <= controller.since_send
    /\ KeepalivePacket(controller) \/ silence = 0

Timed(d) == "since_send" \in DOMAIN d /\ "seen_first_packet" \in DOMAIN d

\* e is d with the same last packet.
Aged(d, e) ==
    /\ Timed(e) /\ e.since_send = d.since_send
    /\ d.seen_first_packet => e.seen_first_packet

LEMMA AgedTwice ==
    ASSUME NEW d, NEW e, NEW f, Aged(d, e), Aged(e, f)
    PROVE  Aged(d, f)
BY DEF Aged

LEMMA ElapseAges ==
    ASSUME NEW d, Timed(d), NEW t, NEW e, e = Elapse(d, t)
    PROVE  Aged(d, e)
<1>1. PICK x, y, z : e = d \/ e = [d EXCEPT !.since_process = x, !.media_debt = y, !.padding_debt = z]
    BY DEF Elapse
<1> QED BY <1>1 DEF Aged, Timed

LEMMA RateAges ==
    ASSUME NEW d, Timed(d), NEW e, e = MaybeUpdateMediaRateDueToLongQueue(d)
    PROVE  Aged(d, e)
BY DEF Aged, Timed, MaybeUpdateMediaRateDueToLongQueue

LEMMA PaddingBudgetAges ==
    ASSUME NEW d, Timed(d), NEW n, NEW e, e = UpdatePaddingBudgetWithSentData(d, n)
    PROVE  Aged(d, e)
BY DEF Aged, Timed, UpdatePaddingBudgetWithSentData

LEMMA WithoutExpiredAges ==
    ASSUME NEW d, Timed(d), NEW e, e = WithoutExpired(d)
    PROVE  Aged(d, e)
<1>1. PICK x, y : e = [d EXCEPT !.prober = x, !.probing_send_failure = y]
    BY DEF WithoutExpired
<1> QED BY <1>1 DEF Aged, Timed

LEMMA CurrentAges ==
    ASSUME NEW d, Timed(d), NEW e, e = TakeCurrentCluster(d)
    PROVE  Aged(d, e)
<1>1. PICK x : e = d \/ e = [d EXCEPT !.prober = x]
    BY DEF TakeCurrentCluster
<1> QED BY <1>1 DEF Aged, Timed

LEMMA LeaveAges ==
    ASSUME NEW d, Timed(d), NEW l, NEW e, e = LeaveSendLoop(d, l)
    PROVE  Aged(d, e)
<1>1. PICK f : /\ f = IF ~l.is_probing THEN d
                      ELSE IF l.data = 0 THEN [d EXCEPT !.probing_send_failure = TRUE]
                      ELSE [d EXCEPT !.probing_send_failure = FALSE,
                                     !.prober = ProbeSent(d.prober, l.data)]
               /\ e = MaybeUpdateMediaRateDueToLongQueue(f)
    BY DEF LeaveSendLoop
<1>2. PICK x, y : f = d \/ f = [d EXCEPT !.probing_send_failure = x]
                        \/ f = [d EXCEPT !.probing_send_failure = x, !.prober = y]
    BY <1>1
<1>3. Aged(d, f)
    BY <1>2 DEF Aged, Timed
<1> QED BY <1>1, <1>3, RateAges, AgedTwice DEF Aged

LEMMA EnqueueAges ==
    ASSUME NEW d, Timed(d), NEW kind, NEW e, e = EnqueuePacket(d, kind)
    PROVE  Aged(d, e)
<1>1. PICK p : p = EnqueueProbes(d, kind # "padding")
    OBVIOUS
<1>2. Aged(d, p)
  <2>1. PICK x, y : p = [d EXCEPT !.prober = x, !.probing_send_failure = y]
    BY <1>1 DEF EnqueueProbes
  <2> QED BY <2>1 DEF Aged, Timed
<1>3. PICK f : f = IF Empty(p) THEN Elapse(p, Least(0, NextSendTime(p))) ELSE p
    OBVIOUS
<1>4. Aged(p, f)
  <2>1. CASE Empty(p)
    BY <1>2, <1>3, <2>1, ElapseAges DEF Aged
  <2>2. CASE ~Empty(p)
    BY <1>2, <1>3, <2>2 DEF Aged
  <2> QED BY <2>1, <2>2
<1>5. PICK q : q = IF kind = "rtx" THEN [f EXCEPT !.rtx = 0] ELSE [f EXCEPT !.queue = f.queue + 1]
    OBVIOUS
<1>6. PICK s : s = [q EXCEPT !.seen_first_packet = TRUE]
    OBVIOUS
<1>7. Aged(f, s)
  <2>1. PICK x : q = [f EXCEPT !.rtx = x] \/ q = [f EXCEPT !.queue = x]
    BY <1>5
  <2>2. Aged(f, q)
    BY <1>4, <2>1 DEF Aged, Timed
  <2> QED BY <1>6, <2>2 DEF Aged, Timed
<1>8. e = MaybeUpdateMediaRateDueToLongQueue(s)
    BY <1>1, <1>3, <1>5, <1>6 DEF EnqueuePacket
<1>9. Aged(s, e)
    BY <1>7, <1>8, RateAges DEF Aged
<1> QED BY <1>2, <1>4, <1>7, <1>9 DEF Aged

LEMMA BatchAges ==
    ASSUME NEW d, Timed(d), NEW kind, NEW n, NEW e, e = EnqueueBatch(d, kind, n)
    PROVE  Aged(d, e)
<1>1. PICK p : p = EnqueuePacket(d, kind)
    OBVIOUS
<1>2. Aged(d, p)
    BY <1>1, EnqueueAges
<1>3. PICK q : q = [p EXCEPT !.queue = p.queue + (n - 1)]
    OBVIOUS
<1>4. Aged(p, q)
    BY <1>2, <1>3 DEF Aged, Timed
<1>5. e = MaybeUpdateMediaRateDueToLongQueue(q)
    BY <1>1, <1>3 DEF EnqueueBatch
<1>6. Aged(q, e)
    BY <1>4, <1>5, RateAges DEF Aged
<1> QED BY <1>2, <1>4, <1>6 DEF Aged

LEMMA CongestionAges ==
    ASSUME NEW d, Timed(d), NEW c, NEW e, e = SetCongested(d, c)
    PROVE  Aged(d, e)
<1>1. PICK f : f = IF d.congested /\ ~c THEN Elapse(d, 0) ELSE d
    OBVIOUS
<1>2. Aged(d, f)
  <2>1. CASE d.congested /\ ~c
    BY <1>1, <2>1, ElapseAges
  <2>2. CASE ~(d.congested /\ ~c)
    BY <1>1, <2>2 DEF Aged
  <2> QED BY <2>1, <2>2
<1>3. PICK x, y : e = [f EXCEPT !.congested = x, !.probing_send_failure = y]
    BY <1>1 DEF SetCongested
<1>4. Aged(f, e)
    BY <1>2, <1>3 DEF Aged, Timed
<1> QED BY <1>2, <1>4, AgedTwice

LEMMA AllowAges ==
    ASSUME NEW d, Timed(d), NEW allow, NEW e, e = SetAllowProbeWithoutMediaPacket(d, allow)
    PROVE  Aged(d, e)
<1>1. PICK x, y : e = [d EXCEPT !.prober = x, !.probing_send_failure = y]
    BY DEF SetAllowProbeWithoutMediaPacket
<1> QED BY <1>1 DEF Aged, Timed

LEMMA SentIsNew ==
    ASSUME NEW d, Timed(d), NEW n, NEW e, e = OnPacketSent(d, n)
    PROVE  Timed(e) /\ e.since_send = 0 /\ (d.seen_first_packet => e.seen_first_packet)
<1>1. PICK s : s = [d EXCEPT !.since_send = 0]
    OBVIOUS
<1>2. Timed(s) /\ s.since_send = 0 /\ s.seen_first_packet = d.seen_first_packet
    BY <1>1 DEF Timed
<1>3. CASE n = 0
  <2>1. e = s
    BY <1>1, <1>3 DEF OnPacketSent
  <2> QED BY <1>2, <2>1
<1>4. CASE n # 0
  <2>1. PICK x, u : u = [s EXCEPT !.media_debt = x] /\ e = UpdatePaddingBudgetWithSentData(u, n)
    BY <1>1, <1>4 DEF OnPacketSent
  <2>2. Aged(s, u)
    BY <1>2, <2>1 DEF Aged, Timed
  <2>3. Aged(u, e)
    BY <2>1, <2>2, PaddingBudgetAges DEF Aged
  <2> QED BY <1>2, <2>2, <2>3 DEF Aged
<1> QED BY <1>3, <1>4

\* A step that sends nothing and lets no time pass.
LEMMA SilenceKept ==
    ASSUME SilenceInv, Aged(controller, controller'), UNCHANGED <<can_pad, silence>>
    PROVE  SilenceInv'
BY DEF SilenceInv, Aged, KeepalivePacket

LEMMA ProcessPacketsSilence ==
    ASSUME SilenceInv, Timed(controller), ProcessPackets
    PROVE  SilenceInv'
<1>0. /\ can_pad' = can_pad
      /\ silence' = IF KeepaliveDue(controller) /\ KeepalivePacket(controller) THEN 0 ELSE silence
    BY DEF ProcessPackets
<1>1. PICK w : w = WithoutExpired(controller)
    OBVIOUS
<1>2. Aged(controller, w)
    BY <1>1, WithoutExpiredAges
<1>3. PICK d : d = SendKeepalive(w)
    OBVIOUS
<1>4. PICK t : \/ controller' = Elapse(d, 0)
               \/ controller' = TakeCurrentCluster(Elapse(d, t))
    BY <1>1, <1>3 DEF ProcessPackets
<1>5. ASSUME Timed(d) PROVE Aged(d, controller')
  <2>1. CASE controller' = Elapse(d, 0)
    BY <1>5, <2>1, ElapseAges
  <2>2. CASE controller' = TakeCurrentCluster(Elapse(d, t))
    <3>1. PICK f : f = Elapse(d, t)
      OBVIOUS
    <3>2. Aged(d, f)
      BY <1>5, <3>1, ElapseAges
    <3>3. Aged(f, controller')
      BY <2>2, <3>1, <3>2, CurrentAges DEF Aged
    <3> QED BY <3>2, <3>3, AgedTwice
  <2> QED BY <1>4, <2>1, <2>2
<1>6. CASE ~KeepaliveDue(controller)
  <2>1. d = w
    BY <1>2, <1>3, <1>6 DEF SendKeepalive, KeepaliveDue, Aged
  <2>2. Aged(controller, controller')
    BY <1>2, <1>5, <2>1 DEF Aged
  <2> QED BY <1>0, <1>6, <2>2, SilenceKept
<1>7. CASE KeepaliveDue(controller)
  <2>1. PICK n : d = OnPacketSent(w, n)
    BY <1>2, <1>3, <1>7 DEF SendKeepalive, KeepaliveDue, Aged
  <2>2. Timed(d) /\ d.since_send = 0
    BY <1>2, <2>1, SentIsNew DEF Aged
  <2>3. controller'.since_send = 0
    BY <1>5, <2>2 DEF Aged
  <2>4. silence' = 0
    BY <1>0, <1>7 DEF SilenceInv
  <2> QED BY <2>3, <2>4 DEF SilenceInv
<1> QED BY <1>6, <1>7

LEMMA SendPacketSilence ==
    ASSUME Timed(controller), SendPacket
    PROVE  SilenceInv'
<1>1. PICK k : k = Taken(controller, loop)
    OBVIOUS
<1>2. Timed(k)
  <2>1. PICK x : k = controller \/ k = [controller EXCEPT !.rtx = x] \/ k = [controller EXCEPT !.queue = x]
    BY <1>1 DEF Taken
  <2> QED BY <2>1 DEF Timed
<1>3. PICK d : d = OnPacketSent(k, 1)
    OBVIOUS
<1>4. Timed(d) /\ d.since_send = 0
    BY <1>2, <1>3, SentIsNew
<1>5. PICK l, t : controller' = LeaveSendLoop(d, l) \/ controller' = Elapse(d, t)
    BY <1>1, <1>3 DEF SendPacket
<1>6. Aged(d, controller')
    BY <1>4, <1>5, LeaveAges, ElapseAges
<1>7. silence' = 0 /\ controller'.since_send = 0
    BY <1>4, <1>6 DEF SendPacket, Aged
<1> QED BY <1>7 DEF SilenceInv

LEMMA GeneratePaddingSilence ==
    ASSUME SilenceInv, Timed(controller), GeneratePadding
    PROVE  SilenceInv'
<1>1. PICK n : \/ controller' = EnqueueBatch(controller, "padding", n)
               \/ controller' = LeaveSendLoop(UpdatePaddingBudgetWithSentData(controller, n), loop)
    BY DEF GeneratePadding
<1>2. Aged(controller, controller')
  <2>1. CASE controller' = EnqueueBatch(controller, "padding", n)
    BY <2>1, BatchAges
  <2>2. CASE controller' = LeaveSendLoop(UpdatePaddingBudgetWithSentData(controller, n), loop)
    <3>1. PICK d : d = UpdatePaddingBudgetWithSentData(controller, n)
      OBVIOUS
    <3>2. Aged(controller, d)
      BY <3>1, PaddingBudgetAges
    <3>3. Aged(d, controller')
      BY <2>2, <3>1, <3>2, LeaveAges DEF Aged
    <3> QED BY <3>2, <3>3, AgedTwice
  <2> QED BY <1>1, <2>1, <2>2
<1> QED BY <1>2, SilenceKept DEF GeneratePadding

LEMMA ClosuresAge ==
    ASSUME Timed(controller),
           \/ EnqueuePackets \/ CreateProbeClusters \/ CongestionChanges
           \/ SetPacingRates \/ UpdateMediaTransportState \/ SetTransportReady
    PROVE  Aged(controller, controller')
<1>1. CASE EnqueuePackets
  <2>1. PICK n : \/ controller' = EnqueueBatch(controller, "media", n)
                 \/ controller' = EnqueuePacket(controller, "rtx")
    BY <1>1 DEF EnqueuePackets
  <2> QED BY <2>1, BatchAges, EnqueueAges
<1>2. CASE CreateProbeClusters
  <2>1. PICK b : controller' = ClearProbingSendFailure([controller EXCEPT !.prober = b])
    BY <1>2 DEF CreateProbeClusters
  <2>2. PICK d : d = [controller EXCEPT !.prober = b]
    OBVIOUS
  <2>3. controller' = [d EXCEPT !.probing_send_failure = FALSE]
    BY <2>1, <2>2 DEF ClearProbingSendFailure
  <2>4. Aged(controller, d)
    BY <2>2 DEF Aged, Timed
  <2> QED BY <2>3, <2>4 DEF Aged, Timed
<1>3. CASE CongestionChanges
    BY <1>3, CongestionAges DEF CongestionChanges
<1>4. CASE SetPacingRates
  <2>1. PICK r : controller' = MaybeUpdateMediaRateDueToLongQueue([controller EXCEPT !.padding_rate = r])
    BY <1>4 DEF SetPacingRates
  <2>2. PICK d : d = [controller EXCEPT !.padding_rate = r]
    OBVIOUS
  <2>3. Aged(controller, d)
    BY <2>2 DEF Aged, Timed
  <2>4. Aged(d, controller')
    BY <2>1, <2>2, <2>3, RateAges DEF Aged
  <2> QED BY <2>3, <2>4, AgedTwice
<1>5. CASE UpdateMediaTransportState
    BY <1>5, AllowAges DEF UpdateMediaTransportState
<1>6. CASE SetTransportReady
  <2>1. CASE TransportReady
    <3>1. PICK x : controller' = [controller EXCEPT !.paused = FALSE, !.since_process = x]
      BY <2>1 DEF TransportReady, Resume
    <3> QED BY <3>1 DEF Aged, Timed
  <2>2. CASE TransportNotReady
    <3>1. PICK b : controller' = [controller EXCEPT !.prober = b, !.probing_send_failure = FALSE,
                                                    !.paused = TRUE]
      BY <2>2 DEF TransportNotReady
    <3> QED BY <3>1 DEF Aged, Timed
  <2> QED BY <1>6, <2>1, <2>2 DEF SetTransportReady
<1> QED BY <1>1, <1>2, <1>3, <1>4, <1>5, <1>6

\* The clock ages the last packet at least as much as the silence.
LEMMA TickSilence ==
    ASSUME SilenceInv, controller \in Controllers, Tick
    PROVE  SilenceInv'
<1>0. controller.since_send \in Nat
    BY ControllerHas
<1>1. PICK top \in Nat : top = kPausedProcessInterval + HoldBack + MaxLate + 1
    BY ConstantsAre
<1>2. PICK b, p, x : controller' = [controller EXCEPT !.prober = b,
                                    !.since_send = Least(controller.since_send + 1, top),
                                    !.since_process = p, !.rtx = x]
    BY <1>1 DEF Tick
<1>3. /\ controller'.since_send = Least(controller.since_send + 1, top)
      /\ controller'.seen_first_packet = controller.seen_first_packet
    BY <1>2 DEF Controllers
<1>4. can_pad' = can_pad /\ silence' = IF KeepalivePacket(controller) THEN Least(silence + 1, top) ELSE 0
    BY <1>1 DEF Tick
<1>5. Least(controller.since_send + 1, top) \in Nat
    BY <1>0 DEF Least
<1>6. CASE KeepalivePacket(controller)
  <2>1. /\ Least(silence + 1, top) \in Nat
        /\ Least(silence + 1, top) <= Least(controller.since_send + 1, top)
    BY <1>0 DEF Least, SilenceInv
  <2>2. KeepalivePacket(controller)'
    BY <1>3, <1>4, <1>6 DEF KeepalivePacket
  <2> QED BY <1>3, <1>4, <1>6, <2>1, <2>2 DEF SilenceInv
<1>7. CASE ~KeepalivePacket(controller)
    BY <1>3, <1>4, <1>5, <1>7 DEF SilenceInv
<1> QED BY <1>6, <1>7

\* PacingController::OnPacketSent: the time since the last packet that really
\* left is bounded by the age the code keeps, wherever there is one to send.
THEOREM SilenceInvariant == PacerSpec => []SilenceInv
<1>1. ASSUME PacerInit PROVE SilenceInv
    BY <1>1 DEF PacerInit, SilenceInv
<1>2. ASSUME PacerInv, SilenceInv, [PacerNext]_pacer_vars PROVE SilenceInv'
  <2>0. controller \in Controllers /\ Timed(controller)
    BY <1>2 DEF PacerInv, ControllerOK, Controllers, Timed
  <2>1. CASE ProcessPackets
    BY <1>2, <2>0, <2>1, ProcessPacketsSilence
  <2>2. CASE SendPacket
    BY <2>0, <2>2, SendPacketSilence
  <2>3. CASE GeneratePadding
    BY <1>2, <2>0, <2>3, GeneratePaddingSilence
  <2>4. CASE Tick
    BY <1>2, <2>0, <2>4, TickSilence
  <2>5. CASE Reschedule \/ DelayedTask \/ UNCHANGED pacer_vars
    <3>1. UNCHANGED <<controller, can_pad, silence>>
      BY <2>5 DEF Reschedule, DelayedTask, pacer_vars
    <3> QED BY <1>2, <2>0, <3>1, SilenceKept DEF Aged
  <2>6. CASE \/ EnqueuePackets \/ CreateProbeClusters \/ CongestionChanges
             \/ SetPacingRates \/ UpdateMediaTransportState \/ SetTransportReady
    <3>1. Aged(controller, controller')
      BY <2>0, <2>6, ClosuresAge
    <3>2. UNCHANGED <<can_pad, silence>>
      BY <2>6 DEF EnqueuePackets, CreateProbeClusters, CongestionChanges, SetPacingRates,
                  UpdateMediaTransportState, SetTransportReady
    <3> QED BY <1>2, <3>1, <3>2, SilenceKept
  <2> QED BY <1>2, <2>1, <2>2, <2>3, <2>4, <2>5, <2>6 DEF PacerNext, Processing
<1> QED BY <1>1, <1>2, PacerInvariant, PTL DEF PacerSpec

LEMMA TimerIsRightNow ==
    ASSUME PacerInv, SilenceInv
    PROVE  TimerIsRight
<1>0. ControllerOK(controller) /\ TimerOK /\ WorkingOK /\ controller \in Controllers
    BY DEF PacerInv, ControllerOK
<1>1. PacerTypeOK
  <2>1. controller.media_debt \in 0 .. 2 * PacingRate * kMaxDebtInTime
    BY <1>0 DEF Controllers
  <2>2. controller.padding_debt \in Nat /\ controller.queue \in 0 .. MaxQueue + ProbeSize + PacingRate
    BY <1>0 DEF Controllers
  <2>3. Len(controller.prober.clusters) <= kMaxPendingProbeClusters
    BY <1>0 DEF ControllerOK, ProberOK, QueueOK
  <2>4. controller.prober.active => controller.prober.clusters # <<>>
    BY <1>0 DEF ControllerOK, ProberOK
  <2>5. next_process_time \in Times \cup {MinusInfinity}
    BY <1>0 DEF TimerOK
  <2>6. silence \in Nat
    BY DEF SilenceInv
  <2> QED BY <1>0, <2>1, <2>2, <2>3, <2>4, <2>5, <2>6 DEF PacerTypeOK, TimerOK
<1>2. TimerIsArmed
    BY <1>0 DEF TimerIsArmed, WorkingOK, TimerOK
<1>3. TimerIsTimely
    BY <1>0 DEF TimerIsTimely, WorkingOK
<1> QED BY <1>1, <1>2, <1>3 DEF TimerIsRight

\* PacedSender::MaybeProcessPackets: the timer is never lost, and it is due no
\* later than the next packet, padding, probe or keep-alive.
THEOREM TheTimerIsRight == PacerSpec => []TimerIsRight
BY PacerInvariant, SilenceInvariant, TimerIsRightNow, PTL

\* Between tasks the timer is an integer no earlier than the lateness allows.
LEMMA TimerIs ==
    ASSUME PacerInv, Working
    PROVE  next_process_time \in Int /\ next_process_time >= -MaxLate
<1>1. next_process_time \in Times
    BY DEF PacerInv, TimerOK, WorkingOK
<1> QED BY <1>1, TimesAre

LEMMA KeepsAliveNow ==
    ASSUME PacerInv, SilenceInv
    PROVE  KeepsAlive
<1> SUFFICES ASSUME Working
             PROVE  silence <= kPausedProcessInterval + HoldBack + MaxLate
    BY DEF KeepsAlive
<1>1. next_process_time \in Int /\ next_process_time >= -MaxLate
    BY TimerIs
<1>2. controller.since_send \in Nat
    BY ControllerHas DEF PacerInv, ControllerOK
<1>3. next_process_time + controller.since_send <= kPausedProcessInterval + HoldBack
    BY DEF PacerInv, WorkingOK
<1>4. silence \in Nat /\ silence <= controller.since_send
    BY DEF SilenceInv
<1> QED BY <1>1, <1>2, <1>3, <1>4, ConstantsAre

\* PacingController::ProcessPackets: a ready transport that has a stream to pad
\* and has sent its first packet lets a packet leave at least every 500 ms and
\* the lateness of the queue, congested or not.  The silence that is bounded is
\* that of the wire, not the age last_send_time_ gives.
THEOREM ThePeerHears == PacerSpec => []KeepsAlive
BY PacerInvariant, SilenceInvariant, KeepsAliveNow, PTL

LEMMA ProbesMoveOnNow ==
    ASSUME PacerInv
    PROVE  ProbesMoveOn
<1>0. PICK q \in Seq(Clusters) : q = controller.prober.clusters /\ QueueOK(q)
    BY DEF PacerInv, ControllerOK, ProberOK, Probers
<1>1. ASSUME Working, NEW i \in DOMAIN q
      PROVE  q[i].age < kProbeClusterTimeout + HoldBack + MaxLate
  <2>1. q # <<>> /\ 1 \in DOMAIN q /\ 1 <= i
    OBVIOUS
  <2>2. PICK a \in Nat, k \in Nat : a = q[i].age /\ k = q[1].age
    BY <2>1, ClusterHas
  <2>3. a <= k
    BY <1>0, <2>1, <2>2 DEF QueueOK
  <2>4. next_process_time \in Int /\ next_process_time >= -MaxLate
    BY <1>1, TimerIs
  <2>5. next_process_time + k < kProbeClusterTimeout + HoldBack
    BY <1>0, <1>1, <2>1, <2>2 DEF PacerInv, WorkingOK
  <2>6. a < kProbeClusterTimeout + HoldBack + MaxLate
    BY <2>3, <2>4, <2>5, ConstantsAre
  <2> QED BY <2>2, <2>6
<1>2. ClustersExpire
    BY <1>0, <1>1 DEF ClustersExpire
<1>3. BlockedProbeIsHopeless
    BY DEF BlockedProbeIsHopeless, PacerInv, ControllerOK, Hopeless
<1> QED BY <1>2, <1>3 DEF ProbesMoveOn

\* BitrateProber: no cluster outlives its timeout by more than the lateness of
\* the queue, and a probe is held back only while nothing could carry it.
THEOREM ProbesDoMoveOn == PacerSpec => []ProbesMoveOn
BY PacerInvariant, ProbesMoveOnNow, PTL
=============================================================================
