--------------------------- MODULE TaskQueueLockFree ---------------------------
(***************************************************************************)
(* The task queue of src/src/common/task_queue_lock_free.h, on which the   *)
(* encoder, decoder and feedback pipelines of a connection run.            *)
(*                                                                         *)
(* A ConcurrentQueue holds the tasks and an atomic counter, pending_tasks_,*)
(* mirrors its length.  The mutex and the condition variable serve only to *)
(* put an idle worker to sleep.  PostTask changes both under the mutex;    *)
(* the worker dequeues and decrements WITHOUT it, and Stop sets stop_flag_ *)
(* WITHOUT it.  Every step below is one atomic access, one lock operation  *)
(* or one condition variable call of the code.                             *)
(***************************************************************************)
EXTENDS Integers, Sequences, FiniteSets

CONSTANTS
    Producers,   \* threads that call PostTask
    Workers,     \* the numThreads worker threads
    MaxPosts     \* bound: PostTask calls made by each producer

Free == "free"   \* mutex_ is not held

ASSUME MaxPostsAssumption == MaxPosts \in Nat \ {0}
ASSUME ThreadsAssumption ==
    /\ IsFiniteSet(Producers) /\ IsFiniteSet(Workers) /\ Workers # {}
    /\ Producers \cap Workers = {} /\ Free \notin Producers \cup Workers

VARIABLES
    mutex,       \* the thread that holds mutex_, or Free
    stop_flag,   \* stop_flag_
    pending,     \* pending_tasks_
    task_queue,  \* task_queue_: one FIFO stream of task numbers for each producer
    posted,      \* PostTask calls each producer has begun
    ppc,         \* where each producer is in PostTask
    wpc,         \* where each worker is in WorkerThread
    item,        \* the TaskItem each worker holds
    spc,         \* where the owner is in Stop
    executed     \* history: the tasks run, in order

vars == <<mutex, stop_flag, pending, task_queue, posted, ppc, wpc, item, spc,
          executed>>

\* The n-th task posted by producer p.
Tasks == Producers \X (1..MaxPosts)
NoTask == <<>>

Init ==
    /\ mutex = Free
    /\ stop_flag = FALSE
    /\ pending = 0
    /\ task_queue = [p \in Producers |-> <<>>]
    /\ posted = [p \in Producers |-> 0]
    /\ ppc = [p \in Producers |-> "idle"]
    /\ wpc = [w \in Workers |-> "dequeue"]
    /\ item = [w \in Workers |-> NoTask]
    /\ spc = "running"
    /\ executed = <<>>

Waiting == {w \in Workers : wpc[w] = "waiting"}

-----------------------------------------------------------------------------
(* PostTask *)

PostLock(p) ==
    /\ ppc[p] = "idle"
    /\ posted[p] < MaxPosts
    /\ mutex = Free
    /\ mutex' = p
    /\ posted' = [posted EXCEPT ![p] = @ + 1]
    /\ ppc' = [ppc EXCEPT ![p] = "locked"]
    /\ UNCHANGED <<stop_flag, pending, task_queue, wpc, item, spc, executed>>

\* stop_flag_ is read under the mutex, but Stop writes it without.
PostCheckStop(p) ==
    /\ ppc[p] = "locked"
    /\ IF stop_flag
       THEN /\ mutex' = Free
            /\ ppc' = [ppc EXCEPT ![p] = "idle"]
       ELSE /\ ppc' = [ppc EXCEPT ![p] = "accepted"]
            /\ UNCHANGED mutex
    /\ UNCHANGED <<stop_flag, pending, task_queue, posted, wpc, item, spc,
                   executed>>

\* Mutant: the queue is a stack.
PostEnqueueLifo(p) ==
    /\ ppc[p] = "accepted"
    /\ task_queue' = [task_queue EXCEPT ![p] = <<posted[p]>> \o @]
    /\ ppc' = [ppc EXCEPT ![p] = "enqueued"]
    /\ UNCHANGED <<mutex, stop_flag, pending, posted, wpc, item, spc, executed>>

PostEnqueue(p) ==
    /\ ppc[p] = "accepted"
    /\ task_queue' = [task_queue EXCEPT ![p] = Append(@, posted[p])]
    /\ ppc' = [ppc EXCEPT ![p] = "enqueued"]
    /\ UNCHANGED <<mutex, stop_flag, pending, posted, wpc, item, spc, executed>>

\* Mutant: the notify_one is forgotten.
PostCountNoNotify(p) ==
    /\ ppc[p] = "enqueued"
    /\ pending' = pending + 1
    /\ mutex' = Free
    /\ ppc' = [ppc EXCEPT ![p] = "idle"]
    /\ UNCHANGED <<stop_flag, task_queue, posted, wpc, item, spc, executed>>

\* fetch_add, then the end of the lock_guard's scope.
PostCount(p) ==
    /\ ppc[p] = "enqueued"
    /\ pending' = pending + 1
    /\ mutex' = Free
    /\ ppc' = [ppc EXCEPT ![p] = "notify"]
    /\ UNCHANGED <<stop_flag, task_queue, posted, wpc, item, spc, executed>>

\* notify_one wakes one of the waiters, if there is one.
PostNotify(p) ==
    /\ ppc[p] = "notify"
    /\ \/ /\ Waiting = {}
          /\ UNCHANGED wpc
       \/ \E w \in Waiting : wpc' = [wpc EXCEPT ![w] = "lock"]
    /\ ppc' = [ppc EXCEPT ![p] = "idle"]
    /\ UNCHANGED <<mutex, stop_flag, pending, task_queue, posted, item, spc,
                   executed>>

-----------------------------------------------------------------------------
(* WorkerThread *)

\* try_dequeue succeeds on some producer's stream.
WorkerDequeue(w) ==
    /\ wpc[w] = "dequeue"
    /\ \E p \in Producers :
         /\ task_queue[p] # <<>>
         /\ item' = [item EXCEPT ![w] = <<p, Head(task_queue[p])>>]
         /\ task_queue' = [task_queue EXCEPT ![p] = Tail(@)]
    /\ wpc' = [wpc EXCEPT ![w] = "decrement"]
    /\ UNCHANGED <<mutex, stop_flag, pending, posted, ppc, spc, executed>>

\* Mutant: a dequeue that does not reduce the pending count.
WorkerNoDecrement(w) ==
    /\ wpc[w] = "decrement"
    /\ wpc' = [wpc EXCEPT ![w] = "run"]
    /\ UNCHANGED <<mutex, stop_flag, pending, task_queue, posted, ppc, item,
                   spc, executed>>

WorkerDecrement(w) ==
    /\ wpc[w] = "decrement"
    /\ pending' = pending - 1
    /\ wpc' = [wpc EXCEPT ![w] = "run"]
    /\ UNCHANGED <<mutex, stop_flag, task_queue, posted, ppc, item, spc,
                   executed>>

\* The delay statistics and item.task(); a task that throws is caught.
WorkerRun(w) ==
    /\ wpc[w] = "run"
    /\ executed' = Append(executed, item[w])
    /\ item' = [item EXCEPT ![w] = NoTask]
    /\ wpc' = [wpc EXCEPT ![w] = "dequeue"]
    /\ UNCHANGED <<mutex, stop_flag, pending, task_queue, posted, ppc, spc>>

\* try_dequeue returns false.
WorkerQueueEmpty(w) ==
    /\ wpc[w] = "dequeue"
    /\ \A p \in Producers : task_queue[p] = <<>>
    /\ wpc' = [wpc EXCEPT ![w] = "lock"]
    /\ UNCHANGED <<mutex, stop_flag, pending, task_queue, posted, ppc, item,
                   spc, executed>>

\* The unique_lock, or the relock when a wait returns.
WorkerLock(w) ==
    /\ wpc[w] = "lock"
    /\ mutex = Free
    /\ mutex' = w
    /\ wpc' = [wpc EXCEPT ![w] = "check"]
    /\ UNCHANGED <<stop_flag, pending, task_queue, posted, ppc, item, spc,
                   executed>>

\* Mutant: an off-by-one in the wait predicate.
WorkerCheckOffByOne(w) ==
    /\ wpc[w] = "check"
    /\ \/ /\ stop_flag
          /\ wpc' = [wpc EXCEPT ![w] = "exited"]
          /\ mutex' = Free
       \/ /\ ~stop_flag /\ pending > 1
          /\ wpc' = [wpc EXCEPT ![w] = "dequeue"]
          /\ mutex' = Free
       \/ /\ ~stop_flag /\ pending <= 1
          /\ wpc' = [wpc EXCEPT ![w] = "block"]
          /\ UNCHANGED mutex
    /\ UNCHANGED <<stop_flag, pending, task_queue, posted, ppc, item, spc,
                   executed>>

\* The wait predicate, and the stop_flag_ test after it.
WorkerCheck(w) ==
    /\ wpc[w] = "check"
    /\ \/ /\ stop_flag
          /\ wpc' = [wpc EXCEPT ![w] = "exited"]
          /\ mutex' = Free
       \/ /\ ~stop_flag /\ pending > 0
          /\ wpc' = [wpc EXCEPT ![w] = "dequeue"]
          /\ mutex' = Free
       \/ /\ ~stop_flag /\ pending <= 0
          /\ wpc' = [wpc EXCEPT ![w] = "block"]
          /\ UNCHANGED mutex
    /\ UNCHANGED <<stop_flag, pending, task_queue, posted, ppc, item, spc,
                   executed>>

\* The condition variable releases the mutex and enters its wait set at once.
WorkerBlock(w) ==
    /\ wpc[w] = "block"
    /\ mutex' = Free
    /\ wpc' = [wpc EXCEPT ![w] = "waiting"]
    /\ UNCHANGED <<stop_flag, pending, task_queue, posted, ppc, item, spc,
                   executed>>

\* The standard lets a wait return without a notification.
WorkerSpuriousWakeup(w) ==
    /\ wpc[w] = "waiting"
    /\ wpc' = [wpc EXCEPT ![w] = "lock"]
    /\ UNCHANGED <<mutex, stop_flag, pending, task_queue, posted, ppc, item,
                   spc, executed>>

-----------------------------------------------------------------------------
(* Stop *)

\* The compare_exchange, which does not hold mutex_.
StopSetFlag ==
    /\ spc = "running"
    /\ stop_flag' = TRUE
    /\ spc' = "notify"
    /\ UNCHANGED <<mutex, pending, task_queue, posted, ppc, wpc, item, executed>>

StopNotifyAll ==
    /\ spc = "notify"
    /\ wpc' = [w \in Workers |-> IF w \in Waiting THEN "lock" ELSE wpc[w]]
    /\ spc' = "swap"
    /\ UNCHANGED <<mutex, stop_flag, pending, task_queue, posted, ppc, item,
                   executed>>

\* workers_ is swapped out under the mutex.
StopSwapWorkers ==
    /\ spc = "swap"
    /\ mutex = Free
    /\ spc' = "join"
    /\ UNCHANGED <<mutex, stop_flag, pending, task_queue, posted, ppc, wpc,
                   item, executed>>

StopJoin ==
    /\ spc = "join"
    /\ \A w \in Workers : wpc[w] = "exited"
    /\ spc' = "stopped"
    /\ UNCHANGED <<mutex, stop_flag, pending, task_queue, posted, ppc, wpc,
                   item, executed>>

Producer(p) ==
    PostLock(p) \/ PostCheckStop(p) \/ PostEnqueue(p) \/ PostCount(p)
        \/ PostNotify(p)

Worker(w) ==
    WorkerDequeue(w) \/ WorkerDecrement(w) \/ WorkerRun(w)
        \/ WorkerQueueEmpty(w) \/ WorkerLock(w) \/ WorkerCheck(w)
        \/ WorkerBlock(w)

Stop == StopSetFlag \/ StopNotifyAll \/ StopSwapWorkers \/ StopJoin

Next ==
    \/ \E p \in Producers : Producer(p)
    \/ \E w \in Workers : Worker(w) \/ WorkerSpuriousWakeup(w)
    \/ Stop

Spec == Init /\ [][Next]_vars

\* A thread that can run eventually does (the OS scheduler), and a mutex that
\* is released again and again is eventually granted.  Nothing promises a
\* spurious wakeup.  Whether Stop is called
\* at all is up to the application; once called, it runs.
Fairness ==
    /\ \A p \in Producers : SF_vars(PostLock(p))
                              /\ WF_vars(Producer(p) /\ ppc[p] # "idle")
    /\ \A w \in Workers : SF_vars(WorkerLock(w)) /\ WF_vars(Worker(w))
    /\ WF_vars(StopNotifyAll) /\ SF_vars(StopSwapWorkers) /\ WF_vars(StopJoin)

FairSpec == Spec /\ Fairness

-----------------------------------------------------------------------------
(* Properties *)

Threads == Producers \cup Workers

TypeOK ==
    /\ mutex \in Threads \cup {Free}
    /\ stop_flag \in BOOLEAN
    /\ pending \in Int
    /\ task_queue \in [Producers -> Seq(1..MaxPosts)]
    /\ posted \in [Producers -> 0..MaxPosts]
    /\ ppc \in [Producers ->
               {"idle", "locked", "accepted", "enqueued", "notify"}]
    /\ wpc \in [Workers -> {"dequeue", "decrement", "run", "lock", "check",
                             "block", "waiting", "exited"}]
    /\ item \in [Workers -> Tasks \cup {NoTask}]
    /\ spc \in {"running", "notify", "swap", "join", "stopped"}
    /\ executed \in Seq(Tasks)

Queued ==
    {t \in Tasks : \E i \in DOMAIN task_queue[t[1]] : task_queue[t[1]][i] = t[2]}

Decrementing == {w \in Workers : wpc[w] = "decrement"}
Enqueued == {p \in Producers : ppc[p] = "enqueued"}

\* pending_tasks_ counts the tasks in the queue, except between the two halves
\* of a PostTask (enqueue, fetch_add) and of a worker's dequeue (try_dequeue,
\* fetch_sub): the two halves are not atomic and the counter may even be
\* negative, but the drift is exactly the threads that are in between.
PendingCountsQueue ==
    pending = Cardinality(Queued) + Cardinality(Decrementing)
              - Cardinality(Enqueued)

\* A worker never sleeps on work: when every worker is blocked in the wait and
\* a task is queued, the producer that queued it has still to call notify_one
\* (the predicate is re-evaluated under the mutex PostTask holds).
NoTaskBehindSleepingWorkers ==
    (Waiting = Workers /\ Queued # {}) =>
        \E p \in Producers : ppc[p] \in {"enqueued", "notify"}

\* One producer's tasks run in the order it posted them, each at most once,
\* although dequeuing is not synchronised with PostTask (one worker, as in
\* every use of the class).
RunsInPostOrder ==
    \A i, j \in DOMAIN executed :
        (i < j /\ executed[i][1] = executed[j][1])
            => executed[i][2] < executed[j][2]

\* A task the queue has accepted runs, unless the queue is stopped first: no
\* wakeup of the worker is lost between two producers.
AcceptedTaskRuns ==
    \A t \in Tasks :
        (t \in Queued) ~> (\E i \in DOMAIN executed : executed[i] = t) \/ stop_flag

\* Stop returns: the worker it joins leaves its loop.
StopReturns == (spc = "notify") ~> (spc = "stopped")
=============================================================================
