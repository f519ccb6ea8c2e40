--------------------------- MODULE WsClientProofs ---------------------------
(* The signalling client has one event loop and one thread that replaces it, *)
(* and Shutdown leaves neither, for any number of failures.                  *)
(*                                                                           *)
(* What makes it hard: a reconnect thread runs before it is published, and   *)
(* Shutdown clears is_reconnecting_ while one may be at work.  The argument  *)
(* is who owns a thread: reconnect_thread_, Shutdown, or the handler that    *)
(* started it, which keeps its event loop from ending, so that the thread    *)
(* cannot get past the join of that loop before it is published.             *)
EXTENDS WsClient, FiniteSetTheorems, TLAPS

Live(t) == thread[t].pc \notin {"none", "exit"}
Stopping(t) == thread[t].pc \in {"stop", "join", "joinio"}
Closing == {"take", "join", "stopio", "joinio", "down"}

\* The handler that runs on e has started t and not yet published or joined it.
Holds(e, t) == io[e].pc \in {"publish", "joining"} /\ io[e].thread = t

\* Threads are started in order; those in pending_threads_ have ended.
Started ==
    /\ \A t \in Threads : t > started <=> thread[t].pc = "none"
    /\ slot <= started
    /\ \A t \in pending : thread[t].pc = "exit"

\* is_reconnecting_ says whether there is a thread, until Shutdown clears it;
\* from then on no thread begins to work.
OneThread ==
    /\ ~shutdown => (reconnecting <=> \E t \in Threads : Live(t))
    /\ ~shutdown => \A t, u \in Threads : Live(t) /\ Live(u) => t = u
    /\ \A t, u \in Busy : t = u

\* Every thread that runs has an owner.
Owners ==
    /\ \A t \in Threads : Live(t) =>
          t = slot \/ t \in app.joins \/ \E e \in Endpoints : Holds(e, t)
    /\ \A e \in Endpoints : io[e].pc \in {"publish", "joining"} =>
          /\ io[e].thread \in Threads
          /\ thread[io[e].thread].pc \in {"wait", "reconnect", "stop", "join", "joinio",
                                          "finish", "exit"}
    /\ \A e \in Endpoints : io[e].pc = "publish" /\ ~shutdown /\ slot # None =>
          thread[slot].pc = "exit"

\* Only the event loop of the newest endpoint may be running.
Loops ==
    /\ endpoint \in {made, None}
    /\ \A e \in Endpoints :
          /\ e > made => io[e].pc = "none" /\ conn[e] = "none"
          /\ e < made => io[e].pc = "exit"
          /\ e = made /\ endpoint = None => io[e].pc = "exit"
    /\ \A t \in Threads : /\ thread[t].pc \in {"connect", "make"} => endpoint = None
                          /\ thread[t].pc = "dial" => endpoint # None

\* Where the application is.
Phases ==
    /\ shutdown <=> app.pc \in Closing
    /\ app.pc \in Closing \ {"take"} => slot = None
    /\ app.pc # "join" => app.joins = {}
    /\ app.pc = "down" => endpoint = None
    /\ app.pc \in {"connect", "dial"} =>
          /\ started = 0 /\ made = IF app.pc = "dial" THEN 1 ELSE 0
          /\ app.pc = "dial" => endpoint = 1
          /\ \A e \in Endpoints : /\ conn[e] = "none" /\ io[e].pc \in {"none", "loop"}
                                   /\ work[e] \in {"none", "perpetual"}

\* A handler that is going to start a thread was called because of a fault that
\* has not been answered by a thread yet, or because a thread has closed the
\* connection, and that thread is still there.  Only Shutdown can let the
\* second kind start one.
Counts ==
    /\ \A e \in Endpoints : conn[e] = "untrusted" => io[e].pc \in {"loop", "exit"}
    /\ \A e \in Endpoints :
          /\ ~shutdown /\ (io[e].pc = "cas" \/ (io[e].pc = "loop" /\ conn[e] = "untrusted"))
                => started < faults \/ \E t \in Threads : Stopping(t)
          /\ ~shutdown /\ conn[e] = "closing" /\ io[e].pc # "exit"
                => \E t \in Threads : Stopping(t)
          /\ shutdown /\ io[e].pc = "cas" => started <= faults
          /\ io[e].pc = "cas" => faults > 0
    /\ started <= (IF shutdown THEN faults + 1 ELSE faults)
    /\ started > 0 => faults > 0
    /\ made <= started + 1
    /\ \A t \in Threads :
          thread[t].pc \in {"reconnect", "stop", "join", "joinio", "connect", "make"}
             \/ (thread[t].pc = "wait" /\ ~shutdown) => made <= started

IInv == TypeOK /\ Started /\ OneThread /\ Owners /\ Loops /\ Phases /\ Counts

-----------------------------------------------------------------------------
(* How many threads and endpoints there are, and what moving one leaves.     *)

LEMMA Sizes ==
    /\ Cardinality(Threads) = 2 * MaxFaults
    /\ Cardinality(Endpoints) = 2 * MaxFaults + 1
    /\ Threads \subseteq Nat /\ Endpoints \subseteq Nat
<1>1. MaxFaults \in Nat
  BY FaultsAssumption
<1>2. Cardinality(1..(2 * MaxFaults)) = IF 1 > 2 * MaxFaults THEN 0 ELSE 2 * MaxFaults - 1 + 1
  BY <1>1, FS_Interval
<1>3. Cardinality(1..(2 * MaxFaults + 1))
        = IF 1 > 2 * MaxFaults + 1 THEN 0 ELSE 2 * MaxFaults + 1 - 1 + 1
  BY <1>1, FS_Interval
<1> QED
  BY <1>1, <1>2, <1>3 DEF Threads, Endpoints

ThreadStates == [pc : ThreadPcs, gen : Nat, joins : SUBSET Threads]
IoStates == [pc : IoPcs, thread : Threads \cup {None}]

\* A thread goes on to pc, and the others stay where they are.
ThreadAt(t, pc) ==
    \A u \in Threads : thread'[u].pc = IF u = t THEN pc ELSE thread[u].pc

\* An I/O thread goes on to pc, and the others stay where they are.
IoAt(e, pc) ==
    \A d \in Endpoints : /\ io'[d].pc = IF d = e THEN pc ELSE io[d].pc
                         /\ io'[d].thread = io[d].thread

LEMMA ThreadMoves ==
    ASSUME TypeOK, NEW t \in Threads, NEW pc \in ThreadPcs, ThreadGoto(t, pc)
    PROVE  thread' \in [Threads -> ThreadStates] /\ ThreadAt(t, pc)
<1> DEFINE k == [thread[t] EXCEPT !.pc = pc]
<1>1. thread \in [Threads -> ThreadStates]
  BY DEF TypeOK, ThreadStates
<1>2. k \in ThreadStates /\ k.pc = pc
  BY <1>1 DEF ThreadStates
<1>3. thread' = [thread EXCEPT ![t] = k]
  BY DEF ThreadGoto
<1> HIDE DEF k
<1> QED
  BY <1>1, <1>2, <1>3 DEF ThreadAt

ThreadGotoWith(t, pc, J) == thread' = [thread EXCEPT ![t].pc = pc, ![t].joins = J]

LEMMA ThreadMovesWith ==
    ASSUME TypeOK, NEW t \in Threads, NEW pc \in ThreadPcs, NEW J \in SUBSET Threads,
           ThreadGotoWith(t, pc, J)
    PROVE  thread' \in [Threads -> ThreadStates] /\ ThreadAt(t, pc)
<1> DEFINE h == [thread[t] EXCEPT !.pc = pc]
           g == [thread EXCEPT ![t] = h]
           k == [g[t] EXCEPT !.joins = J]
<1>1. thread \in [Threads -> ThreadStates]
  BY DEF TypeOK, ThreadStates
<1>2. h \in ThreadStates /\ h.pc = pc
  BY <1>1 DEF ThreadStates
<1> HIDE DEF h
<1>3. g \in [Threads -> ThreadStates] /\ g[t] = h
      /\ \A u \in Threads : u # t => g[u] = thread[u]
  BY <1>1, <1>2
<1>4. thread' = [g EXCEPT ![t] = k]
  BY DEF h, ThreadGotoWith
<1> HIDE DEF g
<1>5. k \in ThreadStates /\ k.pc = pc
  BY <1>2, <1>3 DEF ThreadStates
<1> HIDE DEF k
<1> QED
  BY <1>1, <1>3, <1>4, <1>5 DEF ThreadAt

LEMMA IoMoves ==
    ASSUME TypeOK, NEW e \in Endpoints, NEW pc \in IoPcs, IoGoto(e, pc)
    PROVE  io' \in [Endpoints -> IoStates] /\ IoAt(e, pc)
<1> DEFINE k == [io[e] EXCEPT !.pc = pc]
<1>1. io \in [Endpoints -> IoStates]
  BY DEF TypeOK, IoStates
<1>2. k \in IoStates /\ k.pc = pc /\ k.thread = io[e].thread
  BY <1>1 DEF IoStates
<1>3. io' = [io EXCEPT ![e] = k]
  BY DEF IoGoto
<1> HIDE DEF k
<1> QED
  BY <1>1, <1>2, <1>3 DEF IoAt

-----------------------------------------------------------------------------
(* The initial state, and the types.                                         *)

LEMMA InitInv == Init => IInv
<1> SUFFICES ASSUME Init PROVE IInv
  OBVIOUS
<1>1. MaxFaults \in Nat
  BY FaultsAssumption
<1>2. TypeOK
  <2>1. thread \in [Threads -> [pc : ThreadPcs, gen : Nat, joins : SUBSET Threads]]
    BY DEF Init, ThreadPcs
  <2>2. io \in [Endpoints -> [pc : IoPcs, thread : Threads \cup {None}]]
    BY DEF Init, IoPcs
  <2>3. app \in [pc : AppPcs, joins : SUBSET Threads]
    BY DEF Init, AppPcs
  <2>4. 0 \in 0..Cardinality(Threads) /\ 0 \in 0..Cardinality(Endpoints) /\ 0 \in 0..MaxFaults
    BY <1>1, Sizes
  <2>5. work \in [Endpoints -> {"none", "perpetual", "last", "stopped"}]
        /\ conn \in [Endpoints -> {"none", "connecting", "open", "failed", "untrusted",
                                  "closing", "closed"}]
    BY DEF Init
  <2>6. /\ shutdown = FALSE /\ reconnecting = FALSE /\ generation = 0 /\ timeouts = 0
        /\ status = "Closed" /\ endpoint = None /\ made = 0 /\ ping = FALSE /\ slot = None
        /\ pending = {} /\ started = 0 /\ faults = 0
    BY DEF Init
  <2>7. generation \in Nat /\ timeouts \in 0..2 /\ status \in Statuses
    BY <2>6 DEF Statuses
  <2>9. shutdown \in BOOLEAN /\ reconnecting \in BOOLEAN /\ ping \in BOOLEAN
    BY <2>6, Zenon
  <2>8. endpoint \in Endpoints \cup {None} /\ slot \in Threads \cup {None}
        /\ pending \subseteq Threads
    BY <2>6
  <2> QED
    BY <2>1, <2>2, <2>3, <2>4, <2>5, <2>6, <2>7, <2>8, <2>9, Zenon DEF TypeOK
<1>3. Started
  <2>1. \A t \in Threads : t > 0 /\ thread[t].pc = "none"
    BY <1>1 DEF Init, Threads
  <2> QED
    BY <2>1 DEF Init, Started, None
<1>4. OneThread
  BY DEF Init, OneThread, Live, Busy
<1>5. Owners
  BY DEF Init, Owners, Live
<1>6. Loops
  BY Sizes DEF Init, Loops, None, Endpoints
<1>7. Phases
  BY DEF Init, Phases, Closing
<1>8. Counts
  BY <1>1 DEF Init, Counts
<1> QED
  BY <1>2, <1>3, <1>4, <1>5, <1>6, <1>7, <1>8 DEF IInv

\* The thread that a handler is about to start.
LEMMA Startable ==
    ASSUME IInv, NEW e \in Endpoints, io[e].pc = "cas", ~reconnecting
    PROVE  started + 1 \in Threads /\ started + 1 # None
<1>1. MaxFaults \in Nat /\ started \in Nat /\ faults \in Nat /\ faults <= MaxFaults
  BY FaultsAssumption, Sizes DEF IInv, TypeOK
<1>2. faults > 0
  BY DEF IInv, Counts
<1>3. CASE shutdown
  <2>1. started <= faults
    BY <1>3 DEF IInv, Counts
  <2> QED
    BY <1>1, <1>2, <2>1 DEF Threads, None
<1>4. CASE ~shutdown
  <2>1. ~ \E t \in Threads : Stopping(t)
    BY <1>4 DEF IInv, OneThread, Live, Stopping
  <2>2. started < faults
    BY <1>4, <2>1 DEF IInv, Counts
  <2> QED
    BY <1>1, <1>2, <2>2 DEF Threads, None
<1> QED
  BY <1>3, <1>4

\* What starting it leaves of the threads and of the handler.
LEMMA Starts ==
    ASSUME IInv, NEW e \in Endpoints, IoCas(e), ~reconnecting
    PROVE  /\ thread' \in [Threads -> ThreadStates]
           /\ ThreadAt(started + 1, "wait")
           /\ io' \in [Endpoints -> IoStates]
           /\ \A d \in Endpoints :
                 /\ io'[d].pc = IF d = e THEN "publish" ELSE io[d].pc
                 /\ io'[d].thread = IF d = e THEN started + 1 ELSE io[d].thread
           /\ reconnecting' = TRUE
           /\ started' = started + 1
<1> DEFINE k == [pc |-> "wait", gen |-> generation, joins |-> {}]
           h == [pc |-> "publish", thread |-> started + 1]
<1>1. started + 1 \in Threads
  BY Startable DEF IoCas
<1>2. k \in ThreadStates /\ k.pc = "wait"
  BY DEF IInv, TypeOK, ThreadStates, ThreadPcs
<1>3. h \in IoStates /\ h.pc = "publish" /\ h.thread = started + 1
  BY <1>1 DEF IoStates, IoPcs
<1>4. thread \in [Threads -> ThreadStates] /\ io \in [Endpoints -> IoStates]
  BY DEF IInv, TypeOK, ThreadStates, IoStates
<1>5. thread' = [thread EXCEPT ![started + 1] = k] /\ io' = [io EXCEPT ![e] = h]
      /\ reconnecting' = TRUE /\ started' = started + 1
  BY DEF IoCas
<1> HIDE DEF k, h
<1> QED
  BY <1>1, <1>2, <1>3, <1>4, <1>5 DEF ThreadAt

LEMMA Makeable ==
    ASSUME IInv
    PROVE  /\ app.pc = "connect" => made + 1 \in Endpoints
           /\ \A t \in Threads : thread[t].pc = "make" => made + 1 \in Endpoints
<1>1. MaxFaults \in Nat /\ started \in 0..(2 * MaxFaults) /\ made \in Nat
  BY FaultsAssumption, Sizes DEF IInv, TypeOK
<1>2. app.pc = "connect" => made = 0
  BY DEF IInv, Phases
<1>3. ASSUME NEW t \in Threads, thread[t].pc = "make"
      PROVE  made <= started
  BY <1>3 DEF IInv, Counts
<1> QED
  BY <1>1, <1>2, <1>3 DEF Endpoints

\* A new endpoint.
LEMMA Makes ==
    ASSUME IInv, MakeEndpoint, made + 1 \in Endpoints
    PROVE  /\ made' = made + 1 /\ endpoint' = made + 1
           /\ work' \in [Endpoints -> {"none", "perpetual", "last", "stopped"}]
           /\ io' \in [Endpoints -> IoStates]
           /\ \A d \in Endpoints :
                 /\ io'[d].pc = IF d = made + 1 THEN "loop" ELSE io[d].pc
                 /\ io'[d].thread = IF d = made + 1 THEN None ELSE io[d].thread
           /\ status' = "Opening" /\ conn' = conn
<1> DEFINE h == [pc |-> "loop", thread |-> None]
<1>1. h \in IoStates /\ h.pc = "loop" /\ h.thread = None
  BY DEF IoStates, IoPcs
<1>2. io \in [Endpoints -> IoStates]
      /\ work \in [Endpoints -> {"none", "perpetual", "last", "stopped"}]
  BY DEF IInv, TypeOK, IoStates
<1>3. io' = [io EXCEPT ![made + 1] = h] /\ work' = [work EXCEPT ![made + 1] = "perpetual"]
      /\ made' = made + 1 /\ endpoint' = made + 1 /\ status' = "Opening" /\ conn' = conn
  BY DEF MakeEndpoint
<1> HIDE DEF h
<1> QED
  BY <1>1, <1>2, <1>3

\* The steps of a reconnect thread that change more than where it is.
LEMMA Stops ==
    ASSUME IInv, NEW t \in Threads, ThreadStop(t)
    PROVE  /\ thread[t].pc = "stop"
           /\ thread' \in [Threads -> ThreadStates] /\ ThreadAt(t, "join")
           /\ ping' = FALSE /\ pending' = {} /\ generation' \in Nat
           /\ UNCHANGED <<shutdown, reconnecting, timeouts, status, endpoint, made, work,
                          conn, io, slot, started, app, faults>>
<1>1. ThreadGotoWith(t, "join", pending)
  BY DEF ThreadStop, ThreadGotoWith
<1>2. pending \in SUBSET Threads /\ generation \in Nat /\ TypeOK
  BY DEF IInv, TypeOK
<1>3. thread' \in [Threads -> ThreadStates] /\ ThreadAt(t, "join")
  BY <1>1, <1>2, ThreadMovesWith DEF ThreadPcs
<1>4. generation' = generation + 1
  BY Zenon DEF ThreadStop
<1>5. generation' \in Nat
  BY <1>2, <1>4
<1> QED
  BY <1>3, <1>5, Zenon DEF ThreadStop, endpoints

LEMMA Joins ==
    ASSUME IInv, NEW t \in Threads, ThreadJoin(t)
    PROVE  /\ thread[t].pc = "join"
           /\ thread' \in [Threads -> ThreadStates] /\ ThreadAt(t, "joinio")
           /\ work' \in [Endpoints -> {"none", "perpetual", "last", "stopped"}]
           /\ UNCHANGED <<shutdown, reconnecting, generation, timeouts, status, endpoint,
                          made, conn, io, slot, pending, started, ping, app, faults>>
<1>1. ThreadGotoWith(t, "joinio", {})
  BY DEF ThreadJoin, ThreadGotoWith
<1>2. thread' \in [Threads -> ThreadStates] /\ ThreadAt(t, "joinio")
  BY <1>1, ThreadMovesWith DEF ThreadPcs, IInv
<1>3. work' = [e \in Endpoints |->
                 IF e = endpoint /\ work[e] = "perpetual" THEN "last" ELSE work[e]]
  BY Zenon DEF ThreadJoin
<1>4. work' \in [Endpoints -> {"none", "perpetual", "last", "stopped"}]
  BY <1>3 DEF IInv, TypeOK
<1> QED
  BY <1>2, <1>4, Zenon DEF ThreadJoin, flags

LEMMA Connects ==
    ASSUME IInv, NEW t \in Threads, ThreadConnect(t)
    PROVE  /\ thread[t].pc = "connect"
           /\ thread' \in [Threads -> ThreadStates]
           /\ ThreadAt(t, IF shutdown THEN "finish" ELSE "make")
           /\ ping' \in BOOLEAN /\ pending' \in {pending, {}} /\ generation' \in Nat
           /\ UNCHANGED <<shutdown, reconnecting, timeouts, status, endpoint, made, work,
                          conn, io, slot, started, app, faults>>
<1>1. TypeOK /\ pending \in SUBSET Threads /\ generation \in Nat /\ ping \in BOOLEAN
  BY DEF IInv, TypeOK
<1>2. CASE shutdown
  <2>1. ThreadGoto(t, "finish") /\ ping' = ping /\ generation' = generation
        /\ pending' = pending
    BY <1>2, Zenon DEF ThreadConnect
  <2>2. thread' \in [Threads -> ThreadStates] /\ ThreadAt(t, "finish")
    BY <1>1, <2>1, ThreadMoves DEF ThreadPcs
  <2> QED
    BY <1>1, <1>2, <2>1, <2>2, Zenon DEF ThreadConnect, endpoints
<1>3. CASE ~shutdown
  <2>1. ThreadGotoWith(t, "make", pending)
    BY <1>3 DEF ThreadConnect, ThreadGotoWith
  <2>2. ping' = FALSE /\ generation' = generation + 1 /\ pending' = {}
    BY <1>3, Zenon DEF ThreadConnect
  <2>3. generation' \in Nat
    BY <1>1, <2>2
  <2>4. thread' \in [Threads -> ThreadStates] /\ ThreadAt(t, "make")
    BY <1>1, <2>1, ThreadMovesWith DEF ThreadPcs
  <2> QED
    BY <1>1, <1>3, <2>2, <2>3, <2>4, Zenon DEF ThreadConnect, endpoints
<1> QED
  BY <1>2, <1>3

LEMMA ThreadMakes ==
    ASSUME IInv, NEW t \in Threads, ThreadMakeEndpoint(t)
    PROVE  /\ thread[t].pc = "make" /\ made + 1 \in Endpoints
           /\ thread' \in [Threads -> ThreadStates] /\ ThreadAt(t, "dial")
           /\ made' = made + 1 /\ endpoint' = made + 1
           /\ work' \in [Endpoints -> {"none", "perpetual", "last", "stopped"}]
           /\ io' \in [Endpoints -> IoStates]
           /\ \A d \in Endpoints :
                 /\ io'[d].pc = IF d = made + 1 THEN "loop" ELSE io[d].pc
                 /\ io'[d].thread = IF d = made + 1 THEN None ELSE io[d].thread
           /\ status' = "Opening"
           /\ UNCHANGED <<conn, shutdown, reconnecting, generation, timeouts, slot, pending,
                          started, ping, app, faults>>
<1>1. ThreadGotoWith(t, "dial", {})
  BY DEF ThreadMakeEndpoint, ThreadGotoWith
<1>2. thread[t].pc = "make" /\ MakeEndpoint
  BY Zenon DEF ThreadMakeEndpoint
<1>3. made + 1 \in Endpoints
  BY <1>2, Makeable
<1>4. thread' \in [Threads -> ThreadStates] /\ ThreadAt(t, "dial")
  BY <1>1, ThreadMovesWith DEF ThreadPcs, IInv
<1>5. UNCHANGED <<shutdown, reconnecting, generation, timeouts, slot, pending, started,
                  ping, app, faults>>
  BY Zenon DEF ThreadMakeEndpoint, flags
<1> QED
  BY <1>2, <1>3, <1>4, <1>5, Makes

\* The application's steps.
LEMMA AppType == ASSUME IInv, AppStep \/ AppBadUri \/ AppShutdown PROVE TypeOK'
<1> USE FaultsAssumption, Sizes
<1>0. TypeOK
  BY DEF IInv
<1>1. CASE AppConnect
  <2>1. made + 1 \in Endpoints
    BY <1>1, Makeable DEF AppConnect
  <2>2. /\ made' = made + 1 /\ endpoint' = made + 1
        /\ work' \in [Endpoints -> {"none", "perpetual", "last", "stopped"}]
        /\ io' \in [Endpoints -> IoStates]
        /\ status' = "Opening" /\ conn' = conn
    BY <1>1, <2>1, Makes DEF AppConnect
  <2>3. made' \in 0..Cardinality(Endpoints)
    BY <1>0, <2>1, <2>2 DEF TypeOK, Endpoints
  <2>4. app' \in [pc : AppPcs, joins : SUBSET Threads]
    BY <1>0, <1>1 DEF AppConnect, TypeOK, AppPcs
  <2>5. generation' \in Nat
    BY <1>0, <1>1 DEF AppConnect, TypeOK
  <2> QED
    BY <1>0, <1>1, <2>1, <2>2, <2>3, <2>4, <2>5
    DEF AppConnect, TypeOK, workers, Statuses, IoStates
<1>2. CASE AppDial
  BY <1>0, <1>2 DEF AppDial, Dial, TypeOK, AppPcs, flags, workers
<1>3. CASE AppStatus
  BY <1>0, <1>3 DEF AppStatus, TypeOK, AppPcs, flags, workers, endpoints, Statuses
<1>4. CASE AppTakeThreads
  BY <1>0, <1>4 DEF AppTakeThreads, TypeOK, AppPcs, flags, endpoints
<1>5. CASE AppJoinThreads
  BY <1>0, <1>5 DEF AppJoinThreads, TypeOK, AppPcs, flags, endpoints, workers
<1>6. CASE AppStopEndpoint
  BY <1>0, <1>6 DEF AppStopEndpoint, TypeOK, AppPcs, flags, workers
<1>7. CASE AppJoinIo
  BY <1>0, <1>7 DEF AppJoinIo, TypeOK, AppPcs, flags, workers
<1>8. CASE AppBadUri
  <2>1. endpoint \in Endpoints
    BY <1>8 DEF AppBadUri, IInv, Phases, Endpoints
  <2>2. io' \in [Endpoints -> IoStates]
    BY <1>0, <1>8, <2>1, IoMoves DEF AppBadUri, IoGoto, IoPcs
  <2>3. app' \in [pc : AppPcs, joins : SUBSET Threads]
    BY <1>0, <1>8 DEF AppBadUri, TypeOK, AppPcs
  <2>4. generation' \in Nat /\ faults' \in 0..MaxFaults
    BY <1>0, <1>8 DEF AppBadUri, TypeOK
  <2> QED
    BY <1>0, <1>8, <2>1, <2>2, <2>3, <2>4 DEF AppBadUri, TypeOK, workers, IoStates
<1>9. CASE AppShutdown
  <2>1. app' \in [pc : AppPcs, joins : SUBSET Threads] /\ generation' \in Nat
    BY <1>0, <1>9 DEF AppShutdown, TypeOK, AppPcs
  <2> QED
    BY <1>0, <1>9, <2>1 DEF AppShutdown, TypeOK, workers, endpoints
<1> QED
  BY <1>1, <1>2, <1>3, <1>4, <1>5, <1>6, <1>7, <1>8, <1>9 DEF AppStep

\* The reconnect threads' steps.
LEMMA ThreadType == ASSUME IInv, NEW t \in Threads, ThreadStep(t) PROVE TypeOK'
<1> USE FaultsAssumption, Sizes
<1>0. TypeOK
  BY DEF IInv
<1>1. CASE ThreadWake(t)
  <2>1. thread' \in [Threads -> ThreadStates]
    BY <1>0, <1>1, ThreadMoves DEF ThreadWake, ThreadPcs
  <2> QED
    BY <1>0, <1>1, <2>1 DEF ThreadWake, TypeOK, ThreadStates, endpoints
<1>2. CASE ThreadReconnect(t)
  <2>1. thread' \in [Threads -> ThreadStates]
    BY <1>0, <1>2, ThreadMoves DEF ThreadReconnect, ThreadPcs
  <2> QED
    BY <1>0, <1>2, <2>1 DEF ThreadReconnect, TypeOK, ThreadStates, flags, Statuses
<1>3. CASE ThreadStop(t)
  BY <1>0, <1>3, Stops DEF TypeOK, ThreadStates
<1>4. CASE ThreadJoin(t)
  BY <1>0, <1>4, Joins DEF TypeOK, ThreadStates
<1>5. CASE ThreadJoinIo(t)
  <2>1. thread' \in [Threads -> ThreadStates]
    BY <1>0, <1>5, ThreadMoves DEF ThreadJoinIo, ThreadPcs
  <2> QED
    BY <1>0, <1>5, <2>1 DEF ThreadJoinIo, TypeOK, ThreadStates, flags
<1>6. CASE ThreadConnect(t)
  BY <1>0, <1>6, Connects DEF TypeOK, ThreadStates
<1>7. CASE ThreadMakeEndpoint(t)
  <2>1. made' \in 0..Cardinality(Endpoints)
    BY <1>0, <1>7, ThreadMakes DEF TypeOK, Endpoints
  <2> QED
    BY <1>0, <1>7, <2>1, ThreadMakes DEF TypeOK, Statuses, IoStates, ThreadStates
<1>8. CASE ThreadDial(t)
  <2>1. thread' \in [Threads -> ThreadStates]
    BY <1>0, <1>8, ThreadMoves DEF ThreadDial, ThreadPcs
  <2> QED
    BY <1>0, <1>8, <2>1 DEF ThreadDial, Dial, TypeOK, ThreadStates, flags
<1>9. CASE ThreadStatus(t)
  <2>1. thread' \in [Threads -> ThreadStates]
    BY <1>0, <1>9, ThreadMoves DEF ThreadStatus, ThreadPcs
  <2> QED
    BY <1>0, <1>9, <2>1 DEF ThreadStatus, TypeOK, ThreadStates, flags, endpoints, Statuses
<1>10. CASE ThreadFinish(t)
  <2>1. thread' \in [Threads -> ThreadStates]
    BY <1>0, <1>10, ThreadMoves DEF ThreadFinish, ThreadPcs
  <2> QED
    BY <1>0, <1>10, <2>1 DEF ThreadFinish, TypeOK, ThreadStates, endpoints
<1> QED
  BY <1>1, <1>2, <1>3, <1>4, <1>5, <1>6, <1>7, <1>8, <1>9, <1>10 DEF ThreadStep

\* The event loops' steps.
LEMMA IoType ==
    ASSUME IInv, NEW e \in Endpoints, IoStep(e) \/ NetworkStep(e) \/ IoOnOpen(e)
    PROVE  TypeOK'
<1> USE FaultsAssumption, Sizes
<1>0. TypeOK
  BY DEF IInv
<1>1. CASE IoRestartPing(e)
  <2>1. io' \in [Endpoints -> IoStates]
    BY <1>0, <1>1, IoMoves DEF IoRestartPing, IoPcs
  <2> QED
    BY <1>0, <1>1, <2>1 DEF IoRestartPing, TypeOK, IoStates, flags, workers
<1>2. CASE IoStartPing(e)
  <2>1. io' \in [Endpoints -> IoStates]
    BY <1>0, <1>2, IoMoves DEF IoStartPing, IoPcs
  <2> QED
    BY <1>0, <1>2, <2>1 DEF IoStartPing, TypeOK, IoStates, flags, workers
<1>3. CASE IoCas(e)
  <2>1. CASE reconnecting
    <3>1. io' \in [Endpoints -> IoStates]
      BY <1>0, <1>3, <2>1, IoMoves DEF IoCas, IoPcs
    <3>2. thread' = thread /\ started' = started /\ reconnecting' = reconnecting
      BY <1>3, <2>1 DEF IoCas
    <3>3. UNCHANGED <<shutdown, generation, timeouts, status, endpoint, made, work,
                      conn, slot, pending, ping, app, faults>>
      BY <1>3 DEF IoCas
    <3> QED
      BY <1>0, <3>1, <3>2, <3>3 DEF TypeOK, IoStates
  <2>2. CASE ~reconnecting
    <3>1. /\ thread' \in [Threads -> ThreadStates] /\ io' \in [Endpoints -> IoStates]
          /\ reconnecting' = TRUE /\ started' = started + 1
      BY <1>3, <2>2, Starts
    <3>2. started' \in 0..Cardinality(Threads)
      BY <1>3, <2>2, <3>1, Startable DEF IoCas, Threads
    <3>3. UNCHANGED <<shutdown, generation, timeouts, status, endpoint, made, work,
                      conn, slot, pending, ping, app, faults>>
      BY <1>3 DEF IoCas
    <3> QED
      BY <1>0, <3>1, <3>2, <3>3 DEF TypeOK, IoStates, ThreadStates
  <2> QED
    BY <2>1, <2>2
<1>4. CASE IoPublish(e)
  <2>1. io' \in [Endpoints -> IoStates]
    BY <1>0, <1>4, IoMoves DEF IoPublish, IoPcs
  <2>2. io[e].thread \in Threads \cup {None}
    BY <1>0 DEF TypeOK
  <2>3. /\ generation' \in {generation, generation + 1}
        /\ slot' \in {slot, io[e].thread}
        /\ pending' \in {pending, pending \cup ({slot} \ {None})}
        /\ reconnecting' \in {reconnecting, FALSE}
        /\ UNCHANGED <<shutdown, timeouts, status, endpoint, made, work, conn, thread,
                       started, ping, app, faults>>
    BY <1>4 DEF IoPublish
  <2>4. slot' \in Threads \cup {None}
    BY <1>0, <2>2, <2>3 DEF TypeOK
  <2>5. pending' \subseteq Threads
    BY <1>0, <2>3 DEF TypeOK
  <2>6. generation' \in Nat
    BY <1>0, <2>3 DEF TypeOK
  <2> QED
    BY <1>0, <2>1, <2>3, <2>4, <2>5, <2>6 DEF TypeOK, IoStates
<1>5. CASE IoJoin(e)
  <2>1. io' \in [Endpoints -> IoStates]
    BY <1>0, <1>5, IoMoves DEF IoJoin, IoPcs
  <2> QED
    BY <1>0, <1>5, <2>1 DEF IoJoin, TypeOK, IoStates, flags, workers
<1>6. CASE IoExit(e)
  <2>1. io' \in [Endpoints -> IoStates]
    BY <1>0, <1>6, IoMoves DEF IoExit, IoPcs
  <2> QED
    BY <1>0, <1>6, <2>1 DEF IoExit, TypeOK, IoStates, flags, workers
<1>7. CASE IoOnTlsFail(e)
  <2>1. io' \in [Endpoints -> IoStates]
    BY <1>0, <1>7, IoMoves DEF IoOnTlsFail, IoSchedule, IoPcs, TypeOK, IoStates
  <2> QED
    BY <1>0, <1>7, <2>1 DEF IoOnTlsFail, TypeOK, IoStates, flags, workers
<1>8. CASE IoOnClose(e)
  <2>1. io' \in [Endpoints -> IoStates]
    BY <1>0, <1>8, IoMoves DEF IoOnClose, IoSchedule, IoPcs
  <2>2. faults' \in 0..MaxFaults
    BY <1>0, <1>8 DEF IoOnClose, Fault, TypeOK
  <2> QED
    BY <1>0, <1>8, <2>1, <2>2 DEF IoOnClose, TypeOK, IoStates, flags, workers
<1>9. CASE IoOnFail(e)
  <2>1. io' \in [Endpoints -> IoStates]
    BY <1>0, <1>9, IoMoves DEF IoOnFail, IoSchedule, IoPcs
  <2>2. faults' \in 0..MaxFaults
    BY <1>0, <1>9 DEF IoOnFail, Fault, TypeOK
  <2> QED
    BY <1>0, <1>9, <2>1, <2>2 DEF IoOnFail, TypeOK, IoStates, flags, workers
<1>10. CASE IoOnTlsVerify(e)
  <2>1. faults' \in 0..MaxFaults
    BY <1>0, <1>10 DEF IoOnTlsVerify, Fault, TypeOK
  <2> QED
    BY <1>0, <1>10, <2>1 DEF IoOnTlsVerify, TypeOK, flags, workers, Statuses
<1>11. CASE IoOnPong(e)
  BY <1>0, <1>11 DEF IoOnPong, TypeOK, endpoints, workers
<1>12. CASE IoOnPongTimeout(e)
  <2>1. io' \in [Endpoints -> IoStates]
    BY <1>0, <1>12, IoMoves DEF IoOnPongTimeout, IoSchedule, IoPcs, TypeOK, IoStates
  <2>2. faults' \in 0..MaxFaults /\ timeouts' \in 0..2
    BY <1>0, <1>12 DEF IoOnPongTimeout, Fault, TypeOK
  <2> QED
    BY <1>0, <1>12, <2>1, <2>2 DEF IoOnPongTimeout, TypeOK, IoStates, workers
<1>13. CASE IoOnOpen(e)
  <2>1. io' \in [Endpoints -> IoStates]
    BY <1>0, <1>13, IoMoves DEF IoOnOpen, IoPcs
  <2> QED
    BY <1>0, <1>13, <2>1 DEF IoOnOpen, TypeOK, IoStates, flags, workers, Statuses
<1> QED
  BY <1>1, <1>2, <1>3, <1>4, <1>5, <1>6, <1>7, <1>8, <1>9, <1>10, <1>11, <1>12, <1>13
  DEF IoStep, NetworkStep

LEMMA StepType == IInv /\ [Next]_vars => TypeOK'
<1> SUFFICES ASSUME IInv, [Next]_vars PROVE TypeOK'
  OBVIOUS
<1>1. CASE Next
  BY <1>1, AppType, ThreadType, IoType DEF Next
<1>2. CASE UNCHANGED vars
  BY <1>2 DEF IInv, TypeOK, vars, flags, endpoints, workers
<1> QED
  BY <1>1, <1>2

-----------------------------------------------------------------------------
(* What a step of a reconnect thread does, as far as IInv is concerned.      *)

\* Where the thread goes, and what it does to the endpoint on the way.
ThreadEdge(t, pc) ==
    \/ /\ \/ thread[t].pc = "wait" /\ pc = "exit"
          \/ thread[t].pc = "wait" /\ pc = "reconnect" /\ ~shutdown
          \/ thread[t].pc = "reconnect" /\ pc = "finish"
          \/ thread[t].pc = "stop" /\ pc = "join"
          \/ thread[t].pc = "join" /\ pc = "joinio"
          \/ thread[t].pc = "connect" /\ pc \in {"make", "finish"}
          \/ thread[t].pc = "status" /\ pc = "finish"
          \/ thread[t].pc = "finish" /\ pc = "exit"
       /\ UNCHANGED <<endpoint, made, conn, io>>
    \/ /\ thread[t].pc = "reconnect" /\ pc = "stop" /\ ~shutdown
       /\ UNCHANGED <<endpoint, made, io>>
       /\ \A e \in Endpoints :
             conn'[e] = IF e = endpoint /\ conn[e] = "open" THEN "closing" ELSE conn[e]
    \/ /\ thread[t].pc = "joinio" /\ pc = "connect"
       /\ IoExited /\ endpoint' = None
       /\ UNCHANGED <<made, conn, io>>
    \/ /\ thread[t].pc = "make" /\ pc = "dial" /\ made + 1 \in Endpoints
       /\ made' = made + 1 /\ endpoint' = made + 1 /\ conn' = conn
       /\ \A d \in Endpoints :
             /\ io'[d].pc = IF d = made + 1 THEN "loop" ELSE io[d].pc
             /\ io'[d].thread = IF d = made + 1 THEN None ELSE io[d].thread
    \/ /\ thread[t].pc = "dial" /\ pc = "status"
       /\ UNCHANGED <<endpoint, made, io>>
       /\ \A e \in Endpoints : conn'[e] = IF e = endpoint THEN "connecting" ELSE conn[e]

\* What it leaves alone.
ThreadLeaves(pc) ==
    /\ UNCHANGED <<shutdown, slot, started, app, faults>>
    /\ pending' \in {pending, {}}
    /\ (pc = "exit" /\ reconnecting' = FALSE) \/ (pc # "exit" /\ reconnecting' = reconnecting)

ThreadMove(t, pc) == ThreadAt(t, pc) /\ ThreadEdge(t, pc) /\ ThreadLeaves(pc)

LEMMA ThreadSteps ==
    ASSUME IInv, NEW t \in Threads, ThreadStep(t)
    PROVE  \E pc \in ThreadPcs : ThreadMove(t, pc)
<1>0. TypeOK
  BY DEF IInv
<1>1. CASE ThreadWake(t)
  <2>1. CASE shutdown \/ generation # thread[t].gen
    <3>1. ThreadAt(t, "exit")
      BY <1>0, <1>1, <2>1, ThreadMoves DEF ThreadWake, ThreadPcs
    <3>2. ThreadMove(t, "exit")
      BY <1>1, <2>1, <3>1
      DEF ThreadWake, ThreadMove, ThreadEdge, ThreadLeaves, endpoints
    <3> QED
      BY <3>2 DEF ThreadPcs
  <2>2. CASE ~(shutdown \/ generation # thread[t].gen)
    <3>1. ThreadAt(t, "reconnect")
      BY <1>0, <1>1, <2>2, ThreadMoves DEF ThreadWake, ThreadPcs
    <3>2. ThreadMove(t, "reconnect")
      BY <1>1, <2>2, <3>1
      DEF ThreadWake, ThreadMove, ThreadEdge, ThreadLeaves, endpoints
    <3> QED
      BY <3>2 DEF ThreadPcs
  <2> QED
    BY <2>1, <2>2
<1>2. CASE ThreadReconnect(t)
  <2>1. CASE shutdown \/ status = "Reconnecting"
    <3>1. ThreadAt(t, "finish")
      BY <1>0, <1>2, <2>1, ThreadMoves DEF ThreadReconnect, ThreadPcs
    <3>2. ThreadMove(t, "finish")
      BY <1>2, <2>1, <3>1
      DEF ThreadReconnect, ThreadMove, ThreadEdge, ThreadLeaves, flags
    <3> QED
      BY <3>2 DEF ThreadPcs
  <2>2. CASE ~(shutdown \/ status = "Reconnecting")
    <3>1. ThreadAt(t, "stop")
      BY <1>0, <1>2, <2>2, ThreadMoves DEF ThreadReconnect, ThreadPcs
    <3>2. ThreadEdge(t, "stop")
      BY <1>2, <2>2 DEF ThreadReconnect, ThreadEdge
    <3>3. ThreadLeaves("stop")
      BY <1>2, <2>2 DEF ThreadReconnect, ThreadLeaves, flags
    <3> QED
      BY <3>1, <3>2, <3>3 DEF ThreadMove, ThreadPcs
  <2> QED
    BY <2>1, <2>2
<1>3. CASE ThreadStop(t)
  <2>1. ThreadAt(t, "join") /\ ThreadEdge(t, "join") /\ ThreadLeaves("join")
    BY <1>3, Stops DEF ThreadEdge, ThreadLeaves
  <2> QED
    BY <2>1 DEF ThreadMove, ThreadPcs
<1>4. CASE ThreadJoin(t)
  <2>1. ThreadAt(t, "joinio") /\ ThreadEdge(t, "joinio") /\ ThreadLeaves("joinio")
    BY <1>4, Joins DEF ThreadEdge, ThreadLeaves
  <2> QED
    BY <2>1 DEF ThreadMove, ThreadPcs
<1>5. CASE ThreadJoinIo(t)
  <2>1. ThreadAt(t, "connect")
    BY <1>0, <1>5, ThreadMoves DEF ThreadJoinIo, ThreadPcs
  <2>2. ThreadEdge(t, "connect") /\ ThreadLeaves("connect")
    BY <1>5 DEF ThreadJoinIo, ThreadEdge, ThreadLeaves, flags
  <2> QED
    BY <2>1, <2>2 DEF ThreadMove, ThreadPcs
<1>6. CASE ThreadConnect(t)
  <2>1. CASE shutdown
    <3>1. ThreadAt(t, "finish") /\ ThreadEdge(t, "finish") /\ ThreadLeaves("finish")
      BY <1>6, <2>1, Connects DEF ThreadEdge, ThreadLeaves
    <3> QED
      BY <3>1 DEF ThreadMove, ThreadPcs
  <2>2. CASE ~shutdown
    <3>1. ThreadAt(t, "make") /\ ThreadEdge(t, "make") /\ ThreadLeaves("make")
      BY <1>6, <2>2, Connects DEF ThreadEdge, ThreadLeaves
    <3> QED
      BY <3>1 DEF ThreadMove, ThreadPcs
  <2> QED
    BY <2>1, <2>2
<1>7. CASE ThreadMakeEndpoint(t)
  <2>1. ThreadAt(t, "dial") /\ ThreadEdge(t, "dial") /\ ThreadLeaves("dial")
    BY <1>7, ThreadMakes DEF ThreadEdge, ThreadLeaves
  <2> QED
    BY <2>1 DEF ThreadMove, ThreadPcs
<1>8. CASE ThreadDial(t)
  <2>1. ThreadAt(t, "status")
    BY <1>0, <1>8, ThreadMoves DEF ThreadDial, ThreadPcs
  <2>2. ThreadEdge(t, "status")
    BY <1>0, <1>8 DEF ThreadDial, Dial, ThreadEdge, TypeOK
  <2>3. ThreadLeaves("status")
    BY <1>8 DEF ThreadDial, ThreadLeaves, flags
  <2> QED
    BY <2>1, <2>2, <2>3 DEF ThreadMove, ThreadPcs
<1>9. CASE ThreadStatus(t)
  <2>1. ThreadAt(t, "finish")
    BY <1>0, <1>9, ThreadMoves DEF ThreadStatus, ThreadPcs
  <2>2. ThreadEdge(t, "finish") /\ ThreadLeaves("finish")
    BY <1>9 DEF ThreadStatus, ThreadEdge, ThreadLeaves, flags, endpoints
  <2> QED
    BY <2>1, <2>2 DEF ThreadMove, ThreadPcs
<1>10. CASE ThreadFinish(t)
  <2>1. ThreadAt(t, "exit")
    BY <1>0, <1>10, ThreadMoves DEF ThreadFinish, ThreadPcs
  <2>2. ThreadEdge(t, "exit") /\ ThreadLeaves("exit")
    BY <1>10 DEF ThreadFinish, ThreadEdge, ThreadLeaves, endpoints
  <2> QED
    BY <2>1, <2>2 DEF ThreadMove, ThreadPcs
<1> QED
  BY <1>1, <1>2, <1>3, <1>4, <1>5, <1>6, <1>7, <1>8, <1>9, <1>10 DEF ThreadStep

\* What such a step starts from and leaves, where all of its moves agree.
LEMMA ThreadMoveFacts ==
    ASSUME NEW t \in Threads, NEW pc \in ThreadPcs, ThreadMove(t, pc)
    PROVE  /\ thread[t].pc \notin {"none", "exit"} /\ pc \notin {"none", "wait"}
           /\ thread'[t].pc = pc
           /\ \A u \in Threads : u # t => thread'[u].pc = thread[u].pc
           /\ \A u \in Threads : Live(u)' => Live(u)
           /\ \A u \in Threads : thread'[u].pc = "none" <=> thread[u].pc = "none"
           /\ UNCHANGED <<shutdown, slot, started, app, faults>>
           /\ pending' \subseteq pending
<1>1. thread[t].pc \notin {"none", "exit"} /\ pc \notin {"none", "wait"}
  BY DEF ThreadMove, ThreadEdge
<1> QED
  BY <1>1 DEF ThreadMove, ThreadAt, ThreadLeaves, Live

\* While a thread is at work no other is.
LEMMA Alone ==
    ASSUME IInv, NEW t \in Threads,
           thread[t].pc \notin {"none", "wait", "finish", "exit"}
    PROVE  \A u \in Threads : u # t => thread[u].pc \in {"none", "wait", "finish", "exit"}
BY DEF IInv, OneThread, Busy

\* A thread that joins the event loop finds that every event loop has ended.
LEMMA LoopsEnded ==
    ASSUME IInv, IoExited
    PROVE  \A e \in Endpoints :
              \/ e <= made /\ io[e].pc = "exit"
              \/ e > made /\ io[e].pc = "none" /\ conn[e] = "none"
<1> TAKE e \in Endpoints
<1>1. made \in Nat /\ e \in Nat
  BY Sizes DEF IInv, TypeOK
<1> QED
  BY <1>1 DEF IInv, Loops, IoExited

\* Before its first status a client has no reconnect threads.
LEMMA NoThreadsYet ==
    ASSUME IInv, app.pc \in {"connect", "dial"}
    PROVE  \A t \in Threads : thread[t].pc = "none"
<1>1. started = 0 /\ \A t \in Threads : t > 0
  BY FaultsAssumption DEF IInv, Phases, Threads
<1> QED
  BY <1>1 DEF IInv, Started

\* Shutdown has joined or left to their handlers all threads: none is past the
\* join of the event loop.
LEMMA HeldInShutdown ==
    ASSUME IInv, app.pc \in {"stopio", "joinio", "down"}
    PROVE  \A t \in Threads : Live(t) =>
              /\ \E e \in Endpoints : Holds(e, t)
              /\ thread[t].pc \notin {"connect", "make", "dial", "status"}
<1> SUFFICES ASSUME NEW t \in Threads, Live(t)
             PROVE  /\ \E e \in Endpoints : Holds(e, t)
                    /\ thread[t].pc \notin {"connect", "make", "dial", "status"}
  OBVIOUS
<1>1. slot = None /\ app.joins = {}
  BY DEF IInv, Phases, Closing
<1>2. t # None
  BY FaultsAssumption DEF Threads, None
<1>3. PICK e \in Endpoints : Holds(e, t)
  BY <1>1, <1>2 DEF IInv, Owners
<1>4. thread[t].pc \notin {"connect", "make", "dial", "status"}
  BY <1>3 DEF IInv, Owners, Holds
<1> QED
  BY <1>3, <1>4

LEMMA ThreadKeeps ==
    ASSUME IInv, TypeOK', NEW t \in Threads, NEW pc \in ThreadPcs, ThreadMove(t, pc)
    PROVE  Started' /\ OneThread' /\ Owners' /\ Loops' /\ Phases' /\ Counts'
<1> USE DEF None
<1>0. TypeOK
  BY DEF IInv
<1>1. /\ thread[t].pc \notin {"none", "exit"} /\ pc \notin {"none", "wait"}
      /\ thread'[t].pc = pc
      /\ \A u \in Threads : u # t => thread'[u].pc = thread[u].pc
      /\ \A u \in Threads : Live(u)' => Live(u)
      /\ \A u \in Threads : thread'[u].pc = "none" <=> thread[u].pc = "none"
      /\ UNCHANGED <<shutdown, slot, started, app, faults>>
      /\ pending' \subseteq pending
  BY ThreadMoveFacts
<1>2. pending \subseteq Threads
  BY <1>0 DEF TypeOK
<1>3. Started'
  BY <1>1, <1>2 DEF IInv, Started
<1>4. OneThread'
  <2>1. ~shutdown => \A u, v \in Threads : Live(u)' /\ Live(v)' => u = v
    BY <1>1 DEF IInv, OneThread
  <2>2. ~shutdown => (reconnecting' <=> \E u \in Threads : Live(u)')
    <3> SUFFICES ASSUME ~shutdown PROVE reconnecting' <=> \E u \in Threads : Live(u)'
      OBVIOUS
    <3>1. reconnecting /\ \A u \in Threads : u # t => ~Live(u)
      BY <1>1 DEF IInv, OneThread, Live
    <3>2. CASE pc = "exit"
      BY <1>1, <3>1, <3>2 DEF ThreadMove, ThreadLeaves, Live
    <3>3. CASE pc # "exit"
      BY <1>1, <3>1, <3>3 DEF ThreadMove, ThreadLeaves, Live
    <3> QED
      BY <3>2, <3>3
  <2>3. \A u, v \in Busy' : u = v
    <3> SUFFICES ASSUME NEW u \in Threads, NEW v \in Threads, u # v,
                        thread'[u].pc \notin {"none", "wait", "finish", "exit"},
                        thread'[v].pc \notin {"none", "wait", "finish", "exit"}
                 PROVE  FALSE
      BY DEF Busy
    <3>1. u = t \/ v = t
      BY <1>1 DEF IInv, OneThread, Busy
    <3>2. pc \notin {"none", "wait", "finish", "exit"}
      BY <1>1, <3>1
    <3>3. CASE thread[t].pc = "wait"
      <4>1. ~shutdown
        BY <3>2, <3>3 DEF ThreadMove, ThreadEdge
      <4> QED
        BY <1>1, <2>1, <4>1 DEF Live
    <3>4. CASE thread[t].pc # "wait"
      <4>1. thread[t].pc \notin {"none", "wait", "finish", "exit"}
        BY <1>1, <3>2, <3>4 DEF ThreadMove, ThreadEdge
      <4> QED
        BY <1>1, <3>1, <4>1, Alone
    <3> QED
      BY <3>3, <3>4
  <2> QED
    BY <1>1, <2>1, <2>2, <2>3 DEF OneThread
<1>5. /\ \A e \in Endpoints : io'[e].pc \in {"publish", "joining"} =>
            io[e].pc = io'[e].pc /\ io[e].thread = io'[e].thread
      /\ \A e \in Endpoints : io[e].pc \notin {"none", "loop"} =>
            io'[e].pc = io[e].pc /\ io'[e].thread = io[e].thread
  <2>1. CASE thread[t].pc = "make"
    <3>1. made + 1 \in Endpoints /\ made \in Nat
      BY <1>0, <2>1, Sizes DEF TypeOK, ThreadMove, ThreadEdge
    <3>2. io[made + 1].pc = "none"
      BY <3>1 DEF IInv, Loops
    <3> QED
      BY <2>1, <3>1, <3>2 DEF ThreadMove, ThreadEdge
  <2>2. CASE thread[t].pc # "make"
    BY <2>2 DEF ThreadMove, ThreadEdge
  <2> QED
    BY <2>1, <2>2
<1>6. Owners'
  <2>1. ASSUME NEW u \in Threads, Live(u)'
        PROVE  u = slot' \/ u \in app'.joins \/ \E e \in Endpoints : Holds(e, u)'
    <3>1. Live(u)
      BY <1>1, <2>1
    <3>2. CASE u = slot \/ u \in app.joins
      BY <1>1, <3>2
    <3>3. CASE \E e \in Endpoints : Holds(e, u)
      BY <1>5, <3>3 DEF Holds
    <3> QED
      BY <3>1, <3>2, <3>3 DEF IInv, Owners
  <2>2. ASSUME NEW e \in Endpoints, io'[e].pc \in {"publish", "joining"}
        PROVE  /\ io'[e].thread \in Threads
               /\ thread'[io'[e].thread].pc \in {"wait", "reconnect", "stop", "join",
                                                 "joinio", "finish", "exit"}
    <3>1. /\ io[e].pc \in {"publish", "joining"} /\ io'[e].thread = io[e].thread
          /\ io[e].thread \in Threads
          /\ thread[io[e].thread].pc \in {"wait", "reconnect", "stop", "join", "joinio",
                                          "finish", "exit"}
      BY <1>5, <2>2 DEF IInv, Owners
    <3>2. CASE io[e].thread # t
      BY <1>1, <3>1, <3>2
    <3>3. CASE io[e].thread = t
      <4>1. thread[t].pc = "joinio" => ~IoExited
        BY <3>1, LoopsEnded
      <4>2. pc \in {"wait", "reconnect", "stop", "join", "joinio", "finish", "exit"}
        BY <3>1, <3>3, <4>1 DEF ThreadMove, ThreadEdge
      <4> QED
        BY <1>1, <3>1, <3>3, <4>2
    <3> QED
      BY <3>2, <3>3
  <2>3. ASSUME NEW e \in Endpoints, io'[e].pc = "publish", ~shutdown, slot # None
        PROVE  thread'[slot].pc = "exit"
    <3>1. thread[slot].pc = "exit" /\ slot \in Threads
      BY <1>0, <1>5, <2>3 DEF IInv, Owners, TypeOK
    <3> QED
      BY <1>1, <3>1
  <2> QED
    BY <1>1, <2>1, <2>2, <2>3 DEF Owners
<1>7. Loops'
  <2>0. made \in Nat /\ \A e \in Endpoints : e \in Nat
    BY <1>0, Sizes DEF TypeOK
  <2>1. endpoint' \in {made', None}
    BY DEF ThreadMove, ThreadEdge, IInv, Loops
  <2>2. ASSUME NEW e \in Endpoints
        PROVE  /\ e > made' => io'[e].pc = "none" /\ conn'[e] = "none"
               /\ e < made' => io'[e].pc = "exit"
               /\ e = made' /\ endpoint' = None => io'[e].pc = "exit"
    <3>1. CASE thread[t].pc = "make"
      <4>1. endpoint = None
        BY <3>1 DEF IInv, Loops
      <4>2. /\ made' = made + 1 /\ endpoint' = made + 1 /\ conn' = conn
            /\ io'[e].pc = IF e = made + 1 THEN "loop" ELSE io[e].pc
        BY <3>1 DEF ThreadMove, ThreadEdge
      <4>3. CASE e > made + 1
        BY <2>0, <4>2, <4>3 DEF IInv, Loops
      <4>4. CASE e = made + 1
        BY <2>0, <4>2, <4>4
      <4>5. CASE e < made + 1
        BY <2>0, <4>1, <4>2, <4>5 DEF IInv, Loops
      <4> QED
        BY <2>0, <4>3, <4>4, <4>5
    <3>2. CASE thread[t].pc = "joinio"
      <4>1. made' = made /\ io' = io /\ conn' = conn /\ IoExited
        BY <3>2 DEF ThreadMove, ThreadEdge
      <4> QED
        BY <2>0, <4>1, LoopsEnded
    <3>3. CASE thread[t].pc = "dial"
      <4>1. endpoint = made /\ made' = made /\ endpoint' = endpoint /\ io' = io
        BY <3>3 DEF ThreadMove, ThreadEdge, IInv, Loops
      <4>2. conn'[e] = IF e = endpoint THEN "connecting" ELSE conn[e]
        BY <3>3 DEF ThreadMove, ThreadEdge
      <4> QED
        BY <2>0, <4>1, <4>2 DEF IInv, Loops
    <3>4. CASE thread[t].pc \notin {"make", "joinio", "dial"}
      <4>1. made' = made /\ endpoint' = endpoint /\ io' = io
            /\ (conn[e] = "none" => conn'[e] = "none")
        BY <3>4 DEF ThreadMove, ThreadEdge
      <4> QED
        BY <2>0, <4>1 DEF IInv, Loops
    <3> QED
      BY <3>1, <3>2, <3>3, <3>4
  <2>3. ASSUME NEW u \in Threads
        PROVE  /\ thread'[u].pc \in {"connect", "make"} => endpoint' = None
               /\ thread'[u].pc = "dial" => endpoint' # None
    <3>1. CASE u = t
      <4>1. thread'[u].pc = pc
        BY <1>1, <3>1
      <4>2. pc = "connect" => endpoint' = None
        BY DEF ThreadMove, ThreadEdge
      <4>3. pc = "make" => endpoint' = None
        BY DEF ThreadMove, ThreadEdge, IInv, Loops
      <4>4. pc = "dial" => endpoint' # None
        BY <2>0 DEF ThreadMove, ThreadEdge
      <4> QED
        BY <4>1, <4>2, <4>3, <4>4
    <3>2. CASE u # t
      <4>1. thread'[u].pc = thread[u].pc
        BY <1>1, <3>2
      <4>2. CASE thread[t].pc \in {"make", "joinio"}
        BY <3>2, <4>1, <4>2, Alone
      <4>3. CASE thread[t].pc \notin {"make", "joinio"}
        <5>1. endpoint' = endpoint
          BY <4>3 DEF ThreadMove, ThreadEdge
        <5> QED
          BY <4>1, <5>1 DEF IInv, Loops
      <4> QED
        BY <4>2, <4>3
    <3> QED
      BY <3>1, <3>2
  <2> QED
    BY <2>1, <2>2, <2>3 DEF Loops
<1>8. Phases'
  <2>1. app.pc \notin {"connect", "dial"}
    BY <1>1, NoThreadsYet
  <2>2. app.pc = "down" => endpoint' = None
    <3>1. app.pc = "down" => thread[t].pc # "make"
      BY <1>1, HeldInShutdown DEF Live
    <3> QED
      BY <3>1 DEF ThreadMove, ThreadEdge, IInv, Phases
  <2> QED
    BY <1>1, <2>1, <2>2 DEF IInv, Phases
<1>9. Counts'
  <2>0. /\ made \in Nat /\ started \in Nat /\ faults \in Nat
        /\ \A e \in Endpoints : e \in Nat
    BY <1>0, FaultsAssumption, Sizes DEF TypeOK
  <2>1. thread[t].pc = "make" => io[made + 1].pc = "none" /\ conn[made + 1] = "none"
                                 /\ made + 1 \in Endpoints
    BY <2>0 DEF ThreadMove, ThreadEdge, IInv, Loops
  <2>2. \A e \in Endpoints : conn'[e] = "untrusted" => conn[e] = "untrusted"
    BY DEF ThreadMove, ThreadEdge
  <2>3. ASSUME NEW e \in Endpoints
        PROVE  \/ io'[e].pc = io[e].pc
               \/ io'[e].pc = "loop" /\ conn'[e] = "none"
    BY <2>1 DEF ThreadMove, ThreadEdge
  <2>4. \A e \in Endpoints : conn'[e] = "untrusted" => io'[e].pc \in {"loop", "exit"}
    BY <2>2, <2>3 DEF IInv, Counts
  <2>5. CASE thread[t].pc = "joinio"
    <3>1. \A e \in Endpoints : io'[e].pc \in {"none", "exit"} /\ conn' = conn
      BY <2>5, LoopsEnded DEF ThreadMove, ThreadEdge
    <3>2. \A e \in Endpoints : io'[e].pc = "none" => conn'[e] = "none"
      BY <2>5, LoopsEnded DEF ThreadMove, ThreadEdge
    <3>3. made' = made /\ pc = "connect"
      BY <2>5 DEF ThreadMove, ThreadEdge
    <3> QED
      BY <1>1, <2>4, <2>5, <3>1, <3>2, <3>3 DEF IInv, Counts
  <2>6. CASE thread[t].pc # "joinio"
    <3>1. \A u \in Threads : Stopping(u) => Stopping(u)'
      BY <1>1, <2>6 DEF Stopping, ThreadMove, ThreadEdge
    <3>2. ASSUME NEW e \in Endpoints
          PROVE  /\ ~shutdown' /\ (io'[e].pc = "cas"
                                     \/ (io'[e].pc = "loop" /\ conn'[e] = "untrusted"))
                       => started' < faults' \/ \E u \in Threads : Stopping(u)'
                 /\ ~shutdown' /\ conn'[e] = "closing" /\ io'[e].pc # "exit"
                       => \E u \in Threads : Stopping(u)'
                 /\ shutdown' /\ io'[e].pc = "cas" => started' <= faults'
                 /\ io'[e].pc = "cas" => faults' > 0
      <4>1. (io'[e].pc = "cas" \/ (io'[e].pc = "loop" /\ conn'[e] = "untrusted"))
               => io[e].pc = io'[e].pc /\ (conn'[e] = "untrusted" => conn[e] = "untrusted")
        BY <2>2, <2>3
      <4>2. conn'[e] = "closing" =>
               (conn[e] = "closing" /\ io[e].pc = io'[e].pc) \/ Stopping(t)'
        BY <1>1, <2>1 DEF Stopping, ThreadMove, ThreadEdge
      <4> QED
        BY <1>1, <3>1, <4>1, <4>2 DEF IInv, Counts
    <3>3. made' <= started' + 1
      BY <1>1, <2>0 DEF ThreadMove, ThreadEdge, IInv, Counts
    <3>4. ASSUME NEW u \in Threads,
                 thread'[u].pc \in {"reconnect", "stop", "join", "joinio", "connect", "make"}
                    \/ (thread'[u].pc = "wait" /\ ~shutdown)
          PROVE  made' <= started'
      <4>1. CASE thread[t].pc = "make"
        <5>1. u # t
          BY <1>1, <3>4, <4>1 DEF ThreadMove, ThreadEdge
        <5>2. thread[u].pc \in {"none", "wait", "finish", "exit"}
          BY <4>1, <5>1, Alone
        <5>3. thread'[u].pc = "wait" /\ thread[u].pc = "wait" /\ ~shutdown
          BY <1>1, <3>4, <5>1, <5>2
        <5> QED
          BY <4>1, <5>1, <5>3 DEF IInv, OneThread, Live
      <4>2. CASE thread[t].pc # "make"
        <5>1. made' = made
          BY <4>2 DEF ThreadMove, ThreadEdge
        <5>2. CASE u # t
          BY <1>1, <3>4, <5>1, <5>2 DEF IInv, Counts
        <5>3. CASE u = t
          <6>1. thread[t].pc \in {"reconnect", "stop", "join", "joinio", "connect", "make"}
                   \/ (thread[t].pc = "wait" /\ ~shutdown)
            BY <1>1, <3>4, <5>3 DEF ThreadMove, ThreadEdge
          <6> QED
            BY <1>1, <5>1, <6>1 DEF IInv, Counts
        <5> QED
          BY <5>2, <5>3
      <4> QED
        BY <4>1, <4>2
    <3> QED
      BY <1>1, <2>4, <3>2, <3>3, <3>4 DEF IInv, Counts
  <2> QED
    BY <2>5, <2>6
<1> QED
  BY <1>3, <1>4, <1>6, <1>7, <1>8, <1>9

-----------------------------------------------------------------------------
(* What a step of an event loop does that starts and publishes no thread.    *)

\* The other connections stay as they are.
ConnAt(e, c) ==
    \A d \in Endpoints : conn'[d] = IF d = e THEN c ELSE conn[d]

\* Where the handler goes, and what has become of the connection: the handler
\* goes on, the connection opens, it fails for a fault, its certificate is
\* refused, or it fails for an earlier reason.
IoEdge(e, pc) ==
    \/ /\ \/ io[e].pc = "restart" /\ pc \in {"loop", "ping"}
          \/ io[e].pc = "ping" /\ pc = "loop"
          \/ io[e].pc = "cas" /\ pc = "loop"
          \/ io[e].pc = "joining" /\ pc = "loop" /\ thread[io[e].thread].pc = "exit"
          \/ io[e].pc = "loop" /\ pc = "exit" /\ work[e] \in {"last", "stopped"}
          \/ io[e].pc = "loop" /\ pc = "loop" /\ conn[e] = "open"
       /\ UNCHANGED <<conn, faults>>
    \/ /\ io[e].pc = "loop" /\ pc = "restart"
       /\ conn[e] = "connecting" /\ ConnAt(e, "open") /\ faults' = faults
    \/ /\ io[e].pc = "loop" /\ pc \in {"loop", "cas"} /\ (pc = "cas" => ~shutdown)
       /\ conn[e] \in {"connecting", "open"}
       /\ \E c \in {"failed", "closed", "open"} : ConnAt(e, c)
       /\ faults' = faults + 1
    \/ /\ io[e].pc = "loop" /\ pc = "loop"
       /\ conn[e] = "connecting" /\ ConnAt(e, "untrusted") /\ faults' = faults + 1
    \/ /\ io[e].pc = "loop" /\ pc \in {"loop", "cas"} /\ (pc = "cas" => ~shutdown)
       /\ conn[e] \in {"untrusted", "closing"}
       /\ \E c \in {"failed", "closed"} : ConnAt(e, c)
       /\ faults' = faults

IoMove(e, pc) ==
    /\ IoAt(e, pc) /\ IoEdge(e, pc)
    /\ UNCHANGED <<shutdown, reconnecting, endpoint, made, work, slot, pending, thread,
                   started, app>>

LEMMA IoSteps ==
    ASSUME IInv, NEW e \in Endpoints, IoStep(e) \/ NetworkStep(e) \/ IoOnOpen(e)
    PROVE  \/ \E pc \in IoPcs : IoMove(e, pc)
           \/ IoCas(e) /\ ~reconnecting
           \/ IoPublish(e)
<1>0. TypeOK
  BY DEF IInv
<1>s. ASSUME io[e].pc = "loop", io' = io PROVE IoAt(e, "loop")
  BY <1>s DEF IoAt
<1>c. ASSUME NEW c, conn' = [conn EXCEPT ![e] = c] PROVE ConnAt(e, c)
  BY <1>0, <1>c DEF ConnAt, TypeOK
<1>1. CASE IoRestartPing(e)
  <2>1. PICK pc \in {"loop", "ping"} : IoAt(e, pc)
    BY <1>0, <1>1, IoMoves DEF IoRestartPing, IoPcs
  <2>2. IoMove(e, pc)
    BY <1>1, <2>1 DEF IoRestartPing, IoMove, IoEdge, flags, workers
  <2> QED
    BY <2>2 DEF IoPcs
<1>2. CASE IoStartPing(e)
  <2>1. IoAt(e, "loop")
    BY <1>0, <1>2, IoMoves DEF IoStartPing, IoPcs
  <2>2. IoMove(e, "loop")
    BY <1>2, <2>1 DEF IoStartPing, IoMove, IoEdge, flags, workers
  <2> QED
    BY <2>2 DEF IoPcs
<1>3. CASE IoCas(e) /\ reconnecting
  <2>1. IoAt(e, "loop")
    BY <1>0, <1>3, IoMoves DEF IoCas, IoPcs
  <2>2. thread' = thread /\ started' = started /\ reconnecting' = reconnecting
    BY <1>3 DEF IoCas
  <2>3. IoMove(e, "loop")
    BY <1>3, <2>1, <2>2 DEF IoCas, IoMove, IoEdge
  <2> QED
    BY <2>3 DEF IoPcs
<1>5. CASE IoJoin(e)
  <2>1. IoAt(e, "loop")
    BY <1>0, <1>5, IoMoves DEF IoJoin, IoPcs
  <2>2. IoMove(e, "loop")
    BY <1>5, <2>1 DEF IoJoin, IoMove, IoEdge, flags, workers
  <2> QED
    BY <2>2 DEF IoPcs
<1>6. CASE IoExit(e)
  <2>1. IoAt(e, "exit")
    BY <1>0, <1>6, IoMoves DEF IoExit, IoPcs
  <2>2. IoMove(e, "exit")
    BY <1>6, <2>1 DEF IoExit, IoMove, IoEdge, flags, workers
  <2> QED
    BY <2>2 DEF IoPcs
<1>7. CASE IoOnTlsFail(e)
  <2>1. PICK pc \in {"loop", "cas"} : IoAt(e, pc) /\ (pc = "cas" => ~shutdown)
    <3>1. CASE status = "TlsCertError"
      BY <1>7, <1>s, <3>1 DEF IoOnTlsFail, IoFree
    <3>2. CASE status # "TlsCertError"
      BY <1>0, <1>7, <3>2, IoMoves DEF IoOnTlsFail, IoSchedule, IoPcs
    <3> QED
      BY <3>1, <3>2
  <2>2. ConnAt(e, "failed")
    BY <1>7, <1>c DEF IoOnTlsFail
  <2>3. IoMove(e, pc)
    BY <1>7, <2>1, <2>2 DEF IoOnTlsFail, IoFree, IoMove, IoEdge, flags, workers
  <2> QED
    BY <2>3 DEF IoPcs
<1>8. CASE IoOnClose(e)
  <2>1. PICK pc \in {"loop", "cas"} : IoAt(e, pc) /\ (pc = "cas" => ~shutdown)
    BY <1>0, <1>8, IoMoves DEF IoOnClose, IoSchedule, IoPcs
  <2>2. ConnAt(e, "closed")
    BY <1>8, <1>c DEF IoOnClose
  <2>3. IoEdge(e, pc)
    BY <1>8, <2>1, <2>2 DEF IoOnClose, IoFree, IoEdge, Fault
  <2>4. IoMove(e, pc)
    BY <1>8, <2>1, <2>3 DEF IoOnClose, IoMove, flags, workers
  <2> QED
    BY <2>4 DEF IoPcs
<1>9. CASE IoOnFail(e)
  <2>1. PICK pc \in {"loop", "cas"} : IoAt(e, pc) /\ (pc = "cas" => ~shutdown)
    BY <1>0, <1>9, IoMoves DEF IoOnFail, IoSchedule, IoPcs
  <2>2. ConnAt(e, "failed")
    BY <1>9, <1>c DEF IoOnFail
  <2>3. IoMove(e, pc)
    BY <1>9, <2>1, <2>2 DEF IoOnFail, IoFree, IoMove, IoEdge, Fault, flags, workers
  <2> QED
    BY <2>3 DEF IoPcs
<1>10. CASE IoOnTlsVerify(e)
  <2>1. IoAt(e, "loop")
    BY <1>10, <1>s DEF IoOnTlsVerify, IoFree
  <2>2. ConnAt(e, "untrusted")
    BY <1>10, <1>c DEF IoOnTlsVerify
  <2>3. IoMove(e, "loop")
    BY <1>10, <2>1, <2>2 DEF IoOnTlsVerify, IoFree, IoMove, IoEdge, Fault, flags, workers
  <2> QED
    BY <2>3 DEF IoPcs
<1>11. CASE IoOnPong(e)
  <2>1. IoAt(e, "loop")
    BY <1>11, <1>s DEF IoOnPong, IoFree, endpoints
  <2>2. IoMove(e, "loop")
    BY <1>11, <2>1 DEF IoOnPong, IoFree, IoMove, IoEdge, endpoints, workers
  <2> QED
    BY <2>2 DEF IoPcs
<1>12. CASE IoOnPongTimeout(e)
  <2>1. PICK pc \in {"loop", "cas"} : IoAt(e, pc) /\ (pc = "cas" => ~shutdown)
    <3>1. CASE timeouts' >= 2
      BY <1>0, <1>12, <3>1, IoMoves DEF IoOnPongTimeout, IoSchedule, IoPcs
    <3>2. CASE ~(timeouts' >= 2)
      BY <1>12, <1>s, <3>2 DEF IoOnPongTimeout, IoFree
    <3> QED
      BY <3>1, <3>2
  <2>2. ConnAt(e, "open")
    BY <1>12 DEF IoOnPongTimeout, ConnAt
  <2>3. IoMove(e, pc)
    BY <1>12, <2>1, <2>2 DEF IoOnPongTimeout, IoFree, IoMove, IoEdge, Fault, workers
  <2> QED
    BY <2>3 DEF IoPcs
<1>13. CASE IoOnOpen(e)
  <2>1. IoAt(e, "restart")
    BY <1>0, <1>13, IoMoves DEF IoOnOpen, IoPcs
  <2>2. ConnAt(e, "open")
    BY <1>13, <1>c DEF IoOnOpen
  <2>3. IoMove(e, "restart")
    BY <1>13, <2>1, <2>2 DEF IoOnOpen, IoFree, IoMove, IoEdge, flags, workers
  <2> QED
    BY <2>3 DEF IoPcs
<1> QED
  BY <1>1, <1>2, <1>3, <1>5, <1>6, <1>7, <1>8, <1>9, <1>10, <1>11, <1>12, <1>13
  DEF IoStep, NetworkStep

\* The event loop that runs is the newest, and every other one has ended.
LEMMA OneLoop ==
    ASSUME IInv, NEW e \in Endpoints, io[e].pc \notin {"none", "exit"}
    PROVE  /\ e = made /\ endpoint = made /\ endpoint # None
           /\ \A d \in Endpoints : d # e => io[d].pc \in {"none", "exit"}
<1>1. made \in Nat /\ \A d \in Endpoints : d \in Nat /\ d # None
  BY Sizes DEF IInv, TypeOK, Endpoints, None
<1>2. e = made
  BY <1>1 DEF IInv, Loops
<1>3. endpoint \in {made, None} /\ endpoint # None
  BY <1>2 DEF IInv, Loops
<1>4. ASSUME NEW d \in Endpoints, d # e PROVE io[d].pc \in {"none", "exit"}
  <2>1. CASE d > made
    BY <2>1 DEF IInv, Loops
  <2>2. CASE d < made
    BY <2>2 DEF IInv, Loops
  <2> QED BY <1>1, <1>2, <1>4, <2>1, <2>2
<1> QED
  BY <1>2, <1>3, <1>4

LEMMA IoKeeps ==
    ASSUME IInv, TypeOK', NEW e \in Endpoints, NEW pc \in IoPcs, IoMove(e, pc)
    PROVE  Started' /\ OneThread' /\ Owners' /\ Loops' /\ Phases' /\ Counts'
<1>0. TypeOK
  BY DEF IInv
<1>1. /\ UNCHANGED <<shutdown, reconnecting, endpoint, made, work, slot, pending, thread,
                     started, app>>
      /\ \A d \in Endpoints : d # e => io'[d].pc = io[d].pc /\ conn'[d] = conn[d]
      /\ \A d \in Endpoints : io'[d].thread = io[d].thread
      /\ io'[e].pc = pc
      /\ io[e].pc \notin {"none", "exit", "publish"}
      /\ pc \notin {"none", "publish", "joining"}
      /\ faults' \in {faults, faults + 1}
  BY DEF IoMove, IoAt, IoEdge, ConnAt
<1>2. /\ e = made /\ endpoint = made /\ endpoint # None
      /\ \A d \in Endpoints : d # e => io[d].pc \in {"none", "exit"}
  BY <1>1, OneLoop
<1>3. Started'
  BY <1>1 DEF IInv, Started
<1>4. OneThread'
  BY <1>1 DEF IInv, OneThread, Live, Busy
<1>5. Owners'
  <2>1. ASSUME NEW t \in Threads, Live(t)
        PROVE  t = slot \/ t \in app.joins \/ \E d \in Endpoints : Holds(d, t)'
    <3>1. ASSUME NEW d \in Endpoints, Holds(d, t) PROVE Holds(d, t)'
      <4>1. d # e
        BY <1>1, <2>1, <3>1 DEF IoMove, IoEdge, Holds, Live
      <4> QED
        BY <1>1, <3>1, <4>1 DEF Holds
    <3> QED
      BY <2>1, <3>1 DEF IInv, Owners
  <2>2. \A d \in Endpoints : io'[d].pc \in {"publish", "joining"} => io'[d].pc = io[d].pc
    BY <1>1
  <2> QED
    BY <1>1, <2>1, <2>2 DEF IInv, Owners, Live
<1>6. Loops'
  <2>1. made \in Nat /\ \A d \in Endpoints : d \in Nat
    BY <1>0, Sizes DEF TypeOK
  <2>2. ASSUME NEW d \in Endpoints
        PROVE  /\ d > made => io'[d].pc = "none" /\ conn'[d] = "none"
               /\ d < made => io'[d].pc = "exit"
    BY <1>1, <1>2, <2>1 DEF IInv, Loops
  <2>3. endpoint \in {made, None}
    BY DEF IInv, Loops
  <2>4. \A t \in Threads : /\ thread[t].pc \in {"connect", "make"} => endpoint = None
                           /\ thread[t].pc = "dial" => endpoint # None
    BY DEF IInv, Loops
  <2> QED
    BY <1>1, <1>2, <2>2, <2>3, <2>4 DEF Loops
<1>7. Phases'
  <2>1. app.pc \notin {"connect", "dial"}
    BY DEF IoMove, IoEdge, IInv, Phases
  <2> QED
    BY <1>1, <2>1 DEF IInv, Phases
<1>8. Counts'
  <2>0. /\ made \in Nat /\ started \in Nat /\ faults \in Nat /\ faults' \in Nat
        /\ faults <= faults'
    BY <1>0, <1>1, FaultsAssumption, Sizes DEF TypeOK
  <2>1. \A d \in Endpoints : conn'[d] = "untrusted" => io'[d].pc \in {"loop", "exit"}
    <3>1. conn'[e] = "untrusted" => io'[e].pc \in {"loop", "exit"}
      BY <1>1 DEF IoMove, IoEdge, ConnAt, IInv, Counts
    <3> QED
      BY <1>1, <3>1 DEF IInv, Counts
  <2>2. \A t \in Threads : Stopping(t)' <=> Stopping(t)
    BY <1>1 DEF Stopping
  <2>3. ASSUME \E t \in Threads : Stopping(t) PROVE faults > 0
    <3>1. PICK t \in Threads : Stopping(t)
      BY <2>3
    <3>2. started > 0
      BY <2>0, <3>1, FaultsAssumption DEF IInv, Started, Stopping, Threads
    <3> QED
      BY <3>2 DEF IInv, Counts
  <2>4. ~shutdown => started <= faults
    BY DEF IInv, Counts
  <2>5. /\ ~shutdown /\ (pc = "cas" \/ (pc = "loop" /\ conn'[e] = "untrusted"))
              => started < faults' \/ \E t \in Threads : Stopping(t)
        /\ pc = "cas" => ~shutdown
    <3>1. pc = "cas" => ~shutdown
      BY DEF IoMove, IoEdge
    <3> SUFFICES ASSUME ~shutdown, pc = "cas" \/ (pc = "loop" /\ conn'[e] = "untrusted")
                 PROVE  started < faults' \/ \E t \in Threads : Stopping(t)
      BY <3>1
    <3>2. CASE faults' = faults + 1
      BY <2>0, <2>4, <3>2
    <3>3. CASE faults' = faults
      <4>1. io[e].pc = "loop" /\ conn[e] \in {"untrusted", "closing"}
        BY <2>0, <3>3 DEF IoMove, IoEdge, ConnAt, IInv, Counts
      <4> QED
        BY <3>3, <4>1 DEF IInv, Counts
    <3> QED
      BY <1>1, <3>2, <3>3
  <2>6. conn'[e] = "closing" => conn[e] = "closing"
    BY DEF IoMove, IoEdge, ConnAt
  <2>7. pc = "cas" => faults' > 0
    BY <2>0, <2>3, <2>5
  <2>8. ASSUME NEW d \in Endpoints
        PROVE  /\ ~shutdown /\ (io'[d].pc = "cas"
                                  \/ (io'[d].pc = "loop" /\ conn'[d] = "untrusted"))
                     => started < faults' \/ \E t \in Threads : Stopping(t)
               /\ ~shutdown /\ conn'[d] = "closing" /\ io'[d].pc # "exit"
                     => \E t \in Threads : Stopping(t)
               /\ shutdown /\ io'[d].pc = "cas" => started <= faults'
               /\ io'[d].pc = "cas" => faults' > 0
    <3>1. CASE d = e
      BY <1>1, <2>5, <2>6, <2>7, <3>1 DEF IInv, Counts
    <3>2. CASE d # e
      BY <1>1, <1>2, <3>2 DEF IInv, Counts
    <3> QED
      BY <3>1, <3>2
  <2>9. /\ started <= (IF shutdown THEN faults' + 1 ELSE faults')
        /\ (started > 0 => faults' > 0)
    BY <2>0 DEF IInv, Counts
  <2>10. /\ made <= started + 1
         /\ \A t \in Threads :
               thread[t].pc \in {"reconnect", "stop", "join", "joinio", "connect", "make"}
                  \/ (thread[t].pc = "wait" /\ ~shutdown) => made <= started
    BY DEF IInv, Counts
  <2> QED
    BY <1>1, <2>1, <2>2, <2>8, <2>9, <2>10 DEF Counts
<1> QED
  BY <1>3, <1>4, <1>5, <1>6, <1>7, <1>8

-----------------------------------------------------------------------------
(* A handler starts a thread and publishes it.                               *)

LEMMA CasKeeps ==
    ASSUME IInv, TypeOK', NEW e \in Endpoints, IoCas(e), ~reconnecting
    PROVE  Started' /\ OneThread' /\ Owners' /\ Loops' /\ Phases' /\ Counts'
<1> DEFINE n == started + 1
<1>0. TypeOK
  BY DEF IInv
<1>1. /\ made \in Nat /\ started \in Nat /\ faults \in Nat /\ slot \in Nat
      /\ n \in Threads /\ n # None /\ n \in Nat /\ n = started + 1
      /\ Threads \subseteq Nat /\ Endpoints \subseteq Nat
  BY <1>0, FaultsAssumption, Sizes, Startable DEF TypeOK, None, IoCas
<1> HIDE DEF n
<1>2. /\ \A u \in Threads : thread'[u].pc = IF u = n THEN "wait" ELSE thread[u].pc
      /\ \A d \in Endpoints : /\ io'[d].pc = IF d = e THEN "publish" ELSE io[d].pc
                              /\ io'[d].thread = IF d = e THEN n ELSE io[d].thread
      /\ reconnecting' = TRUE /\ started' = n
  BY Starts DEF ThreadAt, n
<1>3. /\ io[e].pc = "cas"
      /\ UNCHANGED <<shutdown, endpoint, made, work, conn, slot, pending, app, faults>>
  BY DEF IoCas
<1>4. /\ e = made /\ endpoint = made /\ endpoint # None
      /\ \A d \in Endpoints : d # e => io[d].pc \in {"none", "exit"}
  BY <1>3, OneLoop
<1>5. thread[n].pc = "none"
  BY <1>1 DEF IInv, Started
<1>6. ~shutdown => \A u \in Threads : ~Live(u)
  BY DEF IInv, OneThread
<1>7. Started'
  <2>1. \A u \in Threads : u > n <=> thread'[u].pc = "none"
    <3> TAKE u \in Threads
    <3>1. CASE u = n
      BY <1>1, <1>2, <3>1
    <3>2. CASE u # n
      BY <1>1, <1>2, <3>2 DEF IInv, Started
    <3> QED
      BY <3>1, <3>2
  <2>2. slot <= n
    BY <1>1 DEF IInv, Started
  <2>3. \A u \in pending : thread'[u].pc = "exit"
    BY <1>0, <1>2, <1>5 DEF IInv, Started, TypeOK
  <2> QED
    BY <1>2, <1>3, <2>1, <2>2, <2>3 DEF Started
<1>8. OneThread'
  <2>1. thread'[n].pc = "wait" /\ \A u \in Threads : u # n => (Live(u)' <=> Live(u))
    BY <1>1, <1>2 DEF Live
  <2>2. Busy' = Busy
    BY <1>2, <1>5 DEF Busy
  <2>3. \E u \in Threads : Live(u)'
    BY <1>1, <2>1 DEF Live
  <2>4. ~shutdown => \A u \in Threads : Live(u)' => u = n
    BY <1>6, <2>1
  <2>5. \A u, v \in Busy : u = v
    BY DEF IInv, OneThread
  <2> QED
    BY <1>2, <1>3, <2>2, <2>3, <2>4, <2>5 DEF OneThread
<1>9. Owners'
  <2>1. ASSUME NEW u \in Threads, Live(u)'
        PROVE  u = slot \/ u \in app.joins \/ \E d \in Endpoints : Holds(d, u)'
    <3>1. CASE u = n
      BY <1>2, <3>1 DEF Holds
    <3>2. CASE u # n
      <4>1. Live(u)
        BY <1>2, <2>1, <3>2 DEF Live
      <4>2. \A d \in Endpoints : ~Holds(d, u)
        BY <1>3, <1>4 DEF Holds
      <4> QED
        BY <4>1, <4>2 DEF IInv, Owners
    <3> QED
      BY <3>1, <3>2
  <2>2. ASSUME NEW d \in Endpoints, io'[d].pc \in {"publish", "joining"}
        PROVE  io'[d].thread \in Threads /\ thread'[io'[d].thread].pc = "wait"
    BY <1>1, <1>2, <1>4, <2>2
  <2>3. ~shutdown /\ slot # None => thread'[slot].pc = "exit"
    <3> SUFFICES ASSUME ~shutdown, slot # None PROVE thread'[slot].pc = "exit"
      OBVIOUS
    <3>1. slot \in Threads
      BY <1>0 DEF TypeOK
    <3>2. thread[slot].pc # "none"
      BY <1>1, <3>1 DEF IInv, Started
    <3> QED
      BY <1>2, <1>5, <1>6, <3>1, <3>2 DEF Live
  <2> QED
    BY <1>3, <2>1, <2>2, <2>3 DEF Owners
<1>10. Loops'
  <2>1. \A d \in Endpoints : /\ d > made => io'[d].pc = "none" /\ conn[d] = "none"
                             /\ d < made => io'[d].pc = "exit"
    BY <1>1, <1>2, <1>4 DEF IInv, Loops
  <2>2. \A u \in Threads : /\ thread'[u].pc \in {"connect", "make"} => endpoint = None
                           /\ thread'[u].pc = "dial" => endpoint # None
    BY <1>2 DEF IInv, Loops
  <2> QED
    BY <1>3, <1>4, <2>1, <2>2 DEF Loops
<1>11. Phases'
  <2>1. app.pc \notin {"connect", "dial"}
    BY <1>3 DEF IInv, Phases
  <2> QED
    BY <1>3, <2>1 DEF IInv, Phases
<1>12. Counts'
  <2>1. \A d \in Endpoints : conn[d] = "untrusted" => io'[d].pc \in {"loop", "exit"}
    BY <1>2, <1>3 DEF IInv, Counts
  <2>2. \A u \in Threads : Stopping(u) => Stopping(u)'
    BY <1>2, <1>5 DEF Stopping
  <2>3. \A d \in Endpoints : io'[d].pc \notin {"cas", "loop"}
    BY <1>2, <1>4
  <2>4. ASSUME NEW d \in Endpoints, ~shutdown, conn[d] = "closing", io'[d].pc # "exit"
        PROVE  \E u \in Threads : Stopping(u)'
    <3>1. io[d].pc # "exit"
      BY <1>2, <1>3, <2>4
    <3> QED
      BY <2>2, <2>4, <3>1 DEF IInv, Counts
  <2>5. faults > 0
    BY <1>3 DEF IInv, Counts
  <2>6. n <= (IF shutdown THEN faults + 1 ELSE faults)
    <3>1. CASE shutdown
      BY <1>1, <1>3, <3>1 DEF IInv, Counts
    <3>2. CASE ~shutdown
      <4>1. started < faults
        BY <1>3, <1>6, <3>2 DEF IInv, Counts, Live, Stopping
      <4> QED
        BY <1>1, <3>2, <4>1
    <3> QED
      BY <3>1, <3>2
  <2>7. made <= n
    BY <1>1 DEF IInv, Counts
  <2>8. made <= n + 1
    BY <1>1, <2>7
  <2> QED
    BY <1>2, <1>3, <2>1, <2>3, <2>4, <2>5, <2>6, <2>7, <2>8 DEF Counts
<1> QED
  BY <1>7, <1>8, <1>9, <1>10, <1>11, <1>12

LEMMA PublishKeeps ==
    ASSUME IInv, TypeOK', NEW e \in Endpoints, IoPublish(e)
    PROVE  Started' /\ OneThread' /\ Owners' /\ Loops' /\ Phases' /\ Counts'
<1>0. TypeOK
  BY DEF IInv
<1>1. /\ io[e].pc = "publish"
      /\ UNCHANGED <<shutdown, endpoint, made, work, conn, thread, started, app, faults>>
  BY DEF IoPublish
<1>2. /\ e = made /\ endpoint = made /\ endpoint # None
      /\ \A d \in Endpoints : d # e => io[d].pc \in {"none", "exit"}
  BY <1>1, OneLoop
<1>3. /\ \A d \in Endpoints : d # e => io'[d].pc = io[d].pc
      /\ \A d \in Endpoints : io'[d].thread = io[d].thread
      /\ io'[e].pc = IF shutdown THEN "joining" ELSE "loop"
  BY <1>0, IoMoves DEF IoPublish, IoPcs, IoAt
<1>4. /\ shutdown => slot' = slot /\ pending' = pending /\ reconnecting' = FALSE
      /\ ~shutdown => /\ slot' = io[e].thread /\ pending' = pending \cup ({slot} \ {None})
                      /\ reconnecting' = reconnecting
  BY DEF IoPublish
<1>5. io[e].thread \in Threads /\ thread[io[e].thread].pc # "none"
  BY <1>1 DEF IInv, Owners
<1>6. /\ made \in Nat /\ started \in Nat /\ Threads \subseteq Nat /\ Endpoints \subseteq Nat
  BY <1>0, Sizes DEF TypeOK
<1>7. ~shutdown /\ slot # None => thread[slot].pc = "exit"
  BY <1>1 DEF IInv, Owners
<1>8. Started'
  <2>1. io[e].thread \in Nat /\ ~(io[e].thread > started) /\ slot <= started
    BY <1>5, <1>6 DEF IInv, Started
  <2>4. slot' <= started
    BY <1>4, <1>6, <2>1
  <2>2. \A t \in pending' : thread[t].pc = "exit"
    BY <1>4, <1>7 DEF IInv, Started
  <2>3. \A t \in Threads : t > started <=> thread[t].pc = "none"
    BY DEF IInv, Started
  <2> QED
    BY <1>1, <2>2, <2>3, <2>4 DEF Started
<1>9. OneThread'
  BY <1>1, <1>4 DEF IInv, OneThread, Live, Busy
<1>10. Owners'
  <2>1. ASSUME NEW t \in Threads, Live(t)
        PROVE  t = slot' \/ t \in app.joins \/ \E d \in Endpoints : Holds(d, t)'
    <3>1. \A d \in Endpoints : Holds(d, t) => d = e
      BY <1>2 DEF Holds
    <3>2. CASE Holds(e, t)
      BY <1>1, <1>3, <1>4, <3>2 DEF Holds
    <3>3. CASE ~Holds(e, t)
      <4>1. t = slot \/ t \in app.joins
        BY <2>1, <3>1, <3>3 DEF IInv, Owners
      <4>2. t # None
        BY FaultsAssumption DEF Threads, None
      <4>3. t = slot => shutdown
        BY <1>7, <2>1, <4>2 DEF Live
      <4> QED
        BY <1>4, <4>1, <4>3
    <3> QED
      BY <3>2, <3>3
  <2>2. \A d \in Endpoints : io'[d].pc \in {"publish", "joining"} => d = e /\ shutdown
    BY <1>2, <1>3
  <2>3. \A d \in Endpoints : io'[d].pc \in {"publish", "joining"} =>
          /\ io'[d].thread \in Threads
          /\ thread[io'[d].thread].pc \in {"wait", "reconnect", "stop", "join", "joinio",
                                           "finish", "exit"}
    BY <1>1, <1>3, <2>2 DEF IInv, Owners
  <2> QED
    BY <1>1, <2>1, <2>2, <2>3 DEF Owners, Live
<1>11. Loops'
  <2>1. \A d \in Endpoints : /\ d > made => io'[d].pc = "none" /\ conn[d] = "none"
                             /\ d < made => io'[d].pc = "exit"
    BY <1>2, <1>3, <1>6 DEF IInv, Loops
  <2>2. \A u \in Threads : /\ thread[u].pc \in {"connect", "make"} => endpoint = None
                           /\ thread[u].pc = "dial" => endpoint # None
    BY DEF IInv, Loops
  <2> QED
    BY <1>1, <1>2, <2>1, <2>2 DEF Loops
<1>12. Phases'
  <2>1. app.pc \notin {"connect", "dial"}
    BY <1>1 DEF IInv, Phases
  <2>2. app.pc \in Closing \ {"take"} => slot' = None
    BY <1>4 DEF IInv, Phases
  <2> QED
    BY <1>1, <2>1, <2>2 DEF IInv, Phases
<1>13. Counts'
  <2>1. conn[e] # "untrusted"
    BY <1>1 DEF IInv, Counts
  <2>2. \A t \in Threads : Stopping(t)' <=> Stopping(t)
    BY <1>1 DEF Stopping
  <2> QED
    BY <1>1, <1>3, <2>1, <2>2 DEF IInv, Counts
<1> QED
  BY <1>8, <1>9, <1>10, <1>11, <1>12, <1>13

-----------------------------------------------------------------------------
(* The application connects and shuts down.                                  *)

LEMMA AppConnectKeeps ==
    ASSUME IInv, TypeOK', AppConnect
    PROVE  Started' /\ OneThread' /\ Owners' /\ Loops' /\ Phases' /\ Counts'
<1> USE DEF None
<1>1. /\ app.pc = "connect" /\ MakeEndpoint
      /\ UNCHANGED <<shutdown, reconnecting, slot, pending, thread, started, faults>>
  BY DEF AppConnect, workers
<1>2. app'.pc = "dial" /\ app'.joins = app.joins
  BY DEF AppConnect, IInv, TypeOK
<1>3. /\ started = 0 /\ made = 0 /\ app.joins = {} /\ ~shutdown
      /\ \A e \in Endpoints : conn[e] = "none" /\ work[e] \in {"none", "perpetual"}
  BY <1>1 DEF IInv, Phases, Closing
<1>4. \A e \in Endpoints : e \in Nat /\ e > 0
  BY FaultsAssumption DEF Endpoints
<1>5. \A e \in Endpoints : io[e].pc = "none"
  BY <1>3, <1>4 DEF IInv, Loops
<1>6. 1 \in Endpoints
  BY FaultsAssumption DEF Endpoints
<1>7. /\ made' = 1 /\ endpoint' = 1 /\ conn' = conn
      /\ \A d \in Endpoints : io'[d].pc = IF d = 1 THEN "loop" ELSE "none"
  BY <1>1, <1>3, <1>5, <1>6, Makes
<1>8. \A t \in Threads : thread[t].pc = "none"
  BY <1>1, NoThreadsYet
<1>9. \A e \in Endpoints : work'[e] \in {"none", "perpetual"}
  BY <1>1, <1>3 DEF MakeEndpoint, IInv, TypeOK
<1>10. faults \in Nat
  BY FaultsAssumption DEF IInv, TypeOK
<1>11. Started'
  BY <1>1 DEF IInv, Started
<1>12. OneThread'
  BY <1>1 DEF IInv, OneThread, Live, Busy
<1>13. Owners'
  BY <1>1, <1>7, <1>8 DEF Owners, Live
<1>14. Loops'
  BY <1>1, <1>3, <1>4, <1>7, <1>8 DEF Loops
<1>15. Phases'
  BY <1>1, <1>2, <1>3, <1>7, <1>9 DEF Phases, Closing
<1>16. Counts'
  <2>1. \A e \in Endpoints : conn'[e] = "none" /\ io'[e].pc # "cas"
    BY <1>3, <1>7
  <2>2. \A t \in Threads : thread'[t].pc = "none"
    BY <1>1, <1>8
  <2>3. made' <= started' + 1 /\ started' <= faults' /\ ~(started' > 0)
    BY <1>1, <1>3, <1>7, <1>10
  <2> QED
    BY <1>1, <1>3, <2>1, <2>2, <2>3 DEF Counts
<1> QED
  BY <1>11, <1>12, <1>13, <1>14, <1>15, <1>16

LEMMA AppBadUriKeeps ==
    ASSUME IInv, TypeOK', AppBadUri
    PROVE  Started' /\ OneThread' /\ Owners' /\ Loops' /\ Phases' /\ Counts'
<1> USE DEF None
<1>1. /\ app.pc = "dial" /\ endpoint' = None /\ faults' = faults + 1
      /\ UNCHANGED <<shutdown, reconnecting, made, conn, slot, pending, thread, started>>
  BY DEF AppBadUri, workers
<1>2. app'.pc = "up" /\ app'.joins = app.joins
  BY DEF AppBadUri, IInv, TypeOK
<1>3. /\ started = 0 /\ made = 1 /\ endpoint = 1 /\ app.joins = {} /\ ~shutdown
      /\ \A e \in Endpoints : conn[e] = "none"
  BY <1>1 DEF IInv, Phases, Closing
<1>4. 1 \in Endpoints /\ \A e \in Endpoints : e \in Nat /\ e > 0
  BY FaultsAssumption DEF Endpoints
<1>5. \A e \in Endpoints : e # 1 => io[e].pc = "none"
  BY <1>3, <1>4 DEF IInv, Loops
<1>6. IoAt(1, "exit")
  BY <1>3, <1>4, IoMoves DEF AppBadUri, IoGoto, IoPcs, IInv
<1>7. \A e \in Endpoints : io'[e].pc = IF e = 1 THEN "exit" ELSE "none"
  BY <1>5, <1>6 DEF IoAt
<1>8. \A t \in Threads : thread[t].pc = "none"
  BY <1>1, NoThreadsYet
<1>9. faults \in Nat
  BY FaultsAssumption DEF IInv, TypeOK
<1>10. Started'
  BY <1>1 DEF IInv, Started
<1>11. OneThread'
  BY <1>1 DEF IInv, OneThread, Live, Busy
<1>12. Owners'
  BY <1>1, <1>7, <1>8 DEF Owners, Live
<1>13. Loops'
  BY <1>1, <1>3, <1>4, <1>7, <1>8 DEF Loops
<1>14. Phases'
  BY <1>1, <1>2, <1>3 DEF Phases, Closing
<1>15. Counts'
  <2>1. \A e \in Endpoints : conn'[e] = "none" /\ io'[e].pc # "cas"
    BY <1>1, <1>3, <1>7
  <2>2. \A t \in Threads : thread'[t].pc = "none"
    BY <1>1, <1>8
  <2>3. made' <= started' + 1 /\ started' <= faults' /\ ~(started' > 0)
    BY <1>1, <1>3, <1>9
  <2> QED
    BY <1>1, <1>3, <2>1, <2>2, <2>3 DEF Counts
<1> QED
  BY <1>10, <1>11, <1>12, <1>13, <1>14, <1>15

LEMMA AppDialKeeps ==
    ASSUME IInv, TypeOK', AppDial
    PROVE  Started' /\ OneThread' /\ Owners' /\ Loops' /\ Phases' /\ Counts'
<1> USE DEF None
<1>1. /\ app.pc = "dial"
      /\ UNCHANGED <<shutdown, reconnecting, endpoint, made, io, slot, pending, thread,
                     started, faults>>
  BY DEF AppDial, flags, workers
<1>2. app'.pc = "status" /\ app'.joins = app.joins
  BY DEF AppDial, IInv, TypeOK
<1>3. /\ started = 0 /\ made = 1 /\ endpoint = 1 /\ app.joins = {} /\ ~shutdown
      /\ \A e \in Endpoints : conn[e] = "none" /\ io[e].pc \in {"none", "loop"}
  BY <1>1 DEF IInv, Phases, Closing
<1>4. \A e \in Endpoints : conn'[e] = IF e = 1 THEN "connecting" ELSE "none"
  BY <1>3 DEF AppDial, Dial, IInv, TypeOK
<1>5. Started'
  BY <1>1 DEF IInv, Started
<1>6. OneThread'
  BY <1>1 DEF IInv, OneThread, Live, Busy
<1>7. Owners'
  BY <1>1, <1>2, <1>3 DEF IInv, Owners, Live, Holds
<1>8. Loops'
  BY <1>1, <1>3, <1>4 DEF IInv, Loops
<1>9. Phases'
  BY <1>1, <1>2, <1>3 DEF Phases, Closing
<1>10. Counts'
  BY <1>1, <1>3, <1>4 DEF IInv, Counts
<1> QED
  BY <1>5, <1>6, <1>7, <1>8, <1>9, <1>10

LEMMA AppShutdownKeeps ==
    ASSUME IInv, TypeOK', AppShutdown
    PROVE  Started' /\ OneThread' /\ Owners' /\ Loops' /\ Phases' /\ Counts'
<1>1. /\ app.pc = "up" /\ shutdown' = TRUE
      /\ UNCHANGED <<endpoint, made, conn, io, slot, pending, thread, started, faults>>
  BY DEF AppShutdown, endpoints, workers
<1>2. app'.pc = "take" /\ app'.joins = app.joins
  BY DEF AppShutdown, IInv, TypeOK
<1>3. ~shutdown /\ app.joins = {}
  BY <1>1 DEF IInv, Phases, Closing
<1>4. started \in Nat /\ faults \in Nat /\ started <= faults
  BY <1>3, Sizes, FaultsAssumption DEF IInv, Counts, TypeOK
<1>5. Started'
  BY <1>1 DEF IInv, Started
<1>6. OneThread'
  BY <1>1 DEF IInv, OneThread, Live, Busy
<1>7. Owners'
  BY <1>1, <1>2 DEF IInv, Owners, Live, Holds
<1>8. Loops'
  BY <1>1 DEF IInv, Loops
<1>9. Phases'
  BY <1>1, <1>2, <1>3 DEF Phases, Closing
<1>10. Counts'
  BY <1>1, <1>4 DEF IInv, Counts
<1> QED
  BY <1>5, <1>6, <1>7, <1>8, <1>9, <1>10

\* The other steps of the application leave the event loops alone.
LEMMA AppRestKeeps ==
    ASSUME IInv, TypeOK',
           AppStatus \/ AppTakeThreads \/ AppJoinThreads \/ AppStopEndpoint \/ AppJoinIo
    PROVE  Started' /\ OneThread' /\ Owners' /\ Loops' /\ Phases' /\ Counts'
<1> USE DEF None
<1>0. TypeOK
  BY DEF IInv
<1>1. UNCHANGED <<shutdown, reconnecting, made, conn, io, thread, started, faults>>
  BY DEF AppStatus, AppTakeThreads, AppJoinThreads, AppStopEndpoint, AppJoinIo, flags,
         endpoints, workers
<1>2. /\ slot' \in {slot, None} /\ pending' \in {pending, {}}
      /\ endpoint' # endpoint => AppJoinIo
      /\ (slot' # slot \/ pending' # pending) => AppTakeThreads
  BY DEF AppStatus, AppTakeThreads, AppJoinThreads, AppStopEndpoint, AppJoinIo, flags,
         endpoints, workers
<1>3. Started'
  BY <1>1, <1>2, Sizes, <1>0 DEF IInv, Started, TypeOK
<1>4. OneThread'
  BY <1>1 DEF IInv, OneThread, Live, Busy
<1>5. Owners'
  <2>1. ASSUME NEW t \in Threads, Live(t)
        PROVE  t = slot' \/ t \in app'.joins \/ \E e \in Endpoints : Holds(e, t)
    <3>1. CASE AppTakeThreads
      <4>1. app.joins = {} /\ app'.joins = pending \cup ({slot} \ {None})
        BY <3>1 DEF AppTakeThreads, IInv, Phases
      <4>2. t # None
        BY FaultsAssumption DEF Threads
      <4> QED
        BY <2>1, <4>1, <4>2 DEF IInv, Owners
    <3>2. CASE AppJoinThreads
      <4>1. t \notin app.joins /\ slot' = slot
        BY <2>1, <3>2 DEF AppJoinThreads, Exited, Live, workers
      <4> QED
        BY <2>1, <4>1 DEF IInv, Owners
    <3>3. CASE AppStatus \/ AppStopEndpoint \/ AppJoinIo
      <4>1. app'.joins = app.joins /\ slot' = slot
        BY <1>0, <3>3 DEF AppStatus, AppStopEndpoint, AppJoinIo, workers, TypeOK
      <4> QED
        BY <2>1, <4>1 DEF IInv, Owners
    <3> QED
      BY <3>1, <3>2, <3>3
  <2> QED
    BY <1>1, <1>2, <2>1 DEF IInv, Owners, Live, Holds
<1>6. Loops'
  <2>1. CASE AppJoinIo
    <3>1. IoExited /\ endpoint' = None /\ app.pc = "joinio"
      BY <2>1 DEF AppJoinIo
    <3>2. \A t \in Threads : thread[t].pc # "dial"
      BY <3>1, HeldInShutdown DEF Live
    <3>3. made \in Nat /\ \A e \in Endpoints : e \in Nat
      BY <1>0, Sizes DEF TypeOK
    <3> QED
      BY <1>1, <3>1, <3>2, <3>3, LoopsEnded DEF Loops
  <2>2. CASE ~AppJoinIo
    BY <1>1, <1>2, <2>2 DEF IInv, Loops
  <2> QED
    BY <2>1, <2>2
<1>7. Phases'
  <2>1. CASE AppStatus
    <3>1. app.pc = "status" /\ app'.pc = "up" /\ app'.joins = app.joins
      BY <1>0, <2>1 DEF AppStatus, TypeOK
    <3> QED
      BY <1>1, <3>1 DEF IInv, Phases, Closing
  <2>2. CASE AppTakeThreads
    <3>1. app.pc = "take" /\ app'.pc = "join" /\ slot' = None
      BY <2>2 DEF AppTakeThreads
    <3> QED
      BY <1>1, <3>1 DEF IInv, Phases, Closing
  <2>3. CASE AppJoinThreads
    <3>1. app.pc = "join" /\ app'.pc = "stopio" /\ app'.joins = {} /\ slot' = slot
      BY <2>3 DEF AppJoinThreads, workers
    <3> QED
      BY <1>1, <3>1 DEF IInv, Phases, Closing
  <2>4. CASE AppStopEndpoint
    <3>1. app.pc = "stopio" /\ app'.pc = "joinio" /\ app'.joins = app.joins /\ slot' = slot
      BY <1>0, <2>4 DEF AppStopEndpoint, TypeOK, workers
    <3> QED
      BY <1>1, <3>1 DEF IInv, Phases, Closing
  <2>5. CASE AppJoinIo
    <3>1. /\ app.pc = "joinio" /\ app'.pc = "down" /\ app'.joins = app.joins
          /\ slot' = slot /\ endpoint' = None
      BY <1>0, <2>5 DEF AppJoinIo, TypeOK, workers
    <3> QED
      BY <1>1, <3>1 DEF IInv, Phases, Closing
  <2> QED
    BY <2>1, <2>2, <2>3, <2>4, <2>5
<1>8. Counts'
  <2>1. \A t \in Threads : Stopping(t)' <=> Stopping(t)
    BY <1>1 DEF Stopping
  <2> QED
    BY <1>1, <2>1 DEF IInv, Counts
<1> QED
  BY <1>3, <1>4, <1>5, <1>6, <1>7, <1>8

-----------------------------------------------------------------------------

LEMMA StepInv == IInv /\ [Next]_vars => IInv'
<1> SUFFICES ASSUME IInv, [Next]_vars PROVE IInv'
  OBVIOUS
<1>1. TypeOK'
  BY StepType
<1>2. CASE UNCHANGED vars
  <2>1. Started' /\ OneThread'
    BY <1>2 DEF IInv, vars, flags, endpoints, workers, Started, OneThread, Live, Busy
  <2>2. Owners' /\ Loops' /\ Phases'
    BY <1>2 DEF IInv, vars, flags, endpoints, workers, Owners, Loops, Phases, Live, Holds
  <2>3. Counts'
    BY <1>2 DEF IInv, vars, flags, endpoints, workers, Counts, Stopping
  <2> QED
    BY <1>1, <2>1, <2>2, <2>3 DEF IInv
<1>3. CASE AppStep \/ AppBadUri \/ AppShutdown
  <2>1. Started' /\ OneThread' /\ Owners' /\ Loops' /\ Phases' /\ Counts'
    BY <1>1, <1>3, AppConnectKeeps, AppBadUriKeeps, AppDialKeeps, AppShutdownKeeps,
       AppRestKeeps DEF AppStep
  <2> QED
    BY <1>1, <2>1 DEF IInv
<1>4. CASE \E t \in Threads : ThreadStep(t)
  <2>1. PICK t \in Threads : ThreadStep(t)
    BY <1>4
  <2>2. PICK pc \in ThreadPcs : ThreadMove(t, pc)
    BY <2>1, ThreadSteps
  <2>3. Started' /\ OneThread' /\ Owners' /\ Loops' /\ Phases' /\ Counts'
    BY <1>1, <2>2, ThreadKeeps
  <2> QED
    BY <1>1, <2>3 DEF IInv
<1>5. CASE \E e \in Endpoints : IoStep(e) \/ NetworkStep(e) \/ IoOnOpen(e)
  <2>1. PICK e \in Endpoints : IoStep(e) \/ NetworkStep(e) \/ IoOnOpen(e)
    BY <1>5
  <2>2. Started' /\ OneThread' /\ Owners' /\ Loops' /\ Phases' /\ Counts'
    BY <1>1, <2>1, IoSteps, IoKeeps, CasKeeps, PublishKeeps
  <2> QED
    BY <1>1, <2>2 DEF IInv
<1> QED
  BY <1>2, <1>3, <1>4, <1>5 DEF Next

\* Every reachable state satisfies IInv: a reconnect thread that runs has an
\* owner, and only the newest event loop runs (ScheduleReconnect, ReConnect,
\* Shutdown and the handlers of ws_client.cpp).
THEOREM Invariance == Spec => []IInv
BY InitInv, StepInv, PTL DEF Spec

\* The endpoint has one owner: until Shutdown at most one reconnect thread
\* works on m_endpoint_, and every older event loop has ended.
THEOREM Ownership == Spec => []EndpointIsOwned
<1>1. ASSUME IInv PROVE EndpointIsOwned
  <2>1. IsFiniteSet(Busy) /\ Cardinality(Busy) <= 1
    <3>1. CASE Busy = {}
      BY <3>1, FS_EmptySet
    <3>2. CASE Busy # {}
      <4>1. PICK t : t \in Busy
        BY <3>2
      <4>2. Busy = {t}
        BY <1>1, <4>1 DEF IInv, OneThread
      <4>3. IsFiniteSet({t}) /\ Cardinality({t}) = 1
        BY FS_Singleton
      <4> QED
        BY <4>2, <4>3
    <3> QED
      BY <3>1, <3>2
  <2>2. OneReconnectAtATime
    BY <2>1 DEF OneReconnectAtATime
  <2>3. OneEventLoop
    BY <1>1 DEF IInv, Loops, OneEventLoop
  <2> QED
    BY <1>1, <2>2, <2>3 DEF IInv, EndpointIsOwned
<1> QED
  BY <1>1, Invariance, PTL

\* Once Shutdown has returned no reconnect thread and no event loop is left:
\* the client that was closed does not come back.
THEOREM ShutdownIsFinal == Spec => []NothingAfterShutdown
<1>1. ASSUME IInv PROVE NothingAfterShutdown
  <2> SUFFICES ASSUME app.pc = "down" PROVE NothingAfterShutdown
    BY DEF NothingAfterShutdown
  <2>1. IoExited
    BY <1>1 DEF IInv, Phases, IoExited
  <2>2. \A e \in Endpoints : io[e].pc \in {"none", "exit"}
    BY <1>1, <2>1, LoopsEnded
  <2>3. \A t \in Threads : ~Live(t)
    BY <1>1, <2>2, HeldInShutdown DEF Holds
  <2> QED
    BY <2>2, <2>3 DEF NothingAfterShutdown, Live
<1> QED
  BY <1>1, Invariance, PTL
=============================================================================
