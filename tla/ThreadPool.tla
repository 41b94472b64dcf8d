----------------------------- MODULE ThreadPool -----------------------------
(***************************************************************************)
(* The worker pool of src/thread_pool.c: a bounded ring of client file     *)
(* descriptors guarded by one mutex and two condition variables, a fixed   *)
(* set of worker threads, and the main thread that creates the pool,       *)
(* submits descriptors and shuts the pool down (src/server.c:265-313).     *)
(*                                                                         *)
(* Every step between two lock operations that touches shared state is a   *)
(* step of its own, so that the mutex is what keeps the steps of two       *)
(* threads apart and not the grain of the model.  A sleeping thread is one *)
(* whose pc is "asleep" (workers, on not_empty) or "sasleep" (Main, on     *)
(* not_full); a signal moves one sleeper to its re-lock.                   *)
(***************************************************************************)
EXTENDS Integers, FiniteSets

CONSTANTS
  Workers,      \* the worker threads: thread_count of them
  Main,         \* the main thread
  Capacity,     \* queue_capacity
  Fds,          \* the file descriptors accept() can return
  NoFd,         \* no descriptor; also the content of an unwritten slot
  Nobody,       \* the owner of a free mutex
  MaxSpurious   \* bound on the spurious wake-ups of one behaviour

ASSUME CapacityAssumption == Capacity \in Nat \ {0}
ASSUME ThreadAssumption == IsFiniteSet(Workers) /\ Workers # {} /\ Main \notin Workers
ASSUME NobodyAssumption == Nobody \notin Workers \cup {Main}
ASSUME NoFdAssumption == NoFd \notin Fds
ASSUME SpuriousAssumption == MaxSpurious \in Nat

VARIABLES
  fds, head, tail, count,  \* the ring
  stopping,                \* pool->stopping
  mutex,                   \* the thread that holds pool->mutex, or Nobody
  pc,                      \* where each thread is
  cfd,                     \* each thread's local client_fd
  open,                    \* accepted descriptors that nobody closed yet
  alive,                   \* the pool's memory has not been freed
  spurious                 \* spurious wake-ups so far

ring == <<fds, head, tail, count>>
vars == <<fds, head, tail, count, stopping, mutex, pc, cfd, open, alive, spurious>>

Threads == Workers \cup {Main}

-----------------------------------------------------------------------------
(* pthread primitives, as thread_pool.c uses them.                         *)

\* Faulty variant: the critical section is entered without waiting.
MutexIgnored == TRUE

MutexFree == mutex = Nobody

\* pthread_mutex_lock, and the re-acquisition at the end of pthread_cond_wait:
\* thread t goes from `from` to `to` once the mutex is free.
Lock(t, from, to) ==
  /\ pc[t] = from
  /\ MutexFree
  /\ mutex' = t
  /\ pc' = [pc EXCEPT ![t] = to]
  /\ UNCHANGED <<ring, stopping, cfd, open, alive, spurious>>

Sleepers == {w \in Workers : pc[w] = "asleep"}

\* Faulty variant: the signal is sent only when the ring was empty before.
SignalNotEmptyFirstOnly(p) ==
  \/ /\ Sleepers = {} \/ count # 0
     /\ pc' = p
  \/ /\ count = 0
     /\ \E w \in Sleepers : pc' = [p EXCEPT ![w] = "relock"]

\* pthread_cond_signal(&not_empty) by a thread whose own move makes pc into p:
\* one sleeping worker, if there is one, goes on to re-lock.
SignalNotEmpty(p) ==
  \/ /\ Sleepers = {}
     /\ pc' = p
  \/ \E w \in Sleepers : pc' = [p EXCEPT ![w] = "relock"]

\* Faulty variant: nobody tells the submitter that a slot is free.
SignalNotFullDropped(p) == pc' = p

\* pthread_cond_signal(&not_full): only Main ever waits on it.
SignalNotFull(p) ==
  pc' = [p EXCEPT ![Main] = IF @ = "sasleep" THEN "srelock" ELSE @]

\* pthread_cond_wait may return without any signal.
SpuriousWake(t) ==
  /\ pc[t] \in {"asleep", "sasleep"}
  /\ spurious < MaxSpurious
  /\ spurious' = spurious + 1
  /\ pc' = [pc EXCEPT ![t] = IF t = Main THEN "srelock" ELSE "relock"]
  /\ UNCHANGED <<ring, stopping, mutex, cfd, open, alive>>

-----------------------------------------------------------------------------
(* thread_pool_init.                                                       *)

Init ==
  /\ fds = [i \in 0..Capacity - 1 |-> NoFd]
  /\ head = 0 /\ tail = 0 /\ count = 0
  /\ stopping = FALSE
  /\ mutex = Nobody
  /\ pc = [t \in Threads |-> IF t = Main THEN "starting" ELSE "unborn"]
  /\ cfd = [t \in Threads |-> NoFd]
  /\ open = {}
  /\ alive = TRUE
  /\ spurious = 0

\* An allocation or a pthread_*_init fails before any thread exists: what was
\* set up is released and thread_pool_init returns 0.
InitFail ==
  /\ pc[Main] = "starting"
  /\ \A w \in Workers : pc[w] = "unborn"
  /\ pc' = [pc EXCEPT ![Main] = "done"]
  /\ alive' = FALSE
  /\ UNCHANGED <<ring, stopping, mutex, cfd, open, spurious>>

\* One round of the creation loop; after the last one the pool is usable.
CreateWorker(w) ==
  /\ pc[Main] = "starting"
  /\ pc[w] = "unborn"
  /\ pc' = [pc EXCEPT ![w] = "lock",
                      ![Main] = IF \A v \in Workers \ {w} : pc[v] # "unborn"
                                THEN "idle" ELSE @]
  /\ UNCHANGED <<ring, stopping, mutex, cfd, open, alive, spurious>>

\* pthread_create fails: the workers created so far are shut down.
CreateFail ==
  /\ pc[Main] = "starting"
  /\ pc' = [pc EXCEPT ![Main] = "dlock"]
  /\ UNCHANGED <<ring, stopping, mutex, cfd, open, alive, spurious>>

-----------------------------------------------------------------------------
(* worker_loop.                                                            *)

\* The condition of the worker's waiting loop.
WorkerMustWait == ~stopping /\ count = 0

\* Faulty variant: a worker obeys `stopping` at once, whatever is queued.
WorkerMayExitEager == stopping

\* The worker leaves the loop only when it is told to and nothing is queued.
WorkerMayExit == stopping /\ count = 0

WorkerLock(w) == Lock(w, "lock", "test")

WorkerRelock(w) == Lock(w, "relock", "test")

\* pthread_cond_wait releases the mutex and falls asleep in one step.
WorkerWait(w) ==
  /\ pc[w] = "test"
  /\ WorkerMustWait
  /\ mutex' = Nobody
  /\ pc' = [pc EXCEPT ![w] = "asleep"]
  /\ UNCHANGED <<ring, stopping, cfd, open, alive, spurious>>

WorkerExit(w) ==
  /\ pc[w] = "test"
  /\ ~WorkerMustWait
  /\ WorkerMayExit
  /\ mutex' = Nobody
  /\ pc' = [pc EXCEPT ![w] = "exited"]
  /\ UNCHANGED <<ring, stopping, cfd, open, alive, spurious>>

\* Faulty variant: the newest descriptor is served first.
NewestQueued == fds[(tail + Capacity - 1) % Capacity]

OldestQueued == fds[head]

WorkerTake(w) ==
  /\ pc[w] = "test"
  /\ ~WorkerMustWait
  /\ ~WorkerMayExit
  /\ cfd' = [cfd EXCEPT ![w] = OldestQueued]
  /\ pc' = [pc EXCEPT ![w] = "advance"]
  /\ UNCHANGED <<ring, stopping, mutex, open, alive, spurious>>

\* Faulty variant: head stays where it is.
HeadKept == head

HeadAdvanced == (head + 1) % Capacity

WorkerAdvance(w) ==
  /\ pc[w] = "advance"
  /\ head' = HeadAdvanced
  /\ count' = count - 1
  /\ pc' = [pc EXCEPT ![w] = "signal"]
  /\ UNCHANGED <<fds, tail, stopping, mutex, cfd, open, alive, spurious>>

WorkerSignal(w) ==
  /\ pc[w] = "signal"
  /\ SignalNotFull([pc EXCEPT ![w] = "handle"])
  /\ mutex' = Nobody
  /\ UNCHANGED <<ring, stopping, cfd, open, alive, spurious>>

\* The handler returns; handle_client has closed the descriptor on every path.
HandlerReturn(w) ==
  /\ pc[w] = "handle"
  /\ open' = open \ {cfd[w]}
  /\ cfd' = [cfd EXCEPT ![w] = NoFd]
  /\ pc' = [pc EXCEPT ![w] = "lock"]
  /\ UNCHANGED <<ring, stopping, mutex, alive, spurious>>

-----------------------------------------------------------------------------
(* thread_pool_submit, called by the accept loop.                          *)

\* accept() returned fd; the kernel never returns a descriptor that is open.
SubmitCall(fd) ==
  /\ pc[Main] = "idle"
  /\ fd \notin open
  /\ open' = open \cup {fd}
  /\ cfd' = [cfd EXCEPT ![Main] = fd]
  /\ pc' = [pc EXCEPT ![Main] = "slock"]
  /\ UNCHANGED <<ring, stopping, mutex, alive, spurious>>

SubmitLock == Lock(Main, "slock", "stest")

SubmitRelock == Lock(Main, "srelock", "stest")

\* Faulty variant: the full ring is noticed one submission too late.
SubmitMustWaitLate == ~stopping /\ count > Capacity

\* The condition of the submitter's waiting loop.
SubmitMustWait == ~stopping /\ count = Capacity

SubmitWait ==
  /\ pc[Main] = "stest"
  /\ SubmitMustWait
  /\ mutex' = Nobody
  /\ pc' = [pc EXCEPT ![Main] = "sasleep"]
  /\ UNCHANGED <<ring, stopping, cfd, open, alive, spurious>>

\* Writes the slot and moves tail; a stopping pool refuses instead.
SubmitStore ==
  /\ pc[Main] = "stest"
  /\ ~SubmitMustWait
  /\ IF stopping
     THEN /\ pc' = [pc EXCEPT ![Main] = "sunlock"]
          /\ UNCHANGED <<fds, tail>>
     ELSE /\ fds' = [fds EXCEPT ![tail] = cfd[Main]]
          /\ tail' = (tail + 1) % Capacity
          /\ pc' = [pc EXCEPT ![Main] = "scount"]
  /\ UNCHANGED <<head, count, stopping, mutex, cfd, open, alive, spurious>>

SubmitCount ==
  /\ pc[Main] = "scount"
  /\ count' = count + 1
  /\ cfd' = [cfd EXCEPT ![Main] = NoFd]
  /\ SignalNotEmpty([pc EXCEPT ![Main] = "sunlock"])
  /\ UNCHANGED <<fds, head, tail, stopping, mutex, open, alive, spurious>>

\* Returns to the accept loop, which closes a descriptor the pool refused (one
\* still in Main's hand) and leaves the loop for the shutdown.
SubmitUnlock ==
  /\ pc[Main] = "sunlock"
  /\ mutex' = Nobody
  /\ open' = open \ {cfd[Main]}
  /\ cfd' = [cfd EXCEPT ![Main] = NoFd]
  /\ pc' = [pc EXCEPT ![Main] = IF cfd[Main] = NoFd THEN "idle" ELSE "dlock"]
  /\ UNCHANGED <<ring, stopping, alive, spurious>>

-----------------------------------------------------------------------------
(* thread_pool_shutdown.                                                   *)

ShutdownCall ==
  /\ pc[Main] = "idle"
  /\ pc' = [pc EXCEPT ![Main] = "dlock"]
  /\ UNCHANGED <<ring, stopping, mutex, cfd, open, alive, spurious>>

ShutdownLock == Lock(Main, "dlock", "dstop")

ShutdownStop ==
  /\ pc[Main] = "dstop"
  /\ stopping' = TRUE
  /\ pc' = [pc EXCEPT ![Main] = "dbroadcast"]
  /\ UNCHANGED <<ring, mutex, cfd, open, alive, spurious>>

\* Faulty variant: the workers are not woken when the pool stops.
LeftAsleep(t) == pc[t]

\* Where a broadcast on not_empty leaves worker t.
Woken(t) == IF pc[t] = "asleep" THEN "relock" ELSE pc[t]

\* Both condition variables are broadcast (no thread but Main can be on
\* not_full, and Main is here) and the mutex is released.
ShutdownBroadcast ==
  /\ pc[Main] = "dbroadcast"
  /\ mutex' = Nobody
  /\ pc' = [t \in Threads |-> IF t = Main THEN "djoin" ELSE Woken(t)]
  /\ UNCHANGED <<ring, stopping, cfd, open, alive, spurious>>

\* Faulty variant: the pool is torn down without joining the workers.
AllJoinedSkipped == TRUE

\* pthread_join has returned for every thread that was created.
AllJoined == \A w \in Workers : pc[w] \in {"unborn", "exited"}

\* Everything is destroyed and freed, and the ThreadPool is zeroed.
ShutdownFree ==
  /\ pc[Main] = "djoin"
  /\ AllJoined
  /\ alive' = FALSE
  /\ fds' = [i \in 0..Capacity - 1 |-> NoFd]
  /\ head' = 0 /\ tail' = 0 /\ count' = 0
  /\ stopping' = FALSE
  /\ pc' = [pc EXCEPT ![Main] = "done"]
  /\ UNCHANGED <<mutex, cfd, open, spurious>>

\* The run is over: the behaviour stays where it is.
Terminated ==
  /\ pc[Main] = "done"
  /\ AllJoined
  /\ UNCHANGED vars

-----------------------------------------------------------------------------
WorkerStep(w) ==
  \/ WorkerLock(w) \/ WorkerRelock(w) \/ WorkerWait(w) \/ WorkerExit(w)
  \/ WorkerTake(w) \/ WorkerAdvance(w) \/ WorkerSignal(w) \/ HandlerReturn(w)

SubmitStep ==
  \/ SubmitLock \/ SubmitRelock \/ SubmitWait
  \/ SubmitStore \/ SubmitCount \/ SubmitUnlock

ShutdownStep ==
  \/ ShutdownLock \/ ShutdownStop \/ ShutdownBroadcast \/ ShutdownFree

Next ==
  \/ InitFail
  \/ \E w \in Workers : CreateWorker(w)
  \/ CreateFail
  \/ \E w \in Workers : WorkerStep(w)
  \/ \E fd \in Fds : SubmitCall(fd)
  \/ SubmitStep
  \/ ShutdownCall
  \/ ShutdownStep
  \/ \E t \in Threads : SpuriousWake(t)
  \/ Terminated

Spec == Init /\ [][Next]_vars

\* Every runnable thread is eventually scheduled, and handlers return.  What
\* Main does between two calls (accept, the decision to stop) is not fair.
Fairness ==
  /\ \A w \in Workers : WF_vars(WorkerStep(w))
  /\ WF_vars(SubmitStep)
  /\ WF_vars(ShutdownStep)

FairSpec == Spec /\ Fairness

-----------------------------------------------------------------------------
(* Safety.                                                                 *)

WorkerPcs ==
  {"unborn", "lock", "test", "asleep", "relock", "advance", "signal", "handle",
   "exited"}

MainPcs ==
  {"starting", "idle", "slock", "stest", "sasleep", "srelock", "scount",
   "sunlock", "dlock", "dstop", "dbroadcast", "djoin", "done"}

\* Types of the pool's fields and of the threads' locals: indices stay inside
\* the ring and count never exceeds queue_capacity.
TypeOK ==
  /\ fds \in [0..Capacity - 1 -> Fds \cup {NoFd}]
  /\ head \in 0..Capacity - 1
  /\ tail \in 0..Capacity - 1
  /\ count \in 0..Capacity
  /\ stopping \in BOOLEAN
  /\ mutex \in Threads \cup {Nobody}
  /\ pc \in [Threads -> WorkerPcs \cup MainPcs]
  /\ \A w \in Workers : pc[w] \in WorkerPcs
  /\ pc[Main] \in MainPcs
  /\ cfd \in [Threads -> Fds \cup {NoFd}]
  /\ open \in SUBSET Fds
  /\ alive \in BOOLEAN
  /\ spurious \in 0..MaxSpurious

\* The places between a lock and the matching unlock.
CriticalPcs ==
  {"test", "advance", "signal", "stest", "scount", "sunlock", "dstop",
   "dbroadcast"}

\* No two threads are ever between a lock and its unlock, so every read and
\* write of the ring, of count and of stopping is free of data races, although
\* threads also leave and re-enter the section inside pthread_cond_wait.
MutualExclusion ==
  \A t, u \in Threads :
    pc[t] \in CriticalPcs /\ pc[u] \in CriticalPcs => t = u

\* The slot of the i-th descriptor from the head of the ring.
Slot(i) == (head + i) % Capacity

\* The places that hold responsibility for closing descriptor fd: Main between
\* accept and the end of the submission, a queued slot, or a serving worker.
Owners(fd) ==
  {<<"thread", t>> : t \in {u \in Threads : cfd[u] = fd /\ pc[u] # "advance"}}
    \cup {<<"slot", i>> : i \in {j \in 0..count - 1 : fds[Slot(j)] = fd}}

\* An accepted descriptor is never lost, never handed to two workers and never
\* used after it was closed: while it is open exactly one place answers for it,
\* once it is closed none does.  The ring may wrap and workers may race.
OneOwner ==
  \A fd \in Fds : Cardinality(Owners(fd)) = IF fd \in open THEN 1 ELSE 0

\* The tail that submit writes through is always where the queued descriptors
\* end (one further while a stored descriptor is not counted yet): a wrong wrap
\* would overwrite a waiting client or serve a stale slot.
RingShape ==
  tail = (head + count + IF pc[Main] = "scount" THEN 1 ELSE 0) % Capacity

\* The workers that will look at the ring before they sleep again.
Attentive == {w \in Workers : pc[w] \in {"lock", "relock", "test", "advance"}}

\* No wake-up of a worker is lost: while any worker sleeps on not_empty, every
\* queued descriptor has an awake worker of its own coming for it.
WorkConserved == Sleepers # {} => count <= Cardinality(Attentive)

\* No wake-up of the submitter is lost: it sleeps on not_full only while the
\* ring is full or a worker is about to signal it.
SubmitterNotForgotten ==
  pc[Main] = "sasleep" => count = Capacity \/ \E w \in Workers : pc[w] = "signal"

\* Shutdown waits for the workers it may not outlive: once the pool's memory is
\* freed no worker can touch it, whichever pthread_create failed.
NoUseAfterFree ==
  ~alive => \A w \in Workers : pc[w] \in {"unborn", "exited"}

\* Shutdown is graceful: every descriptor that was accepted has been handled
\* and closed when the pool is gone.
ShutdownDrains == ~alive => open = {}

-----------------------------------------------------------------------------
(* The bounded queue this pool implements.                                 *)

Waiting == [i \in 1..count |-> fds[Slot(i - 1)]]

Serving == {cfd[w] : w \in {v \in Workers : pc[v] \in {"signal", "handle"}}}

Phase == IF ~alive THEN "retired" ELSE IF stopping THEN "closing" ELSE "open"

Queue == INSTANCE FdQueue WITH queue <- Waiting, serving <- Serving, phase <- Phase

\* The pool is a bounded FIFO queue of descriptors, each served exactly once and
\* all of them before the pool is retired.
ImplementsFdQueue == Queue!QueueSpec

-----------------------------------------------------------------------------
(* Liveness, under FairSpec.                                               *)

\* Every client that was accepted is eventually served and closed, even one
\* whose submission found the ring full or whose pool is shutting down.
EveryClientServed == \A fd \in Fds : fd \in open ~> fd \notin open

\* A shutdown that began, also one after a failed pthread_create, ends.
ShutdownEnds == pc[Main] = "dlock" ~> pc[Main] = "done"
=============================================================================
