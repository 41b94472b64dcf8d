-------------------------- MODULE ThreadPoolProofs --------------------------
(***************************************************************************)
(* Proofs about ThreadPool, for every number of workers, every capacity and*)
(* every set of descriptors.                                               *)
(*                                                                         *)
(* The first part is about the ring and the mutex: the inductive invariant *)
(* PoolInv says what each thread may rely on at each place of its code.    *)
(* The second part proves that every accepted descriptor has exactly one   *)
(* owner, that a pool that is gone has closed them all, and that the pool  *)
(* implements the queue of FdQueue.                                        *)
(***************************************************************************)
EXTENDS ThreadPool, FiniteSetTheorems, SequenceTheorems, TLAPS

\* A thread between lock and unlock is the holder of the mutex.
HolderIsInside == \A t \in Threads : pc[t] \in CriticalPcs => mutex = t

\* A worker that has decided to take a descriptor will find one.
TakerHasWork == \A w \in Workers : pc[w] = "advance" => count > 0

\* A submitter that has written a slot has room to count it.
StorerHasRoom == pc[Main] = "scount" => count < Capacity

\* Freed memory belongs to a finished run without running workers.
FreedIsOver == ~alive => pc[Main] = "done" /\ AllJoined

\* The distance from head to tail is the number of stored descriptors, or both
\* indices coincide around a full or empty ring.
Stored == count + IF pc[Main] = "scount" THEN 1 ELSE 0

RingLinear == tail = head + Stored \/ tail + Capacity = head + Stored

PoolInv ==
  /\ TypeOK
  /\ HolderIsInside
  /\ TakerHasWork
  /\ StorerHasRoom
  /\ FreedIsOver
  /\ RingLinear
  /\ SubmitterNotForgotten

USE CapacityAssumption, ThreadAssumption, NobodyAssumption, NoFdAssumption,
    SpuriousAssumption
    DEF CapacityAssumption, ThreadAssumption, NobodyAssumption, NoFdAssumption,
        SpuriousAssumption

\* Wrapping an index that is at most one past the end.
LEMMA WrapOnce ==
  ASSUME NEW n \in 0..2 * Capacity - 1
  PROVE  n % Capacity = IF n < Capacity THEN n ELSE n - Capacity
  OBVIOUS

\* The index behind i in the ring.
LEMMA NextIndex ==
  ASSUME NEW i \in 0..Capacity - 1
  PROVE  /\ (i + 1) % Capacity \in 0..Capacity - 1
         /\ (i + 1) % Capacity = IF i + 1 = Capacity THEN 0 ELSE i + 1
  BY WrapOnce

\* thread_pool_init establishes PoolInv.
LEMMA InitInv == Init => PoolInv
<1> SUFFICES ASSUME Init PROVE PoolInv
  OBVIOUS
<1> USE DEF Init, Threads
<1>1. TypeOK
  <2>1. fds \in [0..Capacity - 1 -> Fds \cup {NoFd}]
    OBVIOUS
  <2>2. head \in 0..Capacity - 1 /\ tail \in 0..Capacity - 1 /\ count \in 0..Capacity
    OBVIOUS
  <2>3. stopping \in BOOLEAN /\ alive \in BOOLEAN
    BY Zenon
  <2>4. /\ pc \in [Threads -> WorkerPcs \cup MainPcs]
        /\ \A w \in Workers : pc[w] \in WorkerPcs
        /\ pc[Main] \in MainPcs
    BY DEF WorkerPcs, MainPcs
  <2>5. cfd \in [Threads -> Fds \cup {NoFd}] /\ open \in SUBSET Fds
    OBVIOUS
  <2>6. mutex \in Threads \cup {Nobody} /\ spurious \in 0..MaxSpurious
    OBVIOUS
  <2> QED
    BY <2>1, <2>2, <2>3, <2>4, <2>5, <2>6 DEF TypeOK
<1>2. HolderIsInside
  BY DEF HolderIsInside, CriticalPcs
<1>3. TakerHasWork /\ StorerHasRoom
  BY DEF TakerHasWork, StorerHasRoom
<1>4. FreedIsOver
  BY DEF FreedIsOver
<1>5. RingLinear /\ SubmitterNotForgotten
  BY DEF RingLinear, Stored, SubmitterNotForgotten
<1> QED
  BY <1>1, <1>2, <1>3, <1>4, <1>5 DEF PoolInv

\* Every step keeps PoolInv.
LEMMA NextInv == PoolInv /\ [Next]_vars => PoolInv'
<1> SUFFICES ASSUME PoolInv, [Next]_vars PROVE PoolInv'
  OBVIOUS
<1> USE DEF PoolInv, TypeOK, HolderIsInside, TakerHasWork, StorerHasRoom,
        FreedIsOver, RingLinear, Stored, SubmitterNotForgotten, AllJoined,
        Threads, CriticalPcs, WorkerPcs, MainPcs, ring
<1>1. CASE InitFail
  BY <1>1, WrapOnce DEF InitFail
<1>2. CASE CreateFail
  BY <1>2, WrapOnce DEF CreateFail
<1>3. CASE ShutdownCall
  BY <1>3, WrapOnce DEF ShutdownCall
<1>4. CASE SubmitLock
  BY <1>4, WrapOnce DEF SubmitLock, Lock, MutexFree
<1>5. CASE SubmitRelock
  BY <1>5, WrapOnce DEF SubmitRelock, Lock, MutexFree
<1>6. CASE SubmitWait
  BY <1>6, WrapOnce DEF SubmitWait, SubmitMustWait
<1>7. CASE SubmitStore
  <2>1. TypeOK'
    <3>1. tail' \in 0..Capacity - 1
      BY <1>7, NextIndex DEF SubmitStore
    <3>2. fds' \in [0..Capacity - 1 -> Fds \cup {NoFd}]
      BY <1>7 DEF SubmitStore
    <3> QED
      BY <1>7, <3>1, <3>2 DEF SubmitStore
  <2>2. HolderIsInside'
    BY <1>7 DEF SubmitStore, SubmitMustWait
  <2>3. TakerHasWork'
    BY <1>7 DEF SubmitStore, SubmitMustWait
  <2>4. StorerHasRoom'
    BY <1>7 DEF SubmitStore, SubmitMustWait
  <2>5. FreedIsOver'
    BY <1>7 DEF SubmitStore, SubmitMustWait
  <2>6. RingLinear'
    <3>1. CASE stopping
      BY <1>7, <3>1 DEF SubmitStore
    <3>2. CASE ~stopping
      <4>1. tail' = IF tail + 1 = Capacity THEN 0 ELSE tail + 1
        BY <1>7, <3>2, NextIndex DEF SubmitStore
      <4>2. /\ head' = head /\ count' = count
            /\ pc[Main] = "stest" /\ pc'[Main] = "scount"
        BY <1>7, <3>2 DEF SubmitStore
      <4>3. count < Capacity
        BY <1>7, <3>2 DEF SubmitStore, SubmitMustWait
      <4> QED
        BY <4>1, <4>2, <4>3
    <3> QED
      BY <3>1, <3>2
  <2>7. SubmitterNotForgotten'
    BY <1>7 DEF SubmitStore, SubmitMustWait
  <2> QED
    BY <2>1, <2>2, <2>3, <2>4, <2>5, <2>6, <2>7
<1>8. CASE SubmitCount
  <2>1. TypeOK'
    <3>1. count' \in 0..Capacity
      BY <1>8 DEF SubmitCount
    <3>2. pc' \in [Threads -> WorkerPcs \cup MainPcs]
      BY <1>8 DEF SubmitCount, SignalNotEmpty, Sleepers
    <3>3. \A w \in Workers : pc'[w] \in WorkerPcs
      BY <1>8 DEF SubmitCount, SignalNotEmpty, Sleepers
    <3>4. pc'[Main] \in MainPcs
      BY <1>8 DEF SubmitCount, SignalNotEmpty, Sleepers
    <3> QED
      BY <1>8, <3>1, <3>2, <3>3, <3>4 DEF SubmitCount
  <2>2. HolderIsInside'
    BY <1>8 DEF SubmitCount, SignalNotEmpty, Sleepers
  <2>3. TakerHasWork'
    BY <1>8 DEF SubmitCount, SignalNotEmpty, Sleepers
  <2>4. StorerHasRoom'
    BY <1>8 DEF SubmitCount, SignalNotEmpty, Sleepers
  <2>5. FreedIsOver'
    BY <1>8 DEF SubmitCount, SignalNotEmpty, Sleepers
  <2>6. RingLinear'
    BY <1>8, WrapOnce DEF SubmitCount, SignalNotEmpty, Sleepers
  <2>7. SubmitterNotForgotten'
    BY <1>8 DEF SubmitCount, SignalNotEmpty, Sleepers
  <2> QED
    BY <2>1, <2>2, <2>3, <2>4, <2>5, <2>6, <2>7
<1>9. CASE SubmitUnlock
  BY <1>9, WrapOnce DEF SubmitUnlock
<1>10. CASE ShutdownLock
  BY <1>10, WrapOnce DEF ShutdownLock, Lock, MutexFree
<1>11. CASE ShutdownStop
  BY <1>11, WrapOnce DEF ShutdownStop
<1>12. CASE ShutdownBroadcast
  BY <1>12, WrapOnce DEF ShutdownBroadcast, Woken
<1>13. CASE ShutdownFree
  <2>1. TypeOK'
    <3>1. alive' \in BOOLEAN /\ stopping' \in BOOLEAN
      BY <1>13, Zenon DEF ShutdownFree
    <3>2. /\ fds' \in [0..Capacity - 1 -> Fds \cup {NoFd}]
          /\ head' = 0 /\ tail' = 0 /\ count' = 0
      BY <1>13 DEF ShutdownFree
    <3> QED
      BY <1>13, <3>1, <3>2 DEF ShutdownFree
  <2>2. HolderIsInside'
    BY <1>13 DEF ShutdownFree, AllJoined
  <2>3. TakerHasWork'
    BY <1>13 DEF ShutdownFree, AllJoined
  <2>4. StorerHasRoom'
    BY <1>13 DEF ShutdownFree, AllJoined
  <2>5. FreedIsOver'
    BY <1>13 DEF ShutdownFree, AllJoined
  <2>6. RingLinear'
    BY <1>13, WrapOnce DEF ShutdownFree, AllJoined
  <2>7. SubmitterNotForgotten'
    BY <1>13 DEF ShutdownFree, AllJoined
  <2> QED
    BY <2>1, <2>2, <2>3, <2>4, <2>5, <2>6, <2>7
<1>14. CASE Terminated
  BY <1>14, WrapOnce DEF Terminated, vars
<1>15. ASSUME NEW w \in Workers, CreateWorker(w) PROVE PoolInv'
  BY <1>15, WrapOnce DEF CreateWorker
<1>16. ASSUME NEW w \in Workers, WorkerLock(w) PROVE PoolInv'
  BY <1>16, WrapOnce DEF WorkerLock, Lock, MutexFree
<1>17. ASSUME NEW w \in Workers, WorkerRelock(w) PROVE PoolInv'
  BY <1>17, WrapOnce DEF WorkerRelock, Lock, MutexFree
<1>18. ASSUME NEW w \in Workers, WorkerWait(w) PROVE PoolInv'
  BY <1>18, WrapOnce DEF WorkerWait, WorkerMustWait
<1>19. ASSUME NEW w \in Workers, WorkerExit(w) PROVE PoolInv'
  BY <1>19, WrapOnce DEF WorkerExit, WorkerMustWait, WorkerMayExit
<1>20. ASSUME NEW w \in Workers, WorkerTake(w) PROVE PoolInv'
  <2>1. TypeOK'
    BY <1>20, WrapOnce DEF WorkerTake, OldestQueued, WorkerMustWait, WorkerMayExit
  <2>2. HolderIsInside'
    BY <1>20 DEF WorkerTake, OldestQueued, WorkerMustWait, WorkerMayExit
  <2>3. TakerHasWork'
    BY <1>20 DEF WorkerTake, OldestQueued, WorkerMustWait, WorkerMayExit
  <2>4. StorerHasRoom'
    BY <1>20 DEF WorkerTake, OldestQueued, WorkerMustWait, WorkerMayExit
  <2>5. FreedIsOver'
    BY <1>20 DEF WorkerTake, OldestQueued, WorkerMustWait, WorkerMayExit
  <2>6. RingLinear'
    BY <1>20, WrapOnce DEF WorkerTake, OldestQueued, WorkerMustWait, WorkerMayExit
  <2>7. SubmitterNotForgotten'
    BY <1>20 DEF WorkerTake, OldestQueued, WorkerMustWait, WorkerMayExit
  <2> QED
    BY <2>1, <2>2, <2>3, <2>4, <2>5, <2>6, <2>7
<1>21. ASSUME NEW w \in Workers, WorkerAdvance(w) PROVE PoolInv'
  <2>1. TypeOK'
    <3>1. head' \in 0..Capacity - 1 /\ count' \in 0..Capacity
      BY <1>21, NextIndex DEF WorkerAdvance, HeadAdvanced
    <3> QED
      BY <1>21, <3>1 DEF WorkerAdvance, HeadAdvanced
  <2>2. HolderIsInside'
    BY <1>21 DEF WorkerAdvance, HeadAdvanced
  <2>3. TakerHasWork'
    BY <1>21 DEF WorkerAdvance, HeadAdvanced
  <2>4. StorerHasRoom'
    BY <1>21 DEF WorkerAdvance, HeadAdvanced
  <2>5. FreedIsOver'
    BY <1>21 DEF WorkerAdvance, HeadAdvanced
  <2>6. RingLinear'
    <3>1. head' = IF head + 1 = Capacity THEN 0 ELSE head + 1
      BY <1>21, NextIndex DEF WorkerAdvance, HeadAdvanced
    <3>2. count > 0 /\ count' = count - 1 /\ tail' = tail /\ pc'[Main] = pc[Main]
      BY <1>21 DEF WorkerAdvance, HeadAdvanced
    <3> QED
      BY <3>1, <3>2
  <2>7. SubmitterNotForgotten'
    BY <1>21 DEF WorkerAdvance, HeadAdvanced
  <2> QED
    BY <2>1, <2>2, <2>3, <2>4, <2>5, <2>6, <2>7
<1>22. ASSUME NEW w \in Workers, WorkerSignal(w) PROVE PoolInv'
  <2>1. TypeOK'
    BY <1>22 DEF WorkerSignal, SignalNotFull
  <2>2. HolderIsInside'
    BY <1>22 DEF WorkerSignal, SignalNotFull
  <2>3. TakerHasWork'
    BY <1>22 DEF WorkerSignal, SignalNotFull
  <2>4. StorerHasRoom'
    BY <1>22 DEF WorkerSignal, SignalNotFull
  <2>5. FreedIsOver'
    BY <1>22 DEF WorkerSignal, SignalNotFull
  <2>6. RingLinear'
    BY <1>22 DEF WorkerSignal, SignalNotFull
  <2>7. SubmitterNotForgotten'
    BY <1>22 DEF WorkerSignal, SignalNotFull
  <2> QED
    BY <2>1, <2>2, <2>3, <2>4, <2>5, <2>6, <2>7
<1>23. ASSUME NEW w \in Workers, HandlerReturn(w) PROVE PoolInv'
  BY <1>23, WrapOnce DEF HandlerReturn
<1>24. ASSUME NEW fd \in Fds, SubmitCall(fd) PROVE PoolInv'
  BY <1>24 DEF SubmitCall
<1>25. ASSUME NEW t \in Threads, SpuriousWake(t) PROVE PoolInv'
  BY <1>25 DEF SpuriousWake
<1>26. CASE UNCHANGED vars
  BY <1>26 DEF vars
<1> QED
  BY <1>1, <1>2, <1>3, <1>4, <1>5, <1>6, <1>7, <1>8, <1>9, <1>10, <1>11, <1>12, <1>13, <1>14, <1>15, <1>16, <1>17, <1>18, <1>19, <1>20, <1>21, <1>22, <1>23, <1>24, <1>25, <1>26
     DEF Next, WorkerStep, SubmitStep, ShutdownStep

\* The pool's inductive invariant (types, lock ownership, shape of the ring and
\* the pending wake-ups) holds in every reachable state.
THEOREM PoolInvariant == Spec => []PoolInv
  BY InitInv, NextInv, PTL DEF Spec

\* The fields of the pool keep their types for every behaviour: the indices stay
\* inside the ring and count stays within queue_capacity, without underflow.
THEOREM TypeCorrect == Spec => []TypeOK
  BY PoolInvariant, PTL DEF PoolInv

\* No two threads are between a lock and its unlock at the same time.
THEOREM Exclusion == Spec => []MutualExclusion
<1>1. PoolInv => MutualExclusion
  BY DEF PoolInv, HolderIsInside, MutualExclusion
<1> QED
  BY <1>1, PoolInvariant, PTL

\* The tail is where the queued descriptors end, through every wrap of the ring.
THEOREM RingKeepsShape == Spec => []RingShape
<1>1. PoolInv => RingShape
  <2> SUFFICES ASSUME PoolInv PROVE RingShape
    OBVIOUS
  <2> DEFINE end == head + Stored
  <2>1. head \in 0..Capacity - 1 /\ tail \in 0..Capacity - 1 /\ Stored \in 0..Capacity
    BY DEF PoolInv, TypeOK, StorerHasRoom, Stored
  <2>2. end \in 0..2 * Capacity - 1
    BY <2>1
  <2>3. end % Capacity = IF end < Capacity THEN end ELSE end - Capacity
    BY <2>2, WrapOnce
  <2>4. tail = end % Capacity
    BY <2>1, <2>3 DEF PoolInv, RingLinear
  <2>5. end = head + count + IF pc[Main] = "scount" THEN 1 ELSE 0
    BY DEF Stored, PoolInv, TypeOK
  <2> QED
    BY <2>4, <2>5 DEF RingShape
<1> QED
  BY <1>1, PoolInvariant, PTL

\* The submitter never sleeps on a ring that has room unless a signal is coming.
THEOREM SubmitterIsWoken == Spec => []SubmitterNotForgotten
  BY PoolInvariant, PTL DEF PoolInv

\* No worker runs on a pool whose memory has been freed.
THEOREM FreedPoolIsQuiet == Spec => []NoUseAfterFree
<1>1. PoolInv => NoUseAfterFree
  BY DEF PoolInv, FreedIsOver, AllJoined, NoUseAfterFree
<1> QED
  BY <1>1, PoolInvariant, PTL

-----------------------------------------------------------------------------
(* No wake-up of a worker is lost.                                         *)

\* Attentive workers can be counted, and a larger set of them counts for more.
LEMMA AttentiveCount ==
  ASSUME NEW A \in SUBSET Workers, NEW B \in SUBSET A
  PROVE  /\ IsFiniteSet(A) /\ IsFiniteSet(B)
         /\ Cardinality(A) \in Nat /\ Cardinality(B) \in Nat
         /\ Cardinality(B) <= Cardinality(A)
<1>1. IsFiniteSet(A)
  BY FS_Subset
<1>2. IsFiniteSet(B) /\ Cardinality(B) <= Cardinality(A)
  BY <1>1, FS_Subset
<1> QED
  BY <1>1, <1>2, FS_CardinalityType

\* A step keeps WorkConserved when no attentive worker turns away, nothing is
\* queued and nobody falls asleep in it.
LEMMA ConservedByMore ==
  ASSUME WorkConserved, TypeOK, TypeOK', count' <= count,
         \A w \in Workers : pc[w] \in {"lock", "relock", "test", "advance"}
                              => pc'[w] \in {"lock", "relock", "test", "advance"},
         \A w \in Workers : pc'[w] = "asleep" => pc[w] = "asleep"
  PROVE  WorkConserved'
<1>1. Attentive' \in SUBSET Workers /\ Attentive \in SUBSET Attentive'
  BY DEF Attentive
<1> HIDE DEF Attentive
<1>2. /\ Cardinality(Attentive) <= Cardinality(Attentive')
      /\ Cardinality(Attentive) \in Nat /\ Cardinality(Attentive') \in Nat
  BY <1>1, AttentiveCount
<1>3. Sleepers' # {} => Sleepers # {}
  BY DEF Sleepers
<1>4. count \in Nat /\ count' \in Nat
  BY DEF TypeOK
<1> QED
  BY <1>2, <1>3, <1>4 DEF WorkConserved

\* Nothing is asked of the workers while nothing is queued.
LEMMA ConservedByEmptiness ==
  ASSUME count' = 0 PROVE WorkConserved'
<1>1. Attentive' \in SUBSET Workers
  BY DEF Attentive
<1>2. Cardinality(Attentive') \in Nat
  BY <1>1, AttentiveCount
<1> QED
  BY <1>2 DEF WorkConserved

\* Every step keeps WorkConserved: a signal that reaches a sleeper adds one
\* attentive worker for the descriptor it announces, and a worker that turns
\* away from the ring takes one descriptor with it.
LEMMA ConservedNext ==
  PoolInv /\ PoolInv' /\ WorkConserved /\ [Next]_vars => WorkConserved'
<1> SUFFICES ASSUME PoolInv, PoolInv', WorkConserved, [Next]_vars
             PROVE  WorkConserved'
  OBVIOUS
<1> USE DEF PoolInv, Threads
<1>t. TypeOK /\ TypeOK' /\ count \in Int
  BY DEF TypeOK
<1>p. pc \in [Threads -> WorkerPcs \cup MainPcs] /\ pc[Main] \in MainPcs
  BY DEF TypeOK
<1>1. CASE InitFail
  BY <1>t, <1>p, <1>1, ConservedByMore DEF InitFail, ring
<1>2. CASE CreateFail
  BY <1>t, <1>p, <1>2, ConservedByMore DEF CreateFail, ring
<1>3. CASE ShutdownCall
  BY <1>t, <1>p, <1>3, ConservedByMore DEF ShutdownCall, ring
<1>4. CASE SubmitLock \/ SubmitRelock \/ ShutdownLock
  BY <1>t, <1>p, <1>4, ConservedByMore DEF SubmitLock, SubmitRelock, ShutdownLock, Lock, ring
<1>5. CASE SubmitWait \/ SubmitUnlock
  BY <1>t, <1>p, <1>5, ConservedByMore DEF SubmitWait, SubmitUnlock, ring
<1>6. CASE SubmitStore
  BY <1>t, <1>p, <1>6, ConservedByMore DEF SubmitStore
<1>7. CASE SubmitCount
  <2>1. CASE Sleepers = {}
    <3>1. Sleepers' = {}
      BY <1>p, <1>7, <2>1 DEF SubmitCount, SignalNotEmpty, Sleepers
    <3> QED
      BY <3>1 DEF WorkConserved
  <2>2. CASE Sleepers # {}
    <3>1. PICK w \in Sleepers : pc' = [[pc EXCEPT ![Main] = "sunlock"] EXCEPT ![w] = "relock"]
      BY <1>7, <2>2 DEF SubmitCount, SignalNotEmpty
    <3>2. Attentive' = Attentive \cup {w} /\ w \notin Attentive
      BY <1>p, <3>1 DEF Attentive, Sleepers
    <3>3. Attentive \in SUBSET Workers
      BY DEF Attentive
    <3> HIDE DEF Attentive
    <3>4. IsFiniteSet(Attentive) /\ Cardinality(Attentive) \in Nat
      BY <3>3, AttentiveCount
    <3>5. Cardinality(Attentive \cup {w}) = Cardinality(Attentive) + 1
      BY <3>2, <3>4, FS_AddElement
    <3>6. count <= Cardinality(Attentive) /\ count' = count + 1
      BY <1>7, <2>2 DEF WorkConserved, SubmitCount
    <3> QED
      BY <1>t, <3>2, <3>4, <3>5, <3>6 DEF WorkConserved
  <2> QED
    BY <2>1, <2>2
<1>8. CASE ShutdownStop
  BY <1>t, <1>p, <1>8, ConservedByMore DEF ShutdownStop, ring
<1>9. CASE ShutdownBroadcast
  <2>1. Sleepers' = {}
    BY <1>9 DEF ShutdownBroadcast, Woken, Sleepers
  <2> QED
    BY <2>1 DEF WorkConserved
<1>10. CASE ShutdownFree
  BY <1>10, ConservedByEmptiness DEF ShutdownFree
<1>11. CASE Terminated \/ UNCHANGED vars
  BY <1>t, <1>11, ConservedByMore DEF Terminated, vars
<1>12. ASSUME NEW w \in Workers, CreateWorker(w) PROVE WorkConserved'
  BY <1>t, <1>p, <1>12, ConservedByMore DEF CreateWorker, ring
<1>13. ASSUME NEW w \in Workers, WorkerLock(w) \/ WorkerRelock(w)
       PROVE  WorkConserved'
  BY <1>t, <1>p, <1>13, ConservedByMore DEF WorkerLock, WorkerRelock, Lock, ring
<1>14. ASSUME NEW w \in Workers, WorkerWait(w) \/ WorkerExit(w)
       PROVE  WorkConserved'
  BY <1>14, ConservedByEmptiness
     DEF WorkerWait, WorkerExit, WorkerMustWait, WorkerMayExit, ring
<1>15. ASSUME NEW w \in Workers, WorkerTake(w) PROVE WorkConserved'
  BY <1>t, <1>p, <1>15, ConservedByMore DEF WorkerTake, ring
<1>16. ASSUME NEW w \in Workers, WorkerAdvance(w) PROVE WorkConserved'
  <2>1. Attentive' = Attentive \ {w} /\ w \in Attentive
    BY <1>p, <1>16 DEF WorkerAdvance, Attentive
  <2>2. Sleepers' = Sleepers
    BY <1>p, <1>16 DEF WorkerAdvance, Sleepers
  <2>3. Attentive \in SUBSET Workers
    BY DEF Attentive
  <2> HIDE DEF Attentive
  <2>4. IsFiniteSet(Attentive) /\ Cardinality(Attentive) \in Nat
    BY <2>3, AttentiveCount
  <2>5. Cardinality(Attentive \ {w}) = Cardinality(Attentive) - 1
    BY <2>1, <2>4, FS_RemoveElement
  <2> QED
    BY <1>t, <1>16, <2>1, <2>2, <2>4, <2>5 DEF WorkConserved, WorkerAdvance
<1>17. ASSUME NEW w \in Workers, WorkerSignal(w) PROVE WorkConserved'
  BY <1>t, <1>p, <1>17, ConservedByMore DEF WorkerSignal, SignalNotFull, ring
<1>18. ASSUME NEW w \in Workers, HandlerReturn(w) PROVE WorkConserved'
  BY <1>t, <1>p, <1>18, ConservedByMore DEF HandlerReturn, ring
<1>19. ASSUME NEW fd \in Fds, SubmitCall(fd) PROVE WorkConserved'
  BY <1>t, <1>p, <1>19, ConservedByMore DEF SubmitCall, ring
<1>20. ASSUME NEW t \in Threads, SpuriousWake(t) PROVE WorkConserved'
  BY <1>t, <1>p, <1>20, ConservedByMore DEF SpuriousWake, ring
<1> QED
  BY <1>1, <1>2, <1>3, <1>4, <1>5, <1>6, <1>7, <1>8, <1>9, <1>10, <1>11, <1>12,
     <1>13, <1>14, <1>15, <1>16, <1>17, <1>18, <1>19, <1>20
     DEF Next, WorkerStep, SubmitStep, ShutdownStep

\* While any worker sleeps on not_empty, every queued descriptor has an awake
\* worker of its own coming for it, for any number of workers and any capacity:
\* one signal per submission is enough.
THEOREM NoWakeUpIsLost == Spec => []WorkConserved
<1>1. Init => WorkConserved
  <2>1. ASSUME Init PROVE Sleepers = {}
    BY <2>1 DEF Init, Sleepers, Threads
  <2> QED
    BY <2>1 DEF WorkConserved
<1> QED
  BY <1>1, ConservedNext, PoolInvariant, PTL DEF Spec

-----------------------------------------------------------------------------
(***************************************************************************)
(* Descriptors and their owners.  The ring is described by the set of      *)
(* occupied slots instead of by positions modulo the capacity: taking the  *)
(* head removes one slot from the set, counting a stored descriptor adds   *)
(* one, and everything else is linear arithmetic.                          *)
(***************************************************************************)
\* The slots that hold a queued descriptor.
Occupied ==
  {s \in 0..Capacity - 1 : (head <= s /\ s < head + count) \/ s + Capacity < head + count}

\* The slot behind which the tail stands.
LastSlot == IF tail = 0 THEN Capacity - 1 ELSE tail - 1

\* The places where Main has a descriptor in its hand.
SubmitPcs == {"slock", "stest", "sasleep", "srelock", "scount", "sunlock"}

\* The places where shutdown has set `stopping` and not yet zeroed the pool.
StoppedPcs == {"dbroadcast", "djoin"}

\* A thread has a descriptor exactly while its code says so.
HandsMatchPlaces ==
  /\ \A w \in Workers : cfd[w] # NoFd => pc[w] \in {"advance", "signal", "handle"}
  /\ cfd[Main] # NoFd => pc[Main] \in SubmitPcs
  /\ pc[Main] \in SubmitPcs \ {"sunlock"} => cfd[Main] # NoFd
  /\ \A w \in Workers : pc[w] = "advance" => cfd[w] = fds[head]
  /\ pc[Main] = "scount" => cfd[Main] = fds[LastSlot]

\* What is queued or in a hand is open, and what is open is queued or in a hand.
OpenIsOwned ==
  /\ \A s \in Occupied : fds[s] \in open
  /\ \A t \in Threads : cfd[t] # NoFd => cfd[t] \in open
  /\ \A fd \in open : \/ \E s \in Occupied : fds[s] = fd
                      \/ \E t \in Threads : cfd[t] = fd /\ pc[t] # "advance"

\* No descriptor is in two places.
PlacesDiffer ==
  /\ \A s, r \in Occupied : fds[s] = fds[r] => s = r
  /\ \A s \in Occupied, t \in Threads : fds[s] = cfd[t] => pc[t] = "advance"
  /\ \A t, u \in Threads :
       cfd[t] = cfd[u] /\ cfd[t] # NoFd /\ pc[t] # "advance" /\ pc[u] # "advance"
         => t = u

\* A worker leaves, or was never born, only where nothing is left to do.
LeaversLeaveNothing ==
  /\ stopping => pc[Main] \in StoppedPcs
  /\ \A w \in Workers : pc[w] = "exited" => pc[Main] \in {"djoin", "done"} /\ count = 0
  /\ \A w \in Workers : pc[w] = "unborn" =>
       pc[Main] \notin SubmitPcs \cup {"idle"} /\ count = 0 /\ open = {}
  /\ pc[Main] = "starting" => count = 0 /\ open = {}
  /\ ~alive => open = {}

OwnInv ==
  /\ HandsMatchPlaces
  /\ OpenIsOwned
  /\ PlacesDiffer
  /\ LeaversLeaveNothing
HIDE SpuriousAssumption DEF SpuriousAssumption

\* A step that leaves the ring alone leaves the occupied slots alone.
LEMMA RingUnchanged ==
  ASSUME UNCHANGED ring
  PROVE  Occupied' = Occupied /\ LastSlot' = LastSlot /\ count' = count
  BY DEF ring, Occupied, LastSlot

\* The head of a ring that is not empty is occupied.
LEMMA HeadIsOccupied ==
  ASSUME PoolInv, count > 0
  PROVE  head \in Occupied
  BY DEF PoolInv, TypeOK, Occupied

\* Taking the head frees exactly its slot.
LEMMA TakeHead ==
  ASSUME PoolInv, count > 0, head' = (head + 1) % Capacity, count' = count - 1
  PROVE  head \in Occupied /\ Occupied' = Occupied \ {head}
<1>1. head \in 0..Capacity - 1 /\ count \in 0..Capacity
  BY DEF PoolInv, TypeOK
<1>2. head' = IF head + 1 = Capacity THEN 0 ELSE head + 1
  BY <1>1, NextIndex
<1> QED
  BY <1>1, <1>2 DEF Occupied

\* The tail of a ring that is not full points to a free slot.
LEMMA TailIsFree ==
  ASSUME PoolInv, pc[Main] # "scount", count < Capacity
  PROVE  tail \notin Occupied
  BY DEF PoolInv, TypeOK, RingLinear, Stored, Occupied

\* Counting a stored descriptor occupies exactly its slot.
LEMMA CountLast ==
  ASSUME PoolInv, pc[Main] = "scount", head' = head, count' = count + 1
  PROVE  LastSlot \notin Occupied /\ Occupied' = Occupied \cup {LastSlot}
<1>1. /\ head \in 0..Capacity - 1 /\ tail \in 0..Capacity - 1
      /\ count \in 0..Capacity - 1
      /\ tail = head + count + 1 \/ tail + Capacity = head + count + 1
  BY DEF PoolInv, TypeOK, StorerHasRoom, RingLinear, Stored
<1> QED
  BY <1>1 DEF Occupied, LastSlot

\* thread_pool_init leaves nobody in charge of any descriptor, and none open.
LEMMA OwnInit == Init => OwnInv
<1> SUFFICES ASSUME Init PROVE OwnInv
  OBVIOUS
<1> USE DEF Init, Threads, SubmitPcs, StoppedPcs
<1>1. Occupied = {}
  BY DEF Occupied
<1>2. HandsMatchPlaces
  BY DEF HandsMatchPlaces
<1>3. OpenIsOwned /\ PlacesDiffer
  BY <1>1 DEF OpenIsOwned, PlacesDiffer
<1>4. LeaversLeaveNothing
  BY DEF LeaversLeaveNothing
<1> QED
  BY <1>2, <1>3, <1>4 DEF OwnInv

\* Every step keeps OwnInv.
LEMMA OwnNext == PoolInv /\ PoolInv' /\ OwnInv /\ [Next]_vars => OwnInv'
<1> SUFFICES ASSUME PoolInv, PoolInv', OwnInv, [Next]_vars PROVE OwnInv'
  OBVIOUS
<1> USE DEF PoolInv, TypeOK, HolderIsInside, TakerHasWork, StorerHasRoom,
        FreedIsOver, AllJoined, Threads, CriticalPcs, WorkerPcs, MainPcs,
        OwnInv, HandsMatchPlaces, OpenIsOwned, PlacesDiffer,
        LeaversLeaveNothing, SubmitPcs, StoppedPcs
<1>1. CASE InitFail
  BY <1>1, RingUnchanged DEF InitFail, ring
<1>2. CASE CreateFail
  BY <1>2, RingUnchanged DEF CreateFail, ring
<1>3. CASE ShutdownCall
  BY <1>3, RingUnchanged DEF ShutdownCall, ring
<1>4. CASE SubmitLock
  BY <1>4, RingUnchanged DEF SubmitLock, Lock, MutexFree, ring
<1>5. CASE SubmitRelock
  BY <1>5, RingUnchanged DEF SubmitRelock, Lock, MutexFree, ring
<1>6. CASE SubmitWait
  BY <1>6, RingUnchanged DEF SubmitWait, SubmitMustWait, ring
<1>7. CASE SubmitStore
  <2>a. ~stopping /\ count < Capacity /\ tail \notin Occupied
    BY <1>7, TailIsFree DEF SubmitStore, SubmitMustWait
  <2>b. Occupied' = Occupied /\ LastSlot' = tail
    <3>1. tail' = IF tail + 1 = Capacity THEN 0 ELSE tail + 1
      BY <1>7, <2>a, NextIndex DEF SubmitStore
    <3>2. head' = head /\ count' = count
      BY <1>7 DEF SubmitStore
    <3>3. LastSlot' = tail
      BY <3>1 DEF LastSlot
    <3> QED
      BY <3>2, <3>3 DEF Occupied
  <2>c. fds' = [fds EXCEPT ![tail] = cfd[Main]]
    BY <1>7, <2>a DEF SubmitStore
  <2>d. \A s \in Occupied : s \in 0..Capacity - 1 /\ fds'[s] = fds[s]
    BY <2>a, <2>c DEF Occupied
  <2>1. HandsMatchPlaces'
    BY <1>7, <2>a, <2>b, <2>c, <2>d DEF SubmitStore
  <2>2. OpenIsOwned'
    BY <1>7, <2>a, <2>b, <2>c, <2>d DEF SubmitStore
  <2>3. PlacesDiffer'
    BY <1>7, <2>a, <2>b, <2>c, <2>d DEF SubmitStore
  <2>4. LeaversLeaveNothing'
    BY <1>7, <2>a, <2>b, <2>c, <2>d DEF SubmitStore
  <2> QED
    BY <2>1, <2>2, <2>3, <2>4
<1>8. CASE SubmitCount
  <2>a. LastSlot \notin Occupied /\ Occupied' = Occupied \cup {LastSlot}
    BY <1>8, CountLast DEF SubmitCount
  <2>b. /\ fds[LastSlot] = cfd[Main] /\ cfd[Main] # NoFd
        /\ LastSlot' = LastSlot /\ LastSlot \in 0..Capacity - 1
    BY <1>8 DEF SubmitCount, LastSlot
  <2>1. HandsMatchPlaces'
    BY <1>8, <2>a, <2>b DEF SubmitCount, SignalNotEmpty, Sleepers
  <2>2. OpenIsOwned'
    BY <1>8, <2>a, <2>b DEF SubmitCount, SignalNotEmpty, Sleepers
  <2>3. PlacesDiffer'
    BY <1>8, <2>a, <2>b DEF SubmitCount, SignalNotEmpty, Sleepers
  <2>4. LeaversLeaveNothing'
    BY <1>8, <2>a, <2>b DEF SubmitCount, SignalNotEmpty, Sleepers
  <2> QED
    BY <2>1, <2>2, <2>3, <2>4
<1>9. CASE SubmitUnlock
  <2>1. HandsMatchPlaces'
    BY <1>9, RingUnchanged DEF SubmitUnlock, ring
  <2>2. OpenIsOwned'
    BY <1>9, RingUnchanged DEF SubmitUnlock, ring
  <2>3. PlacesDiffer'
    BY <1>9, RingUnchanged DEF SubmitUnlock, ring
  <2>4. LeaversLeaveNothing'
    BY <1>9, RingUnchanged DEF SubmitUnlock, ring
  <2> QED
    BY <2>1, <2>2, <2>3, <2>4
<1>10. CASE ShutdownLock
  BY <1>10, RingUnchanged DEF ShutdownLock, Lock, MutexFree, ring
<1>11. CASE ShutdownStop
  BY <1>11, RingUnchanged DEF ShutdownStop, ring
<1>12. CASE ShutdownBroadcast
  BY <1>12, RingUnchanged DEF ShutdownBroadcast, Woken, ring
<1>13. CASE ShutdownFree
  <2>a. Occupied' = {}
    BY <1>13 DEF ShutdownFree, Occupied
  <2>b. open = {}
    <3>1. PICK w \in Workers : pc[w] \in {"unborn", "exited"}
      BY <1>13 DEF ShutdownFree
    <3>2. CASE pc[w] = "unborn"
      BY <3>2
    <3>3. CASE pc[w] = "exited"
      <4>1. count = 0 /\ pc[Main] = "djoin"
        BY <1>13, <3>3 DEF ShutdownFree
      <4>2. Occupied = {}
        BY <4>1 DEF Occupied
      <4>3. \A t \in Threads : cfd[t] = NoFd
        BY <1>13, <4>1 DEF ShutdownFree
      <4> QED
        BY <4>2, <4>3
    <3> QED
      BY <3>1, <3>2, <3>3
  <2>1. HandsMatchPlaces'
    BY <1>13, <2>a, <2>b DEF ShutdownFree
  <2>2. OpenIsOwned'
    BY <1>13, <2>a, <2>b DEF ShutdownFree
  <2>3. PlacesDiffer'
    BY <1>13, <2>a, <2>b DEF ShutdownFree
  <2>4. LeaversLeaveNothing'
    BY <1>13, <2>a, <2>b DEF ShutdownFree
  <2> QED
    BY <2>1, <2>2, <2>3, <2>4
<1>14. CASE Terminated
  BY <1>14, RingUnchanged DEF Terminated, vars, ring
<1>15. ASSUME NEW w \in Workers, CreateWorker(w) PROVE OwnInv'
  BY <1>15, RingUnchanged DEF CreateWorker, ring
<1>16. ASSUME NEW w \in Workers, WorkerLock(w) PROVE OwnInv'
  BY <1>16, RingUnchanged DEF WorkerLock, Lock, MutexFree, ring
<1>17. ASSUME NEW w \in Workers, WorkerRelock(w) PROVE OwnInv'
  BY <1>17, RingUnchanged DEF WorkerRelock, Lock, MutexFree, ring
<1>18. ASSUME NEW w \in Workers, WorkerWait(w) PROVE OwnInv'
  BY <1>18, RingUnchanged DEF WorkerWait, WorkerMustWait, ring
<1>19. ASSUME NEW w \in Workers, WorkerExit(w) PROVE OwnInv'
  BY <1>19, RingUnchanged DEF WorkerExit, WorkerMustWait, WorkerMayExit, ring
<1>20. ASSUME NEW w \in Workers, WorkerTake(w) PROVE OwnInv'
  <2>1. HandsMatchPlaces'
    BY <1>20, RingUnchanged DEF WorkerTake, OldestQueued, WorkerMustWait, WorkerMayExit, ring
  <2>2. OpenIsOwned'
    <3>1. head \in Occupied /\ fds[head] \in open
      BY <1>20, HeadIsOccupied DEF WorkerTake, OldestQueued, WorkerMustWait, WorkerMayExit
    <3>2. Occupied' = Occupied /\ fds' = fds /\ open' = open
      BY <1>20, RingUnchanged DEF WorkerTake, OldestQueued, ring
    <3>3. cfd[w] = NoFd
      BY <1>20 DEF WorkerTake, OldestQueued
    <3> QED
      BY <1>20, <3>1, <3>2, <3>3 DEF WorkerTake, OldestQueued
  <2>3. PlacesDiffer'
    BY <1>20, RingUnchanged DEF WorkerTake, OldestQueued, WorkerMustWait, WorkerMayExit, ring
  <2>4. LeaversLeaveNothing'
    BY <1>20, RingUnchanged DEF WorkerTake, OldestQueued, WorkerMustWait, WorkerMayExit, ring
  <2> QED
    BY <2>1, <2>2, <2>3, <2>4
<1>21. ASSUME NEW w \in Workers, WorkerAdvance(w) PROVE OwnInv'
  <2>a. head \in Occupied /\ Occupied' = Occupied \ {head}
    BY <1>21, TakeHead DEF WorkerAdvance, HeadAdvanced
  <2>1. HandsMatchPlaces'
    BY <1>21, <2>a DEF WorkerAdvance, HeadAdvanced
  <2>2. OpenIsOwned'
    BY <1>21, <2>a DEF WorkerAdvance, HeadAdvanced
  <2>3. PlacesDiffer'
    BY <1>21, <2>a DEF WorkerAdvance, HeadAdvanced
  <2>4. LeaversLeaveNothing'
    BY <1>21, <2>a DEF WorkerAdvance, HeadAdvanced
  <2> QED
    BY <2>1, <2>2, <2>3, <2>4
<1>22. ASSUME NEW w \in Workers, WorkerSignal(w) PROVE OwnInv'
  BY <1>22, RingUnchanged DEF WorkerSignal, SignalNotFull, ring
<1>23. ASSUME NEW w \in Workers, HandlerReturn(w) PROVE OwnInv'
  <2>1. HandsMatchPlaces'
    BY <1>23, RingUnchanged DEF HandlerReturn, ring
  <2>2. OpenIsOwned'
    <3>1. \A t \in Workers : pc[t] = "advance" => head \in Occupied /\ cfd[t] = fds[head]
      BY HeadIsOccupied
    <3>2. Occupied' = Occupied /\ fds' = fds
      BY <1>23, RingUnchanged DEF HandlerReturn, ring
    <3>3. \A s \in Occupied : fds[s] # cfd[w]
      BY <1>23 DEF HandlerReturn
    <3>4. \A t \in Threads \ {w} : cfd[t] # NoFd => cfd[t] # cfd[w]
      BY <1>23, <3>1, <3>3 DEF HandlerReturn
    <3>5. cfd'[w] = NoFd /\ \A t \in Threads \ {w} : cfd'[t] = cfd[t] /\ pc'[t] = pc[t]
      BY <1>23 DEF HandlerReturn
    <3>6. open' = open \ {cfd[w]}
      BY <1>23 DEF HandlerReturn
    <3> QED
      BY <3>2, <3>3, <3>4, <3>5, <3>6
  <2>3. PlacesDiffer'
    BY <1>23, RingUnchanged DEF HandlerReturn, ring
  <2>4. LeaversLeaveNothing'
    BY <1>23, RingUnchanged DEF HandlerReturn, ring
  <2> QED
    BY <2>1, <2>2, <2>3, <2>4
<1>24. ASSUME NEW fd \in Fds, SubmitCall(fd) PROVE OwnInv'
  <2>1. HandsMatchPlaces'
    BY <1>24, RingUnchanged DEF SubmitCall, ring
  <2>2. OpenIsOwned'
    BY <1>24, RingUnchanged DEF SubmitCall, ring
  <2>3. PlacesDiffer'
    BY <1>24, RingUnchanged DEF SubmitCall, ring
  <2>4. LeaversLeaveNothing'
    BY <1>24, RingUnchanged DEF SubmitCall, ring
  <2> QED
    BY <2>1, <2>2, <2>3, <2>4
<1>25. ASSUME NEW t \in Threads, SpuriousWake(t) PROVE OwnInv'
  BY <1>25, RingUnchanged DEF SpuriousWake, ring
<1>26. CASE UNCHANGED vars
  BY <1>26, RingUnchanged DEF vars, ring
<1> QED
  BY <1>1, <1>2, <1>3, <1>4, <1>5, <1>6, <1>7, <1>8, <1>9, <1>10, <1>11, <1>12, <1>13, <1>14, <1>15, <1>16, <1>17, <1>18, <1>19, <1>20, <1>21, <1>22, <1>23, <1>24, <1>25, <1>26
     DEF Next, WorkerStep, SubmitStep, ShutdownStep

\* The bookkeeping of descriptors by slot, thread and open set holds in every
\* reachable state of the pool.
THEOREM OwnershipInvariant == Spec => []OwnInv
<1>1. OwnInv /\ PoolInv /\ PoolInv' /\ [Next]_vars => OwnInv'
  BY OwnNext
<1> QED
  BY <1>1, OwnInit, PoolInvariant, PTL DEF Spec

\* When the pool's memory is freed, every accepted descriptor has been handled
\* and closed, whichever pthread_create failed.
THEOREM ShutdownIsGraceful == Spec => []ShutdownDrains
<1>1. OwnInv => ShutdownDrains
  BY DEF OwnInv, LeaversLeaveNothing, ShutdownDrains
<1> QED
  BY <1>1, OwnershipInvariant, PTL

-----------------------------------------------------------------------------
(* From slots back to positions, and to the count of owners.               *)

\* Wrapping a sum that is less than twice the capacity.
LEMMA WrapSum ==
  ASSUME NEW a \in 0..Capacity - 1, NEW b \in 0..Capacity - 1
  PROVE  (a + b) % Capacity = IF a + b < Capacity THEN a + b ELSE a + b - Capacity
  OBVIOUS

\* The first count positions behind the head are the occupied slots, each once.
LEMMA SlotsAreOccupied ==
  ASSUME PoolInv
  PROVE  /\ \A i \in 0..count - 1 : Slot(i) \in Occupied
         /\ \A i, j \in 0..count - 1 : Slot(i) = Slot(j) => i = j
         /\ \A s \in Occupied : \E i \in 0..count - 1 : Slot(i) = s
<1>1. head \in 0..Capacity - 1 /\ count \in 0..Capacity
  BY DEF PoolInv, TypeOK
<1>2. \A i \in 0..count - 1 :
        Slot(i) = IF head + i < Capacity THEN head + i ELSE head + i - Capacity
  BY <1>1, WrapSum DEF Slot
<1>3. \A i \in 0..count - 1 : Slot(i) \in Occupied
  BY <1>1, <1>2 DEF Occupied
<1>4. \A i, j \in 0..count - 1 : Slot(i) = Slot(j) => i = j
  BY <1>1, <1>2
<1>5. ASSUME NEW s \in Occupied
      PROVE  \E i \in 0..count - 1 : Slot(i) = s
  <2>1. s \in 0..Capacity - 1
    BY DEF Occupied
  <2>2. CASE head <= s /\ s < head + count
    <3>1. s - head \in 0..count - 1 /\ head + (s - head) = s
      BY <1>1, <2>1, <2>2
    <3>2. Slot(s - head) = s
      BY <1>1, <1>2, <2>1, <3>1
    <3> QED
      BY <3>1, <3>2
  <2>3. CASE s + Capacity < head + count /\ ~(head <= s /\ s < head + count)
    <3> DEFINE i == s + Capacity - head
    <3>1. i \in 0..count - 1 /\ head + i = s + Capacity
      BY <1>1, <2>1, <2>3
    <3>2. Slot(i) = s
      BY <1>1, <1>2, <2>1, <3>1
    <3> QED
      BY <3>1, <3>2
  <2> QED
    BY <2>2, <2>3 DEF Occupied
<1> QED
  BY <1>3, <1>4, <1>5

\* Any two owners of a descriptor are the same.
LEMMA OwnersAgree ==
  ASSUME PoolInv, OwnInv, NEW fd \in Fds, NEW a \in Owners(fd), NEW b \in Owners(fd)
  PROVE  a = b
<1> DEFINE hands == {u \in Threads : cfd[u] = fd /\ pc[u] # "advance"}
           places == {j \in 0..count - 1 : fds[Slot(j)] = fd}
<1>1. \A o \in Owners(fd) : (\E t \in hands : o = <<"thread", t>>)
                             \/ (\E i \in places : o = <<"slot", i>>)
  BY DEF Owners
<1>2. \A t, u \in hands : t = u
  BY DEF OwnInv, PlacesDiffer
<1>3. \A i, j \in places : i = j
  BY SlotsAreOccupied DEF OwnInv, PlacesDiffer
<1>4. hands = {} \/ places = {}
  BY SlotsAreOccupied DEF OwnInv, PlacesDiffer
<1> QED
  BY <1>1, <1>2, <1>3, <1>4

\* Every accepted descriptor is the responsibility of exactly one place until it
\* is closed, for any number of workers and any capacity: none is lost, served
\* twice or used after its close.
THEOREM ExactlyOneOwner == Spec => []OneOwner
<1>1. ASSUME PoolInv, OwnInv PROVE OneOwner
  <2> SUFFICES ASSUME NEW fd \in Fds
               PROVE  Cardinality(Owners(fd)) = IF fd \in open THEN 1 ELSE 0
    BY DEF OneOwner
  <2>1. CASE fd \in open
    <3>1. \E o : o \in Owners(fd)
      <4>1. CASE \E s \in Occupied : fds[s] = fd
        <5>1. PICK i \in 0..count - 1 : fds[Slot(i)] = fd
          BY <1>1, <4>1, SlotsAreOccupied
        <5> QED
          BY <5>1 DEF Owners
      <4>2. CASE \E t \in Threads : cfd[t] = fd /\ pc[t] # "advance"
        BY <4>2 DEF Owners
      <4> QED
        BY <1>1, <2>1, <4>1, <4>2 DEF OwnInv, OpenIsOwned
    <3>2. PICK o : o \in Owners(fd)
      BY <3>1
    <3>3. Owners(fd) = {o}
      BY <1>1, <3>2, OwnersAgree
    <3> QED
      BY <2>1, <3>3, FS_Singleton
  <2>2. CASE fd \notin open
    <3>1. Owners(fd) = {}
      BY <1>1, <2>2, SlotsAreOccupied DEF Owners, OwnInv, OpenIsOwned
    <3> QED
      BY <2>2, <3>1, FS_EmptySet
  <2> QED
    BY <2>1, <2>2
<1> QED
  BY <1>1, PoolInvariant, OwnershipInvariant, PTL

-----------------------------------------------------------------------------
(* The pool implements the bounded queue of FdQueue.                       *)

ServingPcs == {"signal", "handle"}

\* A worker that serves has a descriptor in its hand.
ServersHold == \A w \in Workers : pc[w] \in ServingPcs => cfd[w] # NoFd

\* Every step keeps ServersHold: the descriptor a worker takes out was queued.
LEMMA ServersNext ==
  PoolInv /\ OwnInv /\ ServersHold /\ [Next]_vars => ServersHold'
<1> SUFFICES ASSUME PoolInv, OwnInv, ServersHold, [Next]_vars,
                    NEW v \in Workers, pc'[v] \in ServingPcs
             PROVE  cfd'[v] # NoFd
  BY DEF ServersHold
<1> USE DEF Threads, ServingPcs
<1>p. /\ pc \in [Threads -> WorkerPcs \cup MainPcs] /\ pc[Main] \in MainPcs
      /\ cfd \in [Threads -> Fds \cup {NoFd}]
  BY DEF PoolInv, TypeOK
<1>h. pc[v] \in ServingPcs => cfd[v] # NoFd
  BY DEF ServersHold
<1>1. CASE pc[v] \in ServingPcs /\ cfd'[v] = cfd[v]
  BY <1>h, <1>1
<1>2. CASE ~(pc[v] \in ServingPcs /\ cfd'[v] = cfd[v])
  <2>1. WorkerAdvance(v)
    BY <1>p, <1>2, Zenon
       DEF Next, vars, ring, InitFail, CreateFail, CreateWorker, WorkerStep, WorkerLock,
           WorkerRelock, Lock, WorkerWait, WorkerExit, WorkerTake, WorkerAdvance,
           WorkerSignal, SignalNotFull, HandlerReturn, SubmitCall, SubmitStep,
           SubmitLock, SubmitRelock, SubmitWait, SubmitStore, SubmitCount,
           SignalNotEmpty, SubmitUnlock, ShutdownCall, ShutdownStep, ShutdownLock,
           ShutdownStop, ShutdownBroadcast, Woken, ShutdownFree, SpuriousWake, Terminated
  <2>2. cfd'[v] = cfd[v] /\ pc[v] = "advance" /\ count > 0
    BY <2>1 DEF WorkerAdvance, PoolInv, TakerHasWork
  <2>3. head \in Occupied /\ cfd[v] = fds[head]
    BY <2>2, HeadIsOccupied DEF OwnInv, HandsMatchPlaces
  <2>4. fds[head] \in open /\ open \in SUBSET Fds
    BY <2>3 DEF OwnInv, OpenIsOwned, PoolInv, TypeOK
  <2> QED
    BY <2>2, <2>3, <2>4
<1> QED
  BY <1>1, <1>2

\* Every serving worker holds a descriptor, in every reachable state.
LEMMA ServersInvariant == Spec => []ServersHold
<1>1. Init => ServersHold
  BY DEF Init, ServersHold, ServingPcs, Threads
<1> QED
  BY <1>1, ServersNext, PoolInvariant, OwnershipInvariant, PTL DEF Spec

\* The queued descriptors are a sequence of count descriptors, oldest first.
LEMMA WaitingIsSequence ==
  ASSUME PoolInv
  PROVE  /\ Waiting \in Seq(Fds \cup {NoFd})
         /\ Len(Waiting) = count
         /\ \A i \in 1..count : Waiting[i] = fds[Slot(i - 1)]
<1>1. head \in 0..Capacity - 1 /\ count \in 0..Capacity
      /\ fds \in [0..Capacity - 1 -> Fds \cup {NoFd}]
  BY DEF PoolInv, TypeOK
<1>2. \A i \in 1..count : Slot(i - 1) \in 0..Capacity - 1
  BY <1>1 DEF Slot
<1>3. \A i \in 1..count : fds[Slot(i - 1)] \in Fds \cup {NoFd}
  BY <1>1, <1>2
<1> QED
  BY <1>1, <1>3 DEF Waiting

\* The same in the next state.
LEMMA WaitingIsSequencePrime ==
  (PoolInv => Waiting \in Seq(Fds \cup {NoFd}) /\ Len(Waiting) = count)'
<1>1. PoolInv => Waiting \in Seq(Fds \cup {NoFd}) /\ Len(Waiting) = count
  BY WaitingIsSequence
<1> QED
  BY <1>1, PTL

\* A step that leaves the ring, the phase and the serving workers alone is not
\* visible as a step of the queue.
LEMMA HiddenFromQueue ==
  ASSUME UNCHANGED <<fds, head, count, stopping, alive>>,
         \A w \in Workers : /\ pc'[w] \in ServingPcs <=> pc[w] \in ServingPcs
                            /\ pc[w] \in ServingPcs => cfd'[w] = cfd[w]
  PROVE  UNCHANGED Queue!qvars
<1>1. Waiting' = Waiting
  BY DEF Waiting, Slot
<1>2. Serving' = Serving
  BY DEF Serving, ServingPcs
<1>3. Phase' = Phase
  BY DEF Phase
<1> QED
  BY <1>1, <1>2, <1>3 DEF Queue!qvars

\* What Main stored becomes the newest queued descriptor when it is counted.
LEMMA CountAppends ==
  ASSUME PoolInv, OwnInv, PoolInv', SubmitCount
  PROVE  Waiting' = Append(Waiting, cfd[Main])
<1>1. /\ head \in 0..Capacity - 1 /\ tail \in 0..Capacity - 1
      /\ count \in 0..Capacity - 1
      /\ tail = head + count + 1 \/ tail + Capacity = head + count + 1
  BY DEF PoolInv, TypeOK, StorerHasRoom, RingLinear, Stored, SubmitCount
<1>2. Slot(count) = LastSlot
  <2>1. (head + count) % Capacity
          = IF head + count < Capacity THEN head + count ELSE head + count - Capacity
    BY <1>1, WrapSum
  <2> QED
    BY <1>1, <2>1 DEF Slot, LastSlot
<1>3. cfd[Main] = fds[LastSlot]
  BY DEF SubmitCount, OwnInv, HandsMatchPlaces
<1>4. fds' = fds /\ head' = head /\ count' = count + 1
  BY DEF SubmitCount
<1>5. \A i : Slot(i)' = Slot(i)
  BY <1>4 DEF Slot
<1>6. Waiting' = [i \in 1..count + 1 |-> fds[Slot(i - 1)]]
  BY <1>4 DEF Waiting, Slot
<1>7. Append(Waiting, cfd[Main])
        = [i \in 1..count + 1 |-> IF i = count + 1 THEN cfd[Main] ELSE Waiting[i]]
  BY <1>1, WaitingIsSequence
<1>8. \A i \in 1..count + 1 :
        fds[Slot(i - 1)] = IF i = count + 1 THEN cfd[Main] ELSE Waiting[i]
  BY <1>1, <1>2, <1>3, WaitingIsSequence
<1> QED
  BY <1>6, <1>7, <1>8

\* A worker that moves the head takes the oldest queued descriptor, the one it
\* has read, and leaves the others in their order.
LEMMA AdvanceTakesOldest ==
  ASSUME PoolInv, OwnInv, PoolInv', NEW w \in Workers, WorkerAdvance(w)
  PROVE  /\ count > 0
         /\ Head(Waiting) = cfd[w]
         /\ Waiting' = Tail(Waiting)
<1>1. head \in 0..Capacity - 1 /\ count \in 1..Capacity
  BY DEF PoolInv, TypeOK, TakerHasWork, WorkerAdvance
<1>2. Slot(0) = head
  BY <1>1 DEF Slot
<1>3. cfd[w] = fds[head]
  BY DEF WorkerAdvance, OwnInv, HandsMatchPlaces
<1>4. Head(Waiting) = cfd[w]
  BY <1>1, <1>2, <1>3, WaitingIsSequence
<1>5. fds' = fds /\ head' = (head + 1) % Capacity /\ count' = count - 1
  BY DEF WorkerAdvance, HeadAdvanced
<1>6. head' = IF head + 1 = Capacity THEN 0 ELSE head + 1
  BY <1>1, <1>5, NextIndex
<1>7. ASSUME NEW i \in 1..count - 1 PROVE (head' + (i - 1)) % Capacity = Slot(i)
  <2>1. i \in 0..Capacity - 1 /\ i - 1 \in 0..Capacity - 1 /\ head' \in 0..Capacity - 1
    BY <1>1, <1>6
  <2>2. (head + i) % Capacity
          = IF head + i < Capacity THEN head + i ELSE head + i - Capacity
    BY <1>1, <2>1, WrapSum
  <2>3. (head' + (i - 1)) % Capacity
          = IF head' + (i - 1) < Capacity THEN head' + (i - 1)
            ELSE head' + (i - 1) - Capacity
    BY <2>1, WrapSum
  <2> QED
    BY <1>1, <1>6, <2>1, <2>2, <2>3 DEF Slot
<1>8. Waiting' = [i \in 1..count - 1 |-> fds[(head' + (i - 1)) % Capacity]]
  BY <1>5 DEF Waiting, Slot
<1>9. /\ Tail(Waiting) \in Seq(Fds \cup {NoFd})
      /\ Len(Tail(Waiting)) = count - 1
      /\ \A i \in 1..count - 1 : Tail(Waiting)[i] = fds[Slot(i)]
  <2>1. /\ Waiting \in Seq(Fds \cup {NoFd}) /\ Len(Waiting) = count /\ Waiting # <<>>
        /\ \A i \in 1..count : Waiting[i] = fds[Slot(i - 1)]
    BY <1>1, WaitingIsSequence
  <2> HIDE DEF Waiting
  <2>2. /\ Tail(Waiting) \in Seq(Fds \cup {NoFd})
        /\ Len(Tail(Waiting)) = Len(Waiting) - 1
        /\ \A i \in 1..Len(Tail(Waiting)) : Tail(Waiting)[i] = Waiting[i + 1]
    BY <2>1, HeadTailProperties
  <2>3. \A i \in 1..count - 1 : i + 1 \in 1..count /\ Slot((i + 1) - 1) = Slot(i)
    BY <1>1
  <2> QED
    BY <1>1, <2>1, <2>2, <2>3
<1>10. /\ Waiting' \in Seq(Fds \cup {NoFd})
       /\ Len(Waiting') = count - 1
       /\ \A i \in 1..count - 1 : Waiting'[i] = fds[Slot(i)]
  <2>1. Waiting' \in Seq(Fds \cup {NoFd}) /\ Len(Waiting') = count'
    BY WaitingIsSequencePrime
  <2> QED
    BY <1>5, <1>7, <1>8, <2>1
<1>11. Waiting' = Tail(Waiting)
  <2> HIDE DEF Waiting
  <2> QED
    BY <1>9, <1>10, SeqEqual
<1> QED
  BY <1>1, <1>4, <1>11

\* Every step of the pool is a step of the queue or is not visible there:
\* counting a stored descriptor enqueues it, moving the head dequeues the oldest,
\* a handler's return finishes its descriptor, setting `stopping` closes the
\* queue, and a pool is freed only once the queue can be retired.
LEMMA PoolStepIsQueueStep ==
  PoolInv /\ PoolInv' /\ OwnInv /\ ServersHold /\ [Next]_vars
    => [Queue!QueueNext]_(Queue!qvars)
<1> SUFFICES ASSUME PoolInv, PoolInv', OwnInv, ServersHold, [Next]_vars
             PROVE  [Queue!QueueNext]_(Queue!qvars)
  OBVIOUS
<1> USE DEF Threads
<1>p. /\ pc \in [Threads -> WorkerPcs \cup MainPcs] /\ pc[Main] \in MainPcs
      /\ cfd \in [Threads -> Fds \cup {NoFd}]
      /\ stopping \in BOOLEAN /\ alive \in BOOLEAN
      /\ count \in 0..Capacity
  BY DEF PoolInv, TypeOK
<1>w. /\ Waiting \in Seq(Fds \cup {NoFd}) /\ Len(Waiting) = count
      /\ \A i \in 1..count : Waiting[i] = fds[Slot(i - 1)]
  BY WaitingIsSequence
<1>e. count = 0 => Waiting = <<>>
  BY <1>w, EmptySeq
<1>1. CASE InitFail
  <2>1. count = 0 /\ alive' = FALSE /\ \A w \in Workers : pc[w] = "unborn"
    BY <1>1 DEF InitFail, OwnInv, LeaversLeaveNothing
  <2>2. Serving = {} /\ Serving' = {}
    BY <1>p, <1>1, <2>1 DEF InitFail, Serving
  <2>3. Waiting' = Waiting
    BY <1>1 DEF InitFail, ring, Waiting, Slot
  <2>4. Queue!Retire
    BY <1>e, <2>1, <2>2, <2>3 DEF Queue!Retire, Phase
  <2> QED
    BY <2>4 DEF Queue!QueueNext
<1>2. CASE CreateFail \/ ShutdownCall \/ SubmitLock \/ SubmitRelock \/ SubmitWait
           \/ SubmitUnlock \/ ShutdownLock
  <2> USE DEF CreateFail, ShutdownCall, SubmitLock, SubmitRelock, Lock, SubmitWait,
              SubmitUnlock, ShutdownLock, ring
  <2>1. UNCHANGED <<fds, head, count, stopping, alive>>
    BY <1>2
  <2>2. \A w \in Workers : pc'[w] = pc[w] /\ cfd'[w] = cfd[w]
    BY <1>p, <1>2
  <2> QED
    BY <2>1, <2>2, HiddenFromQueue
<1>3. CASE SubmitStore
  <2>1. Serving' = Serving /\ Phase' = Phase
    BY <1>p, <1>3 DEF SubmitStore, Serving, Phase
  <2>2. CASE stopping
    <3>1. UNCHANGED <<fds, head, count>>
      BY <1>3, <2>2 DEF SubmitStore
    <3> QED
      BY <2>1, <3>1 DEF Waiting, Slot, Queue!qvars
  <2>3. CASE ~stopping
    <3>1. tail \notin Occupied /\ fds' = [fds EXCEPT ![tail] = cfd[Main]]
          /\ head' = head /\ count' = count
      BY <1>p, <1>3, <2>3, TailIsFree DEF SubmitStore, SubmitMustWait
    <3>2. \A i \in 0..count - 1 : Slot(i) # tail
      BY <3>1, SlotsAreOccupied
    <3>3. \A i \in 1..count : fds'[Slot(i - 1)] = fds[Slot(i - 1)]
      <4>1. fds \in [0..Capacity - 1 -> Fds \cup {NoFd}]
        BY DEF PoolInv, TypeOK
      <4>2. \A i \in 1..count : i - 1 \in 0..count - 1
        BY <1>p
      <4>3. \A s \in Occupied : s \in 0..Capacity - 1
        BY DEF Occupied
      <4> QED
        BY <3>1, <3>2, <4>1, <4>2, <4>3, SlotsAreOccupied
    <3>4. Waiting' = Waiting
      BY <3>1, <3>3 DEF Waiting, Slot
    <3> QED
      BY <2>1, <3>4 DEF Queue!qvars
  <2> QED
    BY <2>2, <2>3
<1>4. CASE SubmitCount
  <2>1. Waiting' = Append(Waiting, cfd[Main])
    BY <1>4, CountAppends
  <2>2. alive /\ ~stopping /\ pc[Main] = "scount" /\ cfd[Main] # NoFd
    BY <1>4 DEF SubmitCount, PoolInv, FreedIsOver, OwnInv, LeaversLeaveNothing, StoppedPcs,
                HandsMatchPlaces, SubmitPcs
  <2>3. Phase = "open" /\ Phase' = Phase
    BY <1>4, <2>2 DEF SubmitCount, Phase
  <2>4. Serving' = Serving
    <3>1. \A w \in Workers : /\ cfd'[w] = cfd[w]
                             /\ pc'[w] \in ServingPcs <=> pc[w] \in ServingPcs
      BY <1>p, <1>4 DEF SubmitCount, SignalNotEmpty, Sleepers, ServingPcs
    <3> QED
      BY <3>1 DEF Serving, ServingPcs
  <2>5. cfd[Main] \notin Serving
    <3>1. \A w \in Workers : pc[w] \in {"signal", "handle"} => cfd[w] # cfd[Main]
      BY <2>2 DEF OwnInv, PlacesDiffer
    <3> QED
      BY <3>1 DEF Serving
  <2>6. \A i \in 1..Len(Waiting) : Waiting[i] # cfd[Main]
    <3>1. \A i \in 0..count - 1 : fds[Slot(i)] # cfd[Main]
      BY <2>2, SlotsAreOccupied DEF OwnInv, PlacesDiffer
    <3>2. \A i \in 1..count : i - 1 \in 0..count - 1
      BY <1>p
    <3> QED
      BY <1>w, <3>1, <3>2
  <2>7. Len(Waiting) < Capacity
    BY <1>w, <2>2 DEF PoolInv, StorerHasRoom
  <2>8. Queue!Enqueue(cfd[Main]) /\ cfd[Main] \in Fds
    BY <1>p, <2>1, <2>2, <2>3, <2>4, <2>5, <2>6, <2>7 DEF Queue!Enqueue
  <2> QED
    BY <2>8 DEF Queue!QueueNext
<1>5. CASE ShutdownStop
  <2>1. alive /\ ~stopping
    BY <1>5 DEF ShutdownStop, PoolInv, FreedIsOver, OwnInv, LeaversLeaveNothing, StoppedPcs
  <2>2. Waiting' = Waiting
    BY <1>5 DEF ShutdownStop, ring, Waiting, Slot
  <2>3. Serving' = Serving
    BY <1>p, <1>5 DEF ShutdownStop, Serving
  <2>4. Queue!Close
    BY <1>5, <2>1, <2>2, <2>3 DEF ShutdownStop, Queue!Close, Phase
  <2> QED
    BY <2>4 DEF Queue!QueueNext
<1>6. CASE ShutdownBroadcast
  <2>1. UNCHANGED <<fds, head, count, stopping, alive>>
    BY <1>6 DEF ShutdownBroadcast, ring
  <2>2. \A w \in Workers : /\ cfd'[w] = cfd[w]
                           /\ pc'[w] \in ServingPcs <=> pc[w] \in ServingPcs
    BY <1>p, <1>6 DEF ShutdownBroadcast, Woken, ServingPcs
  <2> QED
    BY <2>1, <2>2, HiddenFromQueue
<1>7. CASE ShutdownFree
  <2>1. \A w \in Workers : pc[w] \in {"unborn", "exited"}
    BY <1>7 DEF ShutdownFree, AllJoined
  <2>2. count = 0
    BY <2>1 DEF OwnInv, LeaversLeaveNothing
  <2>3. Serving = {} /\ Serving' = {}
    BY <1>p, <1>7, <2>1 DEF ShutdownFree, Serving
  <2>4. Waiting' = <<>>
    <3>1. Waiting' \in Seq(Fds \cup {NoFd}) /\ Len(Waiting') = 0
      BY <1>7, WaitingIsSequencePrime DEF ShutdownFree
    <3> QED
      BY <3>1, EmptySeq
  <2>5. Queue!Retire
    BY <1>7, <1>e, <2>2, <2>3, <2>4 DEF ShutdownFree, Queue!Retire, Phase
  <2> QED
    BY <2>5 DEF Queue!QueueNext
<1>8. CASE Terminated \/ UNCHANGED vars
  <2>1. UNCHANGED <<fds, head, count, stopping, alive, pc, cfd>>
    BY <1>8 DEF Terminated, vars
  <2> QED
    BY <2>1, HiddenFromQueue
<1>9. ASSUME NEW w \in Workers,
             CreateWorker(w) \/ WorkerLock(w) \/ WorkerRelock(w) \/ WorkerWait(w)
               \/ WorkerExit(w) \/ WorkerTake(w) \/ WorkerSignal(w)
      PROVE  UNCHANGED Queue!qvars
  <2>1. UNCHANGED <<fds, head, count, stopping, alive>>
    BY <1>9 DEF CreateWorker, WorkerLock, WorkerRelock, Lock, WorkerWait, WorkerExit,
                WorkerTake, WorkerSignal, ring
  <2>2. \A v \in Workers : /\ pc'[v] \in ServingPcs <=> pc[v] \in ServingPcs
                           /\ pc[v] \in ServingPcs => cfd'[v] = cfd[v]
    BY <1>p, <1>9 DEF CreateWorker, WorkerLock, WorkerRelock, Lock, WorkerWait, WorkerExit,
                      WorkerTake, WorkerSignal, SignalNotFull, ServingPcs
  <2> QED
    BY <2>1, <2>2, HiddenFromQueue
<1>10. ASSUME NEW w \in Workers, WorkerAdvance(w)
       PROVE  [Queue!QueueNext]_(Queue!qvars)
  <2>1. count > 0 /\ Head(Waiting) = cfd[w] /\ Waiting' = Tail(Waiting)
    BY <1>10, AdvanceTakesOldest
  <2>2. alive
    BY <1>10 DEF WorkerAdvance, PoolInv, FreedIsOver, AllJoined
  <2>3. Serving' = Serving \cup {cfd[w]}
    BY <1>p, <1>10 DEF WorkerAdvance, Serving
  <2>4. Waiting # <<>>
    BY <1>w, <2>1, EmptySeq
  <2>5. Queue!Dequeue
    BY <1>10, <2>1, <2>2, <2>3, <2>4 DEF WorkerAdvance, Queue!Dequeue, Phase
  <2> QED
    BY <2>5 DEF Queue!QueueNext
<1>11. ASSUME NEW w \in Workers, HandlerReturn(w)
       PROVE  [Queue!QueueNext]_(Queue!qvars)
  <2>1. cfd[w] # NoFd /\ cfd[w] \in Fds /\ cfd[w] \in Serving
    BY <1>p, <1>11 DEF HandlerReturn, ServersHold, ServingPcs, Serving
  <2>2. \A v \in Workers \ {w} : pc[v] \in {"signal", "handle"} => cfd[v] # cfd[w]
    BY <1>11, <2>1 DEF HandlerReturn, OwnInv, PlacesDiffer
  <2>3. Serving' = Serving \ {cfd[w]}
    <3>1. \A v \in Workers \ {w} : pc'[v] = pc[v] /\ cfd'[v] = cfd[v]
      BY <1>p, <1>11 DEF HandlerReturn
    <3>2. pc'[w] = "lock"
      BY <1>p, <1>11 DEF HandlerReturn
    <3> QED
      BY <2>2, <3>1, <3>2 DEF Serving
  <2>4. Waiting' = Waiting
    BY <1>11 DEF HandlerReturn, ring, Waiting, Slot
  <2>5. alive
    BY <1>11 DEF HandlerReturn, PoolInv, FreedIsOver, AllJoined
  <2>6. Queue!Finish(cfd[w])
    BY <1>11, <2>1, <2>3, <2>4, <2>5 DEF HandlerReturn, Queue!Finish, Phase
  <2> QED
    BY <2>1, <2>6 DEF Queue!QueueNext
<1>12. ASSUME NEW fd \in Fds, SubmitCall(fd) PROVE UNCHANGED Queue!qvars
  <2>1. UNCHANGED <<fds, head, count, stopping, alive>>
    BY <1>12 DEF SubmitCall, ring
  <2>2. \A v \in Workers : pc'[v] = pc[v] /\ cfd'[v] = cfd[v]
    BY <1>p, <1>12 DEF SubmitCall
  <2> QED
    BY <2>1, <2>2, HiddenFromQueue
<1>13. ASSUME NEW t \in Threads, SpuriousWake(t) PROVE UNCHANGED Queue!qvars
  <2>1. UNCHANGED <<fds, head, count, stopping, alive, cfd>>
    BY <1>13 DEF SpuriousWake, ring
  <2>2. \A v \in Workers : pc'[v] \in ServingPcs <=> pc[v] \in ServingPcs
    BY <1>p, <1>13 DEF SpuriousWake, ServingPcs
  <2> QED
    BY <2>1, <2>2, HiddenFromQueue
<1> QED
  BY <1>1, <1>2, <1>3, <1>4, <1>5, <1>6, <1>7, <1>8, <1>9, <1>10, <1>11, <1>12, <1>13
     DEF Next, WorkerStep, SubmitStep, ShutdownStep

\* The pool implements the bounded FIFO queue, for any number of workers and any
\* capacity: descriptors are served in the order of their submission, each once,
\* never more than queue_capacity wait, and the pool is retired only when all of
\* them have been served.
THEOREM PoolImplementsQueue == Spec => ImplementsFdQueue
<1>1. Init => Queue!QueueInit
  <2> SUFFICES ASSUME Init PROVE Queue!QueueInit
    OBVIOUS
  <2>1. Waiting \in Seq(Fds \cup {NoFd}) /\ Len(Waiting) = 0
    BY InitInv, WaitingIsSequence DEF Init
  <2>2. Waiting = <<>>
    BY <2>1, EmptySeq
  <2>3. Serving = {} /\ Phase = "open"
    BY DEF Init, Serving, Phase, Threads
  <2> QED
    BY <2>2, <2>3 DEF Queue!QueueInit
<1> QED
  BY <1>1, PoolStepIsQueueStep, PoolInvariant, OwnershipInvariant, ServersInvariant, PTL
     DEF Spec, ImplementsFdQueue, Queue!QueueSpec
=============================================================================
