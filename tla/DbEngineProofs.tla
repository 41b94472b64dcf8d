--------------------------- MODULE DbEngineProofs ---------------------------
(***************************************************************************)
(* Proofs about DbEngine, for every set of threads, requests, files and    *)
(* faults.                                                                 *)
(*                                                                         *)
(* The first part holds whatever the environment does, torn lines and      *)
(* failing allocations inside the index included.  The inductive invariant *)
(* EngineInv says who holds the lock at which place of the code, and what  *)
(* an insert may rely on between two of its steps because it holds it.     *)
(* ValidInv follows the values of a row from where it is made or read.     *)
(*                                                                         *)
(* The second part is about what the engine keeps: the table in the file,  *)
(* the table in memory, the ids and the rows that were acknowledged.       *)
(*                                                                         *)
(* The third part proves that the engine implements UsersTable.            *)
(***************************************************************************)
EXTENDS DbEngine, FilterProofs, SequenceTheorems, FiniteSetTheorems, TLAPS

\* Who is inside a request holds the lock that the request needs, and nobody is
\* inside one unless the engine is up.
LockInv ==
  /\ pc \in [Threads -> Pcs]
  /\ writer \in Threads \cup {Nobody} /\ readers \subseteq Threads
  /\ \A t \in Threads : pc[t] \in WriteSection => writer = t
  /\ \A t \in Threads : pc[t] \in ReadSection => t \in readers
  /\ writer # Nobody => readers = {}
  /\ status # "up" => \A t \in Threads : pc[t] = "idle"

\* The records are an array with room.
RoomInv ==
  /\ \E S : records \in Seq(S)
  /\ capacity \in Nat
  /\ RoomReserved

\* The index leads to the right rows, and the row that is about to be indexed is
\* the last one of the array.
IndexInv ==
  /\ \A k \in DOMAIN index : index[k] \in Nat
  /\ IndexSound
  /\ \A t \in Threads : pc[t] = "index" =>
       Len(records) > 0 /\ records[Len(records)].id = row[t].id

EngineInv == LockInv /\ RoomInv /\ IndexInv

USE FirstCapacityAssumption, WriterAssumption
    DEF FirstCapacityAssumption, WriterAssumption

\* The two kinds of steps that end a request.
Ends(t) ==
  /\ writer' = IF writer = t THEN Nobody ELSE writer
  /\ readers' = readers \ {t}
  /\ pc' = [pc EXCEPT ![t] = "idle"]

\* A longer array is an array.
LEMMA AppendAny ==
  ASSUME NEW S, NEW s \in Seq(S), NEW e
  PROVE  /\ Append(s, e) \in Seq(S \cup {e})
         /\ Len(Append(s, e)) = Len(s) + 1
         /\ \A i \in 1..Len(s) : Append(s, e)[i] = s[i]
         /\ Append(s, e)[Len(s) + 1] = e
<1>1. s \in Seq(S \cup {e})
  BY SeqMonotonic, S \subseteq S \cup {e}
<1> QED
  BY <1>1, AppendProperties

\* What a call of bptree_insert can leave behind, memory failures included.
Outcomes(m, k, v) == {InsertOutcome(m, k, v)} \cup FailedInsertOutcomes(m, k, v)

\* Whatever an insertion does to the index, it adds no entry but the new one, and
\* an entry that it leaves under the new id is the new one.
LEMMA OutcomeAddsOne ==
  ASSUME NEW m, NEW k, NEW v,
         NEW o \in Outcomes(m, k, v),
         NEW x \in DOMAIN o.map
  PROVE  (x = k /\ o.map[x] = v) \/ (x # k /\ x \in DOMAIN m /\ o.map[x] = m[x])
<1>1. CASE o = InsertOutcome(m, k, v)
  BY <1>1 DEF InsertOutcome, Put
<1>2. CASE o \in FailedInsertOutcomes(m, k, v)
  <2> DEFINE full == Put(m, k, v)
  <2>1. PICK p, b : o = [map |-> Without(full, p[1]..p[2]), ok |-> b]
    BY <1>2 DEF FailedInsertOutcomes
  <2>2. x \in DOMAIN full /\ o.map[x] = full[x]
    <3> HIDE DEF full
    <3> QED
      BY <2>1 DEF Without
  <2> QED
    BY <2>2 DEF Put
<1> QED
  BY <1>1, <1>2 DEF Outcomes

\* The doubled capacity has room for one more row.
LEMMA GrownHasRoom ==
  ASSUME NEW S, records \in Seq(S), capacity \in Nat, Len(records) <= capacity
  PROVE  Grown \in Nat /\ Len(records) + 1 <= Grown /\ capacity <= Grown
  BY DEF Grown

\* The engine starts with nobody inside and nothing in memory.
LEMMA EngineInit == Init => EngineInv
<1> SUFFICES ASSUME Init PROVE EngineInv
  OBVIOUS
<1>1. LockInv
  BY DEF Init, LockInv, Pcs, WriteSection, ReadSection
<1>2. RoomInv
  <2>1. records \in Seq({}) /\ Len(records) = 0
    BY DEF Init
  <2> QED
    BY <2>1 DEF Init, RoomInv, RoomReserved
<1>3. IndexInv
  BY DEF Init, IndexInv, IndexSound, EmptyIndex
<1> QED
  BY <1>1, <1>2, <1>3 DEF EngineInv

\* Every step keeps the lock's part.
LEMMA LockNext == LockInv /\ [Next]_vars => LockInv'
<1> SUFFICES ASSUME LockInv, [Next]_vars PROVE LockInv'
  OBVIOUS
<1> USE DEF LockInv, Pcs, WriteSection, ReadSection
<1>1. CASE DbInit
  BY <1>1 DEF DbInit, lock
<1>2. CASE LoadStep
  BY <1>2 DEF LoadStep, LoadBlank, LoadRecord, LoadFail, LoadDone, Forget, FreeTable, lock
<1>3. CASE DbDestroy
  BY <1>3 DEF DbDestroy, WorkersJoined, FreeTable, lock
<1>4. CASE Crash
  BY <1>4 DEF Crash, Forget, FreeTable
<1>5. ASSUME NEW t \in Threads, InsertCall(t) \/ SelectCall(t) PROVE LockInv'
  BY <1>5 DEF InsertCall, SelectCall, Call, lock
<1>6. ASSUME NEW t \in Threads, Step(t) PROVE LockInv'
  <2>1. CASE Ends(t) /\ status' = status
    BY <2>1 DEF Ends
  <2>2. CASE WriteLock(t)
    BY <2>2 DEF WriteLock, WriteFree
  <2>3. CASE ReadLock(t)
    BY <2>3 DEF ReadLock
  <2>4. CASE /\ UNCHANGED <<writer, readers, status>>
             /\ \/ pc' = pc
                \/ /\ pc[t] \in WriteSection
                   /\ pc' = [pc EXCEPT ![t] = "append"] \/ pc' = [pc EXCEPT ![t] = "store"]
                      \/ pc' = [pc EXCEPT ![t] = "index"] \/ pc' = [pc EXCEPT ![t] = "ireply"]
                \/ pc[t] \in ReadSection /\ pc' = [pc EXCEPT ![t] = "sreply"]
    BY <2>4
  <2>5. InsertReject(t) \/ InsertNoMemory(t) \/ InsertOpenFail(t)
        \/ InsertAppendFail(t) \/ LockFail(t) \/ SerializeFail(t) => Ends(t) /\ status' = status
    BY DEF InsertReject, InsertNoMemory, InsertOpenFail, InsertAppendFail, LockFail,
           SerializeFail, Fail, Return, Ends
  <2>6. InsertTear(t) \/ InsertReply(t) \/ SelectReply(t) => Ends(t) /\ status' = status
    BY DEF InsertTear, InsertReply, SelectReply, Return, Ends
  <2>7. CASE InsertIndexFail(t)
    BY <2>7, <2>1, <2>4 DEF InsertIndexFail, Fail, Return, Ends, lock
  <2>8. CASE InsertPrepare(t) \/ InsertAppend(t) \/ InsertStore(t) \/ InsertIndex(t)
    BY <2>8, <2>4 DEF InsertPrepare, InsertAppend, InsertStore, InsertIndex, lock
  <2>9. CASE SelectById(t) \/ SelectScan(t) \/ SelectEnd(t)
    BY <2>9, <2>4 DEF SelectById, SelectScan, SelectEnd, lock
  <2> QED
    BY <1>6, <2>1, <2>2, <2>3, <2>5, <2>6, <2>7, <2>8, <2>9
       DEF Step, InsertStep, SelectStep
<1>7. CASE UNCHANGED vars
  BY <1>7 DEF vars
<1> QED
  BY <1>1, <1>2, <1>3, <1>4, <1>5, <1>6, <1>7 DEF Next

\* Every step keeps the array's part.
LEMMA RoomNext == LockInv /\ RoomInv /\ [Next]_vars => RoomInv'
<1> SUFFICES ASSUME LockInv, RoomInv, [Next]_vars PROVE RoomInv'
  OBVIOUS
<1>0. PICK S : records \in Seq(S)
  BY DEF RoomInv
<1>a. Len(records) \in Nat
  BY <1>0
<1>b. ASSUME records' = <<>>, capacity' = 0, \A t \in Threads : pc'[t] = "idle"
      PROVE  RoomInv'
  <2>1. records' \in Seq({}) /\ Len(records') = 0
    BY <1>b
  <2> QED
    BY <1>b, <2>1 DEF RoomInv, RoomReserved
<1>c. ASSUME NEW t \in Threads, UNCHANGED <<records, capacity>>,
             \E p \in Pcs \ {"append", "store"} : pc' = [pc EXCEPT ![t] = p]
      PROVE  RoomInv'
  BY <1>c DEF LockInv, RoomInv, RoomReserved
<1>d. ASSUME UNCHANGED <<records, capacity, pc>> PROVE RoomInv'
  BY <1>d DEF RoomInv, RoomReserved
<1>1. CASE DbInit
  BY <1>1, <1>d DEF DbInit, memory
<1>2. CASE LoadBlank \/ LoadDone
  BY <1>2, <1>d DEF LoadBlank, LoadDone, memory
<1>3. CASE LoadRecord
  <2>1. PICK r : records' = Append(records, r)
    BY <1>3 DEF LoadRecord
  <2>2. capacity' = Grown /\ pc' = pc /\ \A t \in Threads : pc[t] = "idle"
    BY <1>3 DEF LoadRecord, LockInv
  <2>3. /\ records' \in Seq(S \cup {r})
        /\ Len(records') = Len(records) + 1
    BY <1>0, <2>1, AppendAny
  <2>4. Len(records) + 1 <= Grown /\ Grown \in Nat
    BY <1>0, GrownHasRoom DEF RoomInv, RoomReserved
  <2> QED
    BY <2>2, <2>3, <2>4 DEF RoomInv, RoomReserved
<1>4. CASE LoadFail \/ Crash
  BY <1>4, <1>b DEF LoadFail, Crash, Forget, FreeTable
<1>5. CASE DbDestroy
  BY <1>5, <1>b DEF DbDestroy, WorkersJoined, FreeTable
<1>6. ASSUME NEW t \in Threads, InsertCall(t) \/ SelectCall(t) PROVE RoomInv'
  BY <1>6, <1>c DEF InsertCall, SelectCall, Call, memory, Pcs
<1>7. ASSUME NEW t \in Threads, Step(t) PROVE RoomInv'
  <2>1. CASE InsertPrepare(t)
    <3>1. capacity' = Grown /\ records' = records /\ Len(records) < Grown
      BY <2>1, <1>0, <1>a, GrownHasRoom DEF InsertPrepare, RoomInv, RoomReserved
    <3>2. Grown \in Nat
      BY <1>0, GrownHasRoom DEF RoomInv, RoomReserved
    <3> QED
      BY <1>0, <1>a, <3>1, <3>2 DEF RoomInv, RoomReserved
  <2>2. CASE InsertAppend(t)
    BY <2>2 DEF InsertAppend, memory, LockInv, RoomInv, RoomReserved
  <2>3. CASE InsertStore(t)
    <3>1. /\ records' \in Seq(S \cup {row[t]})
          /\ Len(records') = Len(records) + 1
      BY <2>3, <1>0, AppendAny DEF InsertStore
    <3>2. \A u \in Threads : pc'[u] \notin {"append", "store"}
      BY <2>3 DEF InsertStore, LockInv, WriteSection
    <3> QED
      BY <2>3, <1>a, <3>1, <3>2 DEF InsertStore, RoomInv, RoomReserved
  <2>4. CASE InsertReject(t) \/ InsertNoMemory(t) \/ InsertOpenFail(t)
             \/ InsertAppendFail(t) \/ LockFail(t) \/ SerializeFail(t)
    BY <2>4, <1>c DEF InsertReject, InsertNoMemory, InsertOpenFail, InsertAppendFail,
                      LockFail, SerializeFail, Fail, Return, memory, Pcs
  <2>5. CASE InsertTear(t) \/ InsertReply(t) \/ SelectReply(t)
    BY <2>5, <1>c DEF InsertTear, InsertReply, SelectReply, Return, memory, Pcs
  <2>6. CASE WriteLock(t) \/ ReadLock(t) \/ InsertIndex(t)
    BY <2>6, <1>c DEF WriteLock, ReadLock, InsertIndex, memory, Pcs
  <2>7. CASE InsertIndexFail(t)
    BY <2>7, <1>c DEF InsertIndexFail, Fail, Return, Pcs
  <2>8. CASE SelectById(t) \/ SelectEnd(t)
    BY <2>8, <1>c DEF SelectById, SelectEnd, memory, Pcs
  <2>9. CASE SelectScan(t)
    BY <2>9, <1>d DEF SelectScan, memory
  <2> QED
    BY <1>7, <2>1, <2>2, <2>3, <2>4, <2>5, <2>6, <2>7, <2>8, <2>9
       DEF Step, InsertStep, SelectStep
<1>8. CASE UNCHANGED vars
  BY <1>8, <1>d DEF vars
<1> QED
  BY <1>1, <1>2, <1>3, <1>4, <1>5, <1>6, <1>7, <1>8 DEF Next, LoadStep

\* Every step keeps the index's part.
LEMMA IndexNext == EngineInv /\ [Next]_vars => IndexInv'
<1> SUFFICES ASSUME LockInv, RoomInv, IndexInv, [Next]_vars PROVE IndexInv'
  BY DEF EngineInv
<1>0. PICK S : records \in Seq(S)
  BY DEF RoomInv
<1>a. Len(records) \in Nat
  BY <1>0
<1>b. ASSUME index' = EmptyIndex, \A t \in Threads : pc'[t] = "idle" PROVE IndexInv'
  BY <1>b DEF IndexInv, IndexSound, EmptyIndex
<1>c. ASSUME NEW t \in Threads, pc[t] # "index", UNCHANGED <<records, index, row>>,
             \E p \in Pcs \ {"index"} : pc' = [pc EXCEPT ![t] = p]
      PROVE  IndexInv'
  <2>1. \A u \in Threads : pc'[u] = "index" <=> pc[u] = "index"
    BY <1>c DEF LockInv
  <2>2. \A i : BeingIndexed(i)' <=> BeingIndexed(i)
    BY <1>c, <2>1 DEF BeingIndexed
  <2> QED
    BY <1>c, <2>1, <2>2 DEF IndexInv, IndexSound
<1>d. ASSUME UNCHANGED <<records, index, row, pc>> PROVE IndexInv'
  BY <1>d DEF IndexInv, IndexSound, BeingIndexed
<1>1. CASE DbInit
  BY <1>1, <1>d DEF DbInit, memory, locals
<1>2. CASE LoadBlank \/ LoadDone
  BY <1>2, <1>d DEF LoadBlank, LoadDone, memory, locals
<1>3. CASE LoadRecord
  <2>1. PICK r : /\ records' = Append(records, r)
                 /\ \E o \in IndexAfterLoad(r) : index' = o.map
    BY <1>3 DEF LoadRecord
  <2> DEFINE position == Len(records)
  <2>2. PICK o \in Outcomes(index, r.id, position) : index' = o.map
    BY <2>1 DEF IndexAfterLoad, Outcomes
  <2>3. pc' = pc /\ \A t \in Threads : pc[t] = "idle"
    BY <1>3 DEF LoadRecord, LockInv
  <2>4. /\ Len(records') = Len(records) + 1
        /\ \A i \in 1..Len(records) : records'[i] = records[i]
        /\ records'[Len(records) + 1] = r
    BY <1>0, <2>1, AppendAny
  <2>5. ASSUME NEW k \in DOMAIN index'
        PROVE  /\ index'[k] \in Nat
               /\ index'[k] < Len(records') /\ records'[index'[k] + 1].id = k
               /\ \A i \in index'[k] + 2..Len(records') : records'[i].id # k
    <3>1. (k = r.id /\ index'[k] = position)
          \/ (k # r.id /\ k \in DOMAIN index /\ index'[k] = index[k])
      <4> HIDE DEF position
      <4>1. k \in DOMAIN o.map
        BY <2>2
      <4>2. (k = r.id /\ o.map[k] = position)
            \/ (k # r.id /\ k \in DOMAIN index /\ o.map[k] = index[k])
        BY <4>1, <2>2, OutcomeAddsOne
      <4> QED
        BY <2>2, <4>2
    <3> QED
      BY <1>a, <2>3, <2>4, <3>1 DEF IndexInv, IndexSound, BeingIndexed
  <2> QED
    BY <2>3, <2>5 DEF IndexInv, IndexSound
<1>4. CASE LoadFail \/ Crash
  BY <1>4, <1>b DEF LoadFail, Crash, Forget, FreeTable
<1>5. CASE DbDestroy
  BY <1>5, <1>b DEF DbDestroy, WorkersJoined, FreeTable
<1>6. ASSUME NEW t \in Threads, InsertCall(t) \/ SelectCall(t) PROVE IndexInv'
  <2>1. PICK q : pc[t] = "idle" /\ (pc' = [pc EXCEPT ![t] = "wlock"] \/ pc' = [pc EXCEPT ![t] = "rlock"])
                 /\ row' = [row EXCEPT ![t] = q] /\ UNCHANGED <<records, index>>
    BY <1>6 DEF InsertCall, SelectCall, Call, memory
  <2>2. \A u \in Threads : pc'[u] = "index" <=> pc[u] = "index"
    BY <2>1 DEF LockInv
  <2>3. \A u \in Threads : pc[u] = "index" => row'[u] = row[u]
    BY <2>1
  <2>4. \A i : BeingIndexed(i)' <=> BeingIndexed(i)
    BY <2>1, <2>2 DEF BeingIndexed
  <2> QED
    BY <2>1, <2>2, <2>3, <2>4 DEF IndexInv, IndexSound
<1>7. ASSUME NEW t \in Threads, Step(t) PROVE IndexInv'
  <2>1. CASE InsertPrepare(t)
    <3>1. \A u \in Threads : pc[u] # "index" /\ pc'[u] # "index"
      BY <2>1 DEF InsertPrepare, LockInv, WriteSection
    <3> QED
      BY <2>1, <3>1 DEF InsertPrepare, IndexInv, IndexSound, BeingIndexed
  <2>2. CASE InsertAppend(t)
    BY <2>2, <1>c DEF InsertAppend, memory, locals, Pcs
  <2>3. CASE InsertStore(t)
    <3>1. /\ Len(records') = Len(records) + 1
          /\ \A i \in 1..Len(records) : records'[i] = records[i]
          /\ records'[Len(records) + 1] = row[t]
      BY <2>3, <1>0, AppendAny DEF InsertStore
    <3>2. /\ \A u \in Threads : pc[u] # "index" /\ (pc'[u] = "index" <=> u = t)
          /\ \A i : i = Len(records)' => BeingIndexed(i)'
      BY <2>3, <3>1 DEF InsertStore, LockInv, WriteSection, BeingIndexed
    <3>3. index' = index /\ row' = row
      BY <2>3 DEF InsertStore, locals
    <3>4. ASSUME NEW k \in DOMAIN index
          PROVE  /\ index[k] \in Nat
                 /\ index[k] < Len(records') /\ records'[index[k] + 1].id = k
                 /\ \A i \in index[k] + 2..Len(records') :
                      records'[i].id = k => BeingIndexed(i)'
      <4>1. \A i \in index[k] + 2..Len(records) : records[i].id # k
        BY <3>2 DEF IndexInv, IndexSound, BeingIndexed
      <4>2. /\ index[k] \in Nat /\ index[k] < Len(records') /\ records'[index[k] + 1].id = k
        BY <1>a, <3>1 DEF IndexInv, IndexSound
      <4>3. ASSUME NEW i \in index[k] + 2..Len(records'), records'[i].id = k
            PROVE  BeingIndexed(i)'
        <5>1. i = Len(records')
          BY <1>a, <3>1, <4>1, <4>2, <4>3
        <5> QED
          BY <3>2, <5>1
      <4> QED
        BY <4>2, <4>3
    <3> QED
      BY <1>a, <3>1, <3>2, <3>3, <3>4 DEF IndexInv, IndexSound
  <2>4. CASE InsertReject(t) \/ InsertNoMemory(t) \/ InsertOpenFail(t)
             \/ InsertAppendFail(t) \/ LockFail(t) \/ SerializeFail(t)
    BY <2>4, <1>c DEF InsertReject, InsertNoMemory, InsertOpenFail, InsertAppendFail,
                      LockFail, SerializeFail, Fail, Return, memory, locals, Pcs
  <2>5. CASE InsertTear(t) \/ InsertReply(t) \/ SelectReply(t)
    BY <2>5, <1>c DEF InsertTear, InsertReply, SelectReply, Return, memory, locals, Pcs
  <2>6. CASE WriteLock(t) \/ ReadLock(t)
    BY <2>6, <1>c DEF WriteLock, ReadLock, memory, locals, Pcs
  <2>7. CASE InsertIndex(t) \/ InsertIndexFail(t)
    <3>1. PICK o \in Outcomes(index, row[t].id, StoredPosition) : index' = o.map
      BY <2>7 DEF InsertIndex, InsertIndexFail, Outcomes
    <3>2. /\ records' = records
          /\ \A u \in Threads : pc'[u] # "index"
      BY <2>7 DEF InsertIndex, InsertIndexFail, Fail, Return, LockInv, WriteSection
    <3>3. /\ Len(records) > 0 /\ records[Len(records)].id = row[t].id
          /\ StoredPosition = Len(records) - 1
      BY <2>7 DEF InsertIndex, InsertIndexFail, IndexInv, StoredPosition
    <3>4. ASSUME NEW k \in DOMAIN index'
          PROVE  /\ index'[k] \in Nat
                 /\ index'[k] < Len(records) /\ records[index'[k] + 1].id = k
                 /\ \A i \in index'[k] + 2..Len(records) : records[i].id # k
      <4>1. (k = row[t].id /\ index'[k] = StoredPosition)
            \/ (k # row[t].id /\ k \in DOMAIN index /\ index'[k] = index[k])
        <5>1. k \in DOMAIN o.map
          BY <3>1
        <5>2. (k = row[t].id /\ o.map[k] = StoredPosition)
              \/ (k # row[t].id /\ k \in DOMAIN index /\ o.map[k] = index[k])
          BY <3>1, <5>1, OutcomeAddsOne
        <5> QED
          BY <3>1, <5>2
      <4> QED
        BY <1>a, <3>3, <4>1 DEF IndexInv, IndexSound, BeingIndexed
    <3> QED
      BY <3>2, <3>4 DEF IndexInv, IndexSound
  <2>8. CASE SelectById(t) \/ SelectEnd(t)
    BY <2>8, <1>c DEF SelectById, SelectEnd, memory, locals, Pcs
  <2>9. CASE SelectScan(t)
    BY <2>9, <1>d DEF SelectScan, memory, locals
  <2> QED
    BY <1>7, <2>1, <2>2, <2>3, <2>4, <2>5, <2>6, <2>7, <2>8, <2>9
       DEF Step, InsertStep, SelectStep
<1>8. CASE UNCHANGED vars
  BY <1>8, <1>d DEF vars
<1> QED
  BY <1>1, <1>2, <1>3, <1>4, <1>5, <1>6, <1>7, <1>8 DEF Next, LoadStep

\* EngineInv is an invariant of the engine.
THEOREM EngineInvariant == Spec => []EngineInv
<1>1. EngineInv /\ [Next]_vars => EngineInv'
  BY LockNext, RoomNext, IndexNext DEF EngineInv
<1> QED
  BY <1>1, EngineInit, PTL DEF Spec

\* While a thread is inside an insert no other is inside an insert or a select.
THEOREM EngineExclusion == Spec => []ReadersExcludeWriter
<1>1. EngineInv => ReadersExcludeWriter
  BY DEF EngineInv, LockInv, ReadersExcludeWriter
<1> QED
  BY <1>1, EngineInvariant, PTL

\* records[count] always lies inside the array that it is written to.
THEOREM RoomIsReserved == Spec => []RoomReserved
<1>1. EngineInv => RoomReserved
  BY DEF EngineInv, RoomInv
<1> QED
  BY <1>1, EngineInvariant, PTL

\* A lookup through the index never returns another user's row, nor an older row
\* than the newest with that id, also after allocations inside the index have failed.
THEOREM IndexIsSound == Spec => []IndexSound
<1>1. EngineInv => IndexSound
  BY DEF EngineInv, IndexInv
<1> QED
  BY <1>1, EngineInvariant, PTL

\* With memory for the index, every step leaves all rows indexed but the one that
\* is being inserted.
LEMMA CompleteNext ==
  ASSUME "index" \notin Faults, EngineInv, IndexComplete, [Next]_vars
  PROVE  IndexComplete'
<1> USE DEF EngineInv
<1>0. PICK S : records \in Seq(S)
  BY DEF RoomInv
<1>a. Len(records) \in Nat
  BY <1>0
<1>b. ASSUME records' = <<>> PROVE IndexComplete'
  BY <1>b DEF IndexComplete, BeingIndexed
<1>c. ASSUME UNCHANGED <<records, index>>,
             \A t \in Threads : pc[t] = "index" => pc'[t] = "index"
      PROVE  IndexComplete'
  BY <1>c DEF IndexComplete, BeingIndexed
<1>1. CASE DbInit \/ LoadBlank \/ LoadDone
  BY <1>1, <1>c DEF DbInit, LoadBlank, LoadDone, memory
<1>2. CASE LoadRecord
  <2>1. PICK r : /\ records' = Append(records, r)
                 /\ \E o \in IndexAfterLoad(r) : index' = o.map
    BY <1>2 DEF LoadRecord
  <2>2. index' = Put(index, r.id, Len(records))
    BY <2>1 DEF IndexAfterLoad, InsertOutcome
  <2>3. DOMAIN index' = DOMAIN index \cup {r.id}
    BY <2>2 DEF Put
  <2>4. \A t \in Threads : pc[t] = "idle"
    BY <1>2 DEF LoadRecord, LockInv
  <2>5. /\ Len(records') = Len(records) + 1
        /\ \A i \in 1..Len(records) : records'[i] = records[i]
        /\ records'[Len(records) + 1] = r
    BY <1>0, <2>1, AppendAny
  <2> QED
    BY <1>a, <2>3, <2>4, <2>5 DEF IndexComplete, BeingIndexed
<1>3. CASE LoadFail \/ Crash \/ DbDestroy
  BY <1>3, <1>b DEF LoadFail, Crash, DbDestroy, Forget, FreeTable
<1>4. ASSUME NEW t \in Threads, InsertCall(t) \/ SelectCall(t) PROVE IndexComplete'
  BY <1>4, <1>c DEF InsertCall, SelectCall, Call, memory, LockInv
<1>5. ASSUME NEW t \in Threads, Step(t) PROVE IndexComplete'
  <2>1. CASE InsertStore(t)
    <3>1. /\ Len(records') = Len(records) + 1
          /\ \A i \in 1..Len(records) : records'[i] = records[i]
      BY <2>1, <1>0, AppendAny DEF InsertStore
    <3>2. \A u \in Threads : pc[u] # "index"
      BY <2>1 DEF InsertStore, LockInv, WriteSection
    <3>3. index' = index /\ pc'[t] = "index"
      BY <2>1 DEF InsertStore, LockInv
    <3> QED
      BY <1>a, <3>1, <3>2, <3>3 DEF IndexComplete, BeingIndexed
  <2>2. CASE InsertIndex(t)
    <3>1. DOMAIN index' = DOMAIN index \cup {row[t].id} /\ records' = records
      BY <2>2 DEF InsertIndex, InsertOutcome, Put
    <3>2. records[Len(records)].id = row[t].id
      BY <2>2 DEF InsertIndex, IndexInv
    <3> QED
      BY <1>a, <3>1, <3>2 DEF IndexComplete, BeingIndexed
  <2>3. CASE InsertIndexFail(t)
    BY <2>3 DEF InsertIndexFail
  <2>4. CASE InsertReject(t) \/ InsertNoMemory(t) \/ InsertOpenFail(t)
             \/ InsertAppendFail(t) \/ LockFail(t) \/ SerializeFail(t)
    BY <2>4, <1>c DEF InsertReject, InsertNoMemory, InsertOpenFail, InsertAppendFail,
                      LockFail, SerializeFail, Fail, Return, memory, LockInv
  <2>5. CASE InsertTear(t) \/ InsertReply(t) \/ SelectReply(t)
    BY <2>5, <1>c DEF InsertTear, InsertReply, SelectReply, Return, memory, LockInv
  <2>6. CASE WriteLock(t) \/ ReadLock(t) \/ InsertPrepare(t) \/ InsertAppend(t)
    BY <2>6, <1>c DEF WriteLock, ReadLock, InsertPrepare, InsertAppend, memory, LockInv
  <2>7. CASE SelectById(t) \/ SelectScan(t) \/ SelectEnd(t)
    BY <2>7, <1>c DEF SelectById, SelectScan, SelectEnd, memory, LockInv
  <2> QED
    BY <1>5, <2>1, <2>2, <2>3, <2>4, <2>5, <2>6, <2>7 DEF Step, InsertStep, SelectStep
<1>6. CASE UNCHANGED vars
  BY <1>6, <1>c DEF vars
<1> QED
  BY <1>1, <1>2, <1>3, <1>4, <1>5, <1>6 DEF Next, LoadStep

\* No row is forgotten by the index as long as its allocations succeed, across
\* restarts, failed inserts and duplicate refusals.
THEOREM IndexIsComplete ==
  ASSUME "index" \notin Faults
  PROVE  Spec => []IndexComplete
<1>1. Init => IndexComplete
  BY DEF Init, IndexComplete
<1>2. EngineInv /\ IndexComplete /\ [Next]_vars => IndexComplete'
  BY CompleteNext
<1> QED
  BY <1>1, <1>2, EngineInvariant, PTL DEF Spec

-----------------------------------------------------------------------------
(* Rows and ids, with torn lines and damaged files.  All that is assumed   *)
(* is that no number in the table reaches the end of int.                  *)

\* Every number that sscanf has read, and every id given, is an int below
\* INT_MAX; beyond it load_record and the next id are wrong (finding 2).
NumbersInRange ==
  \A i \in 1..Len(records) :
    records[i].id \in CInt \ {MaxInt} /\ records[i].age \in CInt

SoundRow(r) ==
  r.id \in Int /\ r.id > 0 /\ r.age \in Int /\ r.age >= 0 /\ NameIsValid(r.name)

NextIdAbove == \A i \in 1..Len(records) : records[i].id < nextId

\* Rows are valid from the moment that they are made or read, and the next id
\* lies above all of them.
ValidInv ==
  /\ RecordsValid
  /\ nextId \in Int /\ nextId > 0
  /\ NextIdAbove
  /\ DOMAIN req = Threads /\ DOMAIN row = Threads
  /\ \A t \in Threads : pc[t] \in {"wlock", "check"} => req[t] \in Inserts
  /\ \A t \in Threads : pc[t] \in {"append", "store"} => SoundRow(row[t])

\* A valid row whose numbers are in range may join the table.
LEMMA ValidAppend ==
  ASSUME EngineInv, ValidInv, NumbersInRange', NEW r,
         records' = Append(records, r), NameIsValid(r.name),
         r.id \in Int => r.id > 0, r.age \in Int => r.age >= 0,
         nextId' = IF r.id >= nextId THEN r.id + 1 ELSE nextId
  PROVE  /\ RecordsValid' /\ NextIdAbove'
         /\ nextId' \in Int /\ nextId' > 0
<1>0. PICK S : records \in Seq(S)
  BY DEF EngineInv, RoomInv
<1>1. /\ Len(records) \in Nat /\ Len(records') = Len(records) + 1
      /\ \A i \in 1..Len(records) : records'[i] = records[i]
      /\ records'[Len(records) + 1] = r
  BY <1>0, AppendAny
<1>2. \A i \in 1..Len(records') : i \in 1..Len(records) \/ i = Len(records) + 1
  BY <1>1
<1>3. /\ \A i \in 1..Len(records) : records[i].id \in Int
      /\ r.id \in Int /\ r.age \in Int
  <2>1. \A i \in 1..Len(records') : records'[i].id \in Int /\ records'[i].age \in Int
    BY DEF NumbersInRange, CInt
  <2>2. Len(records) + 1 \in 1..Len(records')
    BY <1>1
  <2> QED
    BY <1>1, <2>1, <2>2
<1>4. RecordsValid'
  BY <1>1, <1>2, <1>3 DEF RecordsValid, ValidInv, NameIsValid
<1>5. nextId' \in Int /\ nextId' > 0 /\ nextId' >= nextId /\ nextId' > r.id
  BY <1>3 DEF ValidInv
<1>6. NextIdAbove'
  BY <1>1, <1>2, <1>3, <1>5 DEF NextIdAbove, ValidInv
<1> QED
  BY <1>4, <1>5, <1>6

\* Every step keeps rows valid and the next id fresh.
LEMMA ValidNext ==
  ASSUME EngineInv, ValidInv, NumbersInRange', [Next]_vars
  PROVE  ValidInv'
<1> USE DEF EngineInv
<1>0. PICK S : records \in Seq(S)
  BY DEF RoomInv
<1>a. Len(records) \in Nat
  BY <1>0
<1>b. ASSUME records' = <<>>, nextId' = 1, DOMAIN req' = Threads, DOMAIN row' = Threads,
             \A t \in Threads : pc'[t] = "idle"
      PROVE  ValidInv'
  BY <1>b DEF ValidInv, RecordsValid, NextIdAbove
<1>c. ASSUME UNCHANGED <<records, nextId, req, row>>,
             \A t \in Threads : \/ pc'[t] = pc[t] \/ pc'[t] \notin {"wlock", "check", "append", "store"}
                                \/ (pc[t] = "wlock" /\ pc'[t] = "check")
                                \/ (pc[t] = "append" /\ pc'[t] = "store")
      PROVE  ValidInv'
  BY <1>c DEF ValidInv, RecordsValid, NextIdAbove, NameIsValid, SoundRow
<1>1. CASE DbInit \/ LoadBlank \/ LoadDone
  BY <1>1, <1>c DEF DbInit, LoadBlank, LoadDone, memory, locals
<1>2. CASE LoadRecord
  <2> DEFINE r == ScannedRow(Lines[cursor + 1])
  <2>1. /\ records' = Append(records, r) /\ nextId' = NextIdAfterLoad(r)
        /\ req' = req /\ row' = row /\ pc' = pc
        /\ NameIsValid(r.name) /\ ~(r.id <= 0) /\ ~(r.age < 0)
    BY <1>2 DEF LoadRecord, Refused, locals
  <2> HIDE DEF r
  <2>2. r.id \in Int /\ r.id < MaxInt
    <3>1. Len(records) + 1 \in 1..Len(records') /\ records'[Len(records) + 1] = r
      BY <1>0, <1>a, <2>1, AppendAny
    <3>2. r.id \in CInt \ {MaxInt}
      BY <3>1 DEF NumbersInRange
    <3> QED
      BY <3>2, MaxIntAssumption DEF CInt
  <2>3. nextId' = IF r.id >= nextId THEN r.id + 1 ELSE nextId
    BY <2>1, <2>2, MaxIntAssumption DEF NextIdAfterLoad, Wrap
  <2>4. (r.id \in Int => r.id > 0) /\ (r.age \in Int => r.age >= 0)
    BY <2>1
  <2>5. /\ RecordsValid' /\ NextIdAbove' /\ nextId' \in Int /\ nextId' > 0
    BY <2>1, <2>3, <2>4, ValidAppend
  <2>6. \A t \in Threads : pc'[t] = "idle"
    BY <1>2, <2>1 DEF LoadRecord, LockInv
  <2> QED
    BY <2>1, <2>5, <2>6 DEF ValidInv
<1>3. CASE LoadFail \/ Crash
  BY <1>3, <1>b DEF LoadFail, Crash, Forget, FreeTable
<1>4. CASE DbDestroy
  BY <1>4, <1>b DEF DbDestroy, FreeTable, WorkersJoined, locals, ValidInv
<1>5. ASSUME NEW t \in Threads, InsertCall(t) \/ SelectCall(t) PROVE ValidInv'
  <2>1. PICK q : /\ req' = [req EXCEPT ![t] = q] /\ row' = [row EXCEPT ![t] = <<>>]
                 /\ \/ pc' = [pc EXCEPT ![t] = "wlock"] /\ q \in Inserts
                    \/ pc' = [pc EXCEPT ![t] = "rlock"]
                 /\ records' = records /\ nextId' = nextId
    BY <1>5 DEF InsertCall, SelectCall, Call, memory
  <2>2. DOMAIN req' = Threads /\ DOMAIN row' = Threads
    BY <2>1 DEF ValidInv
  <2>3. RecordsValid' /\ NextIdAbove'
    BY <2>1 DEF ValidInv, RecordsValid, NextIdAbove
  <2>4. ASSUME NEW u \in Threads
        PROVE  /\ pc'[u] \in {"wlock", "check"} => req'[u] \in Inserts
               /\ pc'[u] \in {"append", "store"} => SoundRow(row'[u])
    BY <2>1 DEF ValidInv, LockInv
  <2> QED
    BY <2>1, <2>2, <2>3, <2>4 DEF ValidInv, SoundRow, NameIsValid
<1>6. ASSUME NEW t \in Threads, Step(t) PROVE ValidInv'
  <2>1. CASE InsertPrepare(t)
    <3> DEFINE r == [id |-> IF req[t].hasId THEN req[t].id ELSE nextId,
                     name |-> req[t].name, age |-> req[t].age]
    <3>1. /\ row' = [row EXCEPT ![t] = r] /\ req' = req
          /\ pc' = [pc EXCEPT ![t] = "append"]
          /\ records' = records /\ nextId' = nextId
          /\ pc[t] = "check" /\ ~InsertInvalid(req[t])
      BY <2>1 DEF InsertPrepare
    <3>2. SoundRow(r)
      <4>1. /\ req[t].hasId \in BOOLEAN /\ req[t].id \in CInt /\ req[t].age \in CInt
        BY <3>1, InsertsAssumption DEF ValidInv
      <4>2. /\ req[t].hasId => ~(req[t].id <= 0)
            /\ ~(req[t].age < 0) /\ NameIsValid(req[t].name)
        BY <3>1 DEF InsertInvalid
      <4> QED
        BY <4>1, <4>2, MaxIntAssumption DEF SoundRow, ValidInv, CInt
    <3>3. RecordsValid' /\ NextIdAbove'
      BY <3>1 DEF ValidInv, RecordsValid, NextIdAbove
    <3> HIDE DEF r
    <3>4. ASSUME NEW u \in Threads
          PROVE  /\ pc'[u] \in {"wlock", "check"} => req'[u] \in Inserts
                 /\ pc'[u] \in {"append", "store"} => SoundRow(row'[u])
      BY <3>1, <3>2 DEF ValidInv, LockInv
    <3>5. DOMAIN req' = Threads /\ DOMAIN row' = Threads
      BY <3>1 DEF ValidInv
    <3> QED
      BY <3>1, <3>3, <3>4, <3>5 DEF ValidInv
  <2>2. CASE InsertStore(t)
    <3>1. /\ records' = Append(records, row[t]) /\ nextId' = NextIdAfterInsert(row[t])
          /\ pc' = [pc EXCEPT ![t] = "index"] /\ req' = req /\ row' = row
          /\ SoundRow(row[t])
      BY <2>2 DEF InsertStore, locals, ValidInv
    <3>2. row[t].id < MaxInt
      <4>1. Len(records) + 1 \in 1..Len(records') /\ records'[Len(records) + 1] = row[t]
        BY <1>0, <1>a, <3>1, AppendAny
      <4>2. row[t].id \in CInt \ {MaxInt}
        BY <4>1 DEF NumbersInRange
      <4> QED
        BY <4>2, MaxIntAssumption DEF CInt
    <3>3. nextId' = IF row[t].id >= nextId THEN row[t].id + 1 ELSE nextId
      BY <3>1, <3>2 DEF NextIdAfterInsert
    <3>4. RecordsValid' /\ NextIdAbove' /\ nextId' \in Int /\ nextId' > 0
      BY <3>1, <3>3, ValidAppend DEF SoundRow
    <3>5. /\ \A u \in Threads : pc'[u] \in {"wlock", "check"} => req'[u] \in Inserts
          /\ \A u \in Threads : pc'[u] \in {"append", "store"} => SoundRow(row'[u])
      BY <3>1 DEF ValidInv, LockInv
    <3> QED
      BY <3>1, <3>4, <3>5 DEF ValidInv
  <2>3. CASE InsertIndexFail(t)
    BY <2>3, <1>c DEF InsertIndexFail, Fail, Return, locals, LockInv
  <2>4. CASE InsertReject(t) \/ InsertNoMemory(t) \/ InsertOpenFail(t)
             \/ InsertAppendFail(t) \/ LockFail(t) \/ SerializeFail(t)
    BY <2>4, <1>c DEF InsertReject, InsertNoMemory, InsertOpenFail, InsertAppendFail,
                      LockFail, SerializeFail, Fail, Return, memory, locals, LockInv
  <2>5. CASE InsertTear(t) \/ InsertReply(t) \/ SelectReply(t)
    BY <2>5, <1>c DEF InsertTear, InsertReply, SelectReply, Return, memory, locals, LockInv
  <2>6. CASE WriteLock(t) \/ ReadLock(t) \/ InsertAppend(t) \/ InsertIndex(t)
    BY <2>6, <1>c DEF WriteLock, ReadLock, InsertAppend, InsertIndex, memory, locals, LockInv
  <2>7. CASE SelectById(t) \/ SelectScan(t) \/ SelectEnd(t)
    BY <2>7, <1>c DEF SelectById, SelectScan, SelectEnd, memory, locals, LockInv
  <2> QED
    BY <1>6, <2>1, <2>2, <2>3, <2>4, <2>5, <2>6, <2>7 DEF Step, InsertStep, SelectStep
<1>7. CASE UNCHANGED vars
  BY <1>7, <1>c DEF vars
<1> QED
  BY <1>1, <1>2, <1>3, <1>4, <1>5, <1>6, <1>7 DEF Next, LoadStep

\* As long as the numbers stay below INT_MAX, rows are valid and the next id is
\* fresh, whatever torn lines and failed allocations have left.
THEOREM ValidInvariant == Spec /\ []NumbersInRange => []ValidInv
<1>1. Init => ValidInv
  BY DEF Init, ValidInv, RecordsValid, NextIdAbove
<1>2. EngineInv /\ ValidInv /\ NumbersInRange' /\ [Next]_vars => ValidInv'
  BY ValidNext
<1> QED
  BY <1>1, <1>2, EngineInvariant, PTL DEF Spec

\* Every row in memory is one that an INSERT could have made, also when appends
\* were torn and db_init read what they left.
THEOREM DamageStaysOut == Spec /\ []NumbersInRange => []RecordsValid
<1>1. ValidInv => RecordsValid
  BY DEF ValidInv
<1> QED
  BY <1>1, ValidInvariant, PTL

\* The next automatic id lies above every id in the table, also above the ids that
\* db_init reads from torn lines.
THEOREM NextIdClearsDamage == Spec /\ []NumbersInRange => []NextIdIsFresh
<1>1. ValidInv => NextIdIsFresh
  BY DEF ValidInv, NextIdAbove, NextIdIsFresh
<1> QED
  BY <1>1, ValidInvariant, PTL

-----------------------------------------------------------------------------
(***************************************************************************)
(* What the engine keeps.  This is proved for appends that leave no partial*)
(* line and for ids that stay below INT_MAX; the runs db_torn and db_intmax*)
(* show that without these hypotheses AckedDurable and UniqueIds are false.*)
(***************************************************************************)
HIDE FirstCapacityAssumption DEF FirstCapacityAssumption
HIDE WriterAssumption DEF WriterAssumption

-----------------------------------------------------------------------------
(* The operators of the model.                                             *)

\* The rows that db_init would make of the lines, one by one.
Scanned(lines) == [i \in 1..Len(lines) |-> ScannedRow(lines[i])]

LoadableAt(lines) == {i \in 1..Len(lines) : Loadable(lines[i])}

\* The recursive function in Table is the loop over the lines.
LEMMA TableDef ==
  ASSUME NEW S, NEW lines \in Seq(S)
  PROVE  \E g : /\ Picks(Scanned(lines), LoadableAt(lines), Len(lines), g)
                /\ Table(lines) = g[Len(lines)]
                /\ g[Len(lines)] \in Seq({ScannedRow(x) : x \in S})
<1> DEFINE s == Scanned(lines)  K == LoadableAt(lines)  N == Len(lines)
           Eq(g) == g = [n \in 0..N |->
              IF n = 0 THEN <<>>
              ELSE IF Loadable(lines[n]) THEN Append(g[n - 1], ScannedRow(lines[n]))
              ELSE g[n - 1]]
           R == {ScannedRow(x) : x \in S}
<1>0. N \in Nat /\ N \in 0..N /\ s \in Seq(R) /\ Len(s) = N
  <2>1. \A i \in 1..N : lines[i] \in S
    OBVIOUS
  <2> QED
    BY <2>1 DEF Scanned
<1>1. ASSUME NEW g PROVE Eq(g) <=> Picks(s, K, N, g)
  <2> DEFINE f1 == [n \in 0..N |->
              IF n = 0 THEN <<>>
              ELSE IF Loadable(lines[n]) THEN Append(g[n - 1], ScannedRow(lines[n]))
              ELSE g[n - 1]]
             f2 == [n \in 0..N |->
              IF n = 0 THEN <<>>
              ELSE IF n \in K THEN Append(g[n - 1], s[n]) ELSE g[n - 1]]
  <2>1. \A n \in 0..N : n # 0 => n \in 1..N
    BY <1>0
  <2>2. \A n \in 1..N : (n \in K <=> Loadable(lines[n])) /\ s[n] = ScannedRow(lines[n])
    BY DEF LoadableAt, Scanned
  <2>3. f1 = f2
    <3> HIDE DEF K, s
    <3> QED
      BY <2>1, <2>2
  <2> QED
    BY <2>3 DEF Picks
<1>2. PICK h \in [0..N -> Seq(R)] : Picks(s, K, N, h)
  <2> HIDE DEF s, K, N, R
  <2> QED
    BY <1>0, PicksExist
<1> DEFINE g == CHOOSE g : Eq(g)
<1>3. Eq(g)
  <2>1. Eq(h)
    BY <1>1, <1>2
  <2> QED
    BY <2>1
<1>4. Table(lines) = g[N]
  BY DEF Table
<1>5. Picks(s, K, N, g)
  <2> HIDE DEF g, Eq
  <2> QED
    BY <1>1, <1>3
<1>6. g[N] = h[N]
  <2> HIDE DEF s, K, N, R, g, Eq
  <2>1. Picks(s, K, Len(s), g) /\ Picks(s, K, Len(s), h)
    BY <1>0, <1>2, <1>5
  <2>2. g[Len(s)] = h[Len(s)]
    BY <1>0, <2>1, PicksUnique
  <2> QED
    BY <1>0, <2>2
<1>7. h[N] \in Seq(R)
  <2> HIDE DEF N, R
  <2> QED
    BY <1>0
<1> HIDE DEF g, Eq
<1> QED
  BY <1>4, <1>5, <1>6, <1>7

\* An empty file has no rows.
LEMMA TableEmpty == Table(<<>>) = <<>>
<1> DEFINE s == <<>>
<1>1. s \in Seq({}) /\ Len(s) = 0
  OBVIOUS
<1> HIDE DEF s
<1>2. PICK g : /\ Picks(Scanned(s), LoadableAt(s), Len(s), g)
               /\ Table(s) = g[Len(s)]
  BY <1>1, TableDef
<1>3. Table(s) = <<>>
  BY <1>1, <1>2 DEF Picks
<1> QED
  BY <1>3 DEF s

\* The rows of a file are a sequence.
LEMMA TableType ==
  ASSUME NEW S, NEW lines \in Seq(S)
  PROVE  Table(lines) \in Seq({ScannedRow(x) : x \in S})
  BY TableDef

\* A further line adds its row at the end, if it has one.
LEMMA TableAppend ==
  ASSUME NEW S, NEW lines \in Seq(S), NEW text \in S
  PROVE  Table(Append(lines, text)) =
           IF Loadable(text) THEN Append(Table(lines), ScannedRow(text)) ELSE Table(lines)
<1> DEFINE more == Append(lines, text)  N == Len(lines)
           s == Scanned(lines)  t == Scanned(more)
           K == LoadableAt(lines)  L == LoadableAt(more)
           R == {ScannedRow(x) : x \in S}
<1>1. /\ N \in Nat /\ more \in Seq(S) /\ Len(more) = N + 1 /\ more[N + 1] = text
      /\ \A i \in 1..N : lines[i] \in S /\ more[i] = lines[i]
  OBVIOUS
<1>2. /\ s \in Seq(R) /\ Len(s) = N
      /\ t \in Seq(R) /\ Len(t) = Len(s) + 1 /\ t[N + 1] = ScannedRow(text)
      /\ \A i \in 1..Len(s) : s[i] = t[i] /\ (i \in K <=> i \in L)
      /\ (N + 1 \in L <=> Loadable(text))
  <2> HIDE DEF more
  <2>1. N + 1 \in 1..N + 1 /\ \A i \in 1..N + 1 : more[i] \in S
    BY <1>1
  <2> QED
    BY <1>1, <2>1 DEF Scanned, LoadableAt
<1>3. PICK g : Picks(s, K, N, g) /\ Table(lines) = g[N]
  BY TableDef
<1>4. PICK h : Picks(t, L, Len(more), h) /\ Table(more) = h[Len(more)]
  <2> HIDE DEF more
  <2> QED
    BY <1>1, TableDef
<1>5. Picks(s, K, Len(s), g) /\ Picks(t, L, Len(t), h)
  <2> HIDE DEF more, N, s, t, K, L, R
  <2> QED
    BY <1>1, <1>2, <1>3, <1>4
<1>6. h[Len(t)] = IF Len(t) \in L THEN Append(g[Len(s)], t[Len(t)]) ELSE g[Len(s)]
  <2> HIDE DEF more, N, s, t, K, L, R
  <2> QED
    BY <1>2, <1>5, PicksAppend
<1> HIDE DEF more, N, s, t, K, L, R
<1>7. Table(more) = IF Loadable(text) THEN Append(Table(lines), ScannedRow(text)) ELSE Table(lines)
  BY <1>1, <1>2, <1>3, <1>4, <1>6
<1> QED
  BY <1>7 DEF more

\* Reading one line further.
LEMMA PrefixGrows ==
  ASSUME NEW S, NEW s \in Seq(S), NEW n \in 0..Len(s) - 1
  PROVE  /\ SubSeq(s, 1, n) \in Seq(S) /\ s[n + 1] \in S
         /\ SubSeq(s, 1, n + 1) = Append(SubSeq(s, 1, n), s[n + 1])
<1> DEFINE a == SubSeq(s, 1, n + 1)  b == Append(SubSeq(s, 1, n), s[n + 1])
<1>1. Len(s) \in Nat /\ n \in Nat /\ n + 1 \in 1..Len(s) /\ s[n + 1] \in S
  OBVIOUS
<1>2. /\ SubSeq(s, 1, n) \in Seq(S) /\ Len(SubSeq(s, 1, n)) = n
      /\ \A i \in 1..n : SubSeq(s, 1, n)[i] = s[i]
  BY <1>1
<1>3. a \in Seq(S) /\ Len(a) = n + 1 /\ \A i \in 1..n + 1 : a[i] = s[i]
  BY <1>1
<1>4. b \in Seq(S) /\ Len(b) = n + 1 /\ \A i \in 1..n + 1 : b[i] = s[i]
  BY <1>1, <1>2
<1>5. a = b
  <2> HIDE DEF a, b
  <2> QED
    BY <1>3, <1>4, SeqEqual
<1> QED
  BY <1>1, <1>2, <1>5

Prefix(p, q) == Len(p) <= Len(q) /\ \A i \in 1..Len(p) : q[i] = p[i]

\* What db_init has read so far is the beginning of the table.
LEMMA TablePrefix ==
  ASSUME NEW S, NEW lines \in Seq(S), NEW n \in 0..Len(lines)
  PROVE  Prefix(Table(SubSeq(lines, 1, n)), Table(lines))
<1> DEFINE p == Table(SubSeq(lines, 1, n))
           T == {d \in 0..Len(lines) - n : Prefix(p, Table(SubSeq(lines, 1, n + d)))}
           R == {ScannedRow(x) : x \in S}
<1>0. Len(lines) \in Nat /\ n \in Nat /\ Len(lines) - n \in Nat
  OBVIOUS
<1>a. p \in Seq(R)
  <2>1. SubSeq(lines, 1, n) \in Seq(S)
    OBVIOUS
  <2> QED
    BY <2>1, TableType
<1>1. 0 \in T
  <2>1. n + 0 = n /\ 0 \in 0..Len(lines) - n
    BY <1>0
  <2>2. Prefix(p, p)
    <3> HIDE DEF p
    <3> QED
      BY <1>a DEF Prefix
  <2> QED
    BY <2>1, <2>2
<1>2. ASSUME NEW d \in 0..(Len(lines) - n) - 1, d \in T PROVE d + 1 \in T
  <2> DEFINE m == n + d  q == Table(SubSeq(lines, 1, m))
  <2>1. m \in 0..Len(lines) - 1 /\ n + (d + 1) = m + 1 /\ d + 1 \in 0..Len(lines) - n
    BY <1>0
  <2>2. /\ SubSeq(lines, 1, m) \in Seq(S) /\ lines[m + 1] \in S
        /\ SubSeq(lines, 1, m + 1) = Append(SubSeq(lines, 1, m), lines[m + 1])
    <3> HIDE DEF m
    <3> QED
      BY <2>1, PrefixGrows
  <2>3. q \in Seq(R)
    <3> HIDE DEF m
    <3> QED
      BY <2>2, TableType
  <2>4. PICK e : Table(SubSeq(lines, 1, m + 1)) = q \/ (e \in R /\ Table(SubSeq(lines, 1, m + 1)) = Append(q, e))
    <3> HIDE DEF m
    <3> QED
      <4>1. Table(Append(SubSeq(lines, 1, m), lines[m + 1])) =
              IF Loadable(lines[m + 1]) THEN Append(q, ScannedRow(lines[m + 1])) ELSE q
        BY ONLY <2>2, TableAppend
      <4>2. ScannedRow(lines[m + 1]) \in R
        BY <2>2
      <4> HIDE DEF q, R
      <4> QED
        BY <2>2, <4>1, <4>2
  <2>5. Prefix(p, q)
    BY <1>2
  <2>6. Prefix(p, Table(SubSeq(lines, 1, m + 1)))
    <3> HIDE DEF p, q, m, R
    <3>1. CASE Table(SubSeq(lines, 1, m + 1)) = q
      BY <2>5, <3>1
    <3>2. CASE e \in R /\ Table(SubSeq(lines, 1, m + 1)) = Append(q, e)
      <4> DEFINE more == Append(q, e)
      <4>1. /\ Len(more) = Len(q) + 1 /\ Len(q) \in Nat /\ Len(p) \in Nat
            /\ \A i \in 1..Len(q) : more[i] = q[i]
        BY <1>a, <2>3, <3>2
      <4> HIDE DEF more
      <4>2. Prefix(p, more)
        BY <2>5, <4>1 DEF Prefix
      <4> QED
        BY <3>2, <4>2 DEF more
    <3> QED
      BY <2>4, <3>1, <3>2
  <2> QED
    BY <2>1, <2>6
<1> HIDE DEF T
<1>3. 0..Len(lines) - n \subseteq T
  BY <1>0, <1>1, <1>2, SetInduction
<1>4. Len(lines) - n \in T
  BY <1>0, <1>3
<1>5. Prefix(p, Table(SubSeq(lines, 1, n + (Len(lines) - n))))
  BY <1>4 DEF T
<1>6. SubSeq(lines, 1, n + (Len(lines) - n)) = lines
  <2>1. n + (Len(lines) - n) = Len(lines)
    BY <1>0
  <2> QED
    BY <2>1, <1>0
<1> QED
  BY <1>5, <1>6

\* The integer that %d reads where a row's number was written is that number.
LEMMA NumberRead ==
  ASSUME NEW n \in Int
  PROVE  NumberLength(<<n>>) = 1 /\ NumberValue(<<n>>) = n
<1> DEFINE field == <<n>>
<1>1. NumberLength(field) = 1
  BY DEF NumberLength, IsNumber
<1> DEFINE G(g) == [i \in 0..NumberLength(field) |->
             IF i = 0 THEN 0
             ELSE IF i = 1 THEN field[1]
             ELSE g[i - 1] * DecimalShift(field[i]) + field[i]]
           w == [i \in 0..1 |-> IF i = 0 THEN 0 ELSE n]
           v == CHOOSE g : g = G(g)
<1>2. w = G(w)
  BY <1>1
<1>3. v = G(v)
  <2> HIDE DEF w, G
  <2> QED
    BY <1>2
<1>4. v[1] = n
  <2> HIDE DEF v
  <2> QED
    BY <1>1, <1>3
<1>5. NumberValue(field) = v[NumberLength(field)]
  BY DEF NumberValue
<1> QED
  BY <1>1, <1>4, <1>5

\* A row that an INSERT may make is read back as it was written.
LEMMA RowRead ==
  ASSUME NEW r \in Row, r.id > 0, r.age >= 0, NameIsValid(r.name)
  PROVE  /\ RowText(r) \in Text
         /\ ScannedRow(RowText(r)) = r
         /\ Loadable(RowText(r))
<1> DEFINE text == RowText(r)
<1>1. /\ r.id \in Int /\ r.age \in Int /\ r.name \in Seq(Tokens)
      /\ r = [id |-> r.id, name |-> r.name, age |-> r.age]
  BY MaxIntAssumption DEF Row, CInt, MaxIntAssumption
<1>2. /\ Len(text) = 3 /\ text[1] = <<r.id>> /\ text[2] = r.name /\ text[3] = <<r.age>>
  BY DEF RowText
<1>3. text \in Text
  <2>1. Int \subseteq Tokens
    BY DEF Tokens
  <2>2. <<r.id>> \in Seq(Tokens) /\ <<r.age>> \in Seq(Tokens)
    BY <1>1, <2>1
  <2> QED
    BY <1>1, <2>2 DEF Text, RowText
<1>4. ScannedRow(text) = r
  <2>1. NumberValue(<<r.id>>) = r.id /\ NumberValue(<<r.age>>) = r.age
    BY <1>1, NumberRead
  <2> HIDE DEF text
  <2> QED
    BY <1>1, <1>2, <2>1 DEF ScannedRow
<1>5. ~Refused(text) /\ text # EmptyText
  <2>1. NumberLength(<<r.id>>) = 1 /\ NumberLength(<<r.age>>) = 1
        /\ Len(<<r.id>>) = 1
    BY <1>1, NumberRead
  <2>2. Len(r.name) > 0
    BY DEF NameIsValid
  <2>3. Len(EmptyText) = 1
    BY DEF EmptyText
  <2> HIDE DEF text
  <2>4. Scans(text)
    BY <1>2, <2>1, <2>2 DEF Scans
  <2>5. ~Refused(text)
    BY <1>1, <1>4, <2>4 DEF Refused
  <2> QED
    BY <1>2, <2>3, <2>5
<1> QED
  BY <1>3, <1>4, <1>5 DEF Loadable

-----------------------------------------------------------------------------
(* The invariants.                                                         *)

\* No append leaves a partial line behind.
NoTears == "tear" \notin Faults

\* The range of int suffices: requests and files use ids up to top only, and
\* MaxCalls automatic ids above top are still below INT_MAX.
IdsUpTo(top) ==
  /\ top + MaxCalls < MaxInt
  /\ \A q \in Inserts : q.id <= top
  /\ \A f \in InitialFiles :
       /\ Table(f) \in Seq(Row)
       /\ \A i \in 1..Len(Table(f)) : Table(f)[i].id <= top

\* What each thread was asked for fits the place it is at.
RequestInv ==
  /\ status \in {"down", "loading", "up"}
  /\ req \in [Threads -> Inserts \cup Selects \cup {<<>>}]
  /\ \A t \in Threads : pc[t] \in {"wlock"} \cup WriteSection => req[t] \in Inserts
  /\ \A t \in Threads : pc[t] \in {"rlock"} \cup ReadSection => req[t] \in Selects
  /\ seen \in [Threads -> Nat] /\ DOMAIN out = Threads /\ DOMAIN reply = Threads
  /\ tears \in 0..MaxTears /\ calls \in 0..MaxCalls /\ crashes \in 0..MaxCrashes

\* The file holds complete lines, of which db_init has read some.
FileInv ==
  /\ file \in Seq(Text) /\ tail = EmptyText
  /\ cursor \in 0..Len(file)

\* The inserts that have not yet written their line.
Pending == {t \in Threads : pc[t] \in {"wlock", "check", "append"}}

\* The ids in use: every call but the pending ones may have added one above top.
Highest(top) == top + calls - Cardinality(Pending)

\* The ids in the file, and the next one, are in the range of int.
IdInv(top) ==
  /\ Cardinality(Pending) <= calls
  /\ nextId \in 1..Highest(top) + 1
  /\ Table(file) \in Seq(Row)
  /\ \A i \in 1..Len(Table(file)) : Table(file)[i].id <= Highest(top)

ValidRow(r) == r.id > 0 /\ r.age >= 0 /\ NameIsValid(r.name)

\* From InsertPrepare on, the row is valid and is what was asked for.
RowInv(top) ==
  /\ row \in [Threads -> Row \cup {<<>>}]
  /\ \A t \in Threads :
       /\ pc[t] \in WriteSection \ {"check"} =>
            /\ row[t] \in Row /\ ValidRow(row[t])
            /\ req[t].hasId => row[t].id = req[t].id
            /\ row[t].name = req[t].name /\ row[t].age = req[t].age
       /\ pc[t] = "append" => row[t].id <= Highest(top) + 1
       /\ pc[t] = "store" => row[t].id <= Highest(top)

\* Memory is what has been read of the file, and what has been inserted.
MemoryInv ==
  /\ status = "down" => records = <<>>
  /\ status = "loading" => records = Table(SubSeq(file, 1, cursor))
  /\ status = "up" => Table(file) = records \o InFlight

\* The rows in memory are valid and have ids below the next one.
RecordsInv ==
  /\ records \in Seq(Row)
  /\ \A i \in 1..Len(records) : ValidRow(records[i]) /\ records[i].id < nextId

InFile(r) == \E i \in 1..Len(Table(file)) : Table(file)[i] = r

\* Acknowledged rows are in the file, and so are those about to be.
AckInv ==
  /\ acked \subseteq Row
  /\ \A r \in acked : InFile(r)
  /\ \A t \in Threads : pc[t] \in {"store", "index", "ireply"} => InFile(row[t])

TableInv(top) ==
  /\ EngineInv /\ RequestInv /\ FileInv /\ IdInv(top) /\ RowInv(top)
  /\ MemoryInv /\ RecordsInv /\ AckInv

\* Every step keeps the requests' part.
LEMMA RequestNext == LockInv /\ RequestInv /\ [Next]_vars => RequestInv'
<1> SUFFICES ASSUME LockInv, RequestInv, [Next]_vars PROVE RequestInv'
  OBVIOUS
<1> USE BoundsAssumption DEF RequestInv, BoundsAssumption
<1>1. CASE DbInit \/ LoadBlank \/ LoadRecord \/ LoadDone
  BY <1>1 DEF DbInit, LoadBlank, LoadRecord, LoadDone, locals, history
<1>2. CASE LoadFail \/ Crash
  BY <1>2 DEF LoadFail, Crash, Forget, FreeTable, history, WriteSection, ReadSection
<1>3. CASE DbDestroy
  BY <1>3 DEF DbDestroy, FreeTable, locals, history
<1>4. ASSUME NEW t \in Threads, InsertCall(t) \/ SelectCall(t) PROVE RequestInv'
  <2>1. CASE InsertCall(t)
    BY <2>1 DEF InsertCall, Call, WriteSection, ReadSection, LockInv
  <2>2. CASE SelectCall(t)
    BY <2>2 DEF SelectCall, Call, WriteSection, ReadSection, LockInv
  <2> QED
    BY <1>4, <2>1, <2>2
<1>5. ASSUME NEW t \in Threads, Step(t) PROVE RequestInv'
  <2> USE DEF LockInv, WriteSection, ReadSection
  <2>1. CASE InsertReject(t) \/ InsertNoMemory(t) \/ InsertOpenFail(t)
             \/ InsertAppendFail(t) \/ LockFail(t) \/ SerializeFail(t)
    BY <2>1 DEF InsertReject, InsertNoMemory, InsertOpenFail, InsertAppendFail,
                LockFail, SerializeFail, Fail, Return, locals, history
  <2>2. CASE InsertTear(t) \/ InsertReply(t) \/ SelectReply(t)
    BY <2>2 DEF InsertTear, InsertReply, SelectReply, Return, locals, history
  <2>3. CASE WriteLock(t) \/ ReadLock(t)
    BY <2>3 DEF WriteLock, ReadLock, locals, history
  <2>4. CASE InsertPrepare(t) \/ InsertAppend(t) \/ InsertStore(t) \/ InsertIndex(t)
    BY <2>4 DEF InsertPrepare, InsertAppend, InsertStore, InsertIndex, locals, history
  <2>5. CASE InsertIndexFail(t)
    BY <2>5 DEF InsertIndexFail, Fail, Return, locals, history
  <2>6. CASE SelectById(t) \/ SelectScan(t) \/ SelectEnd(t)
    BY <2>6 DEF SelectById, SelectScan, SelectEnd, locals, history
  <2> QED
    BY <1>5, <2>1, <2>2, <2>3, <2>4, <2>5, <2>6 DEF Step, InsertStep, SelectStep
<1>6. CASE UNCHANGED vars
  BY <1>6 DEF vars
<1> QED
  BY <1>1, <1>2, <1>3, <1>4, <1>5, <1>6 DEF Next, LoadStep

\* The pending inserts can be counted.
LEMMA PendingIsFinite == IsFiniteSet(Pending) /\ Cardinality(Pending) \in Nat
<1>1. Pending \in SUBSET Threads /\ IsFiniteSet(Threads)
  BY WriterAssumption DEF Pending, WriterAssumption
<1>2. IsFiniteSet(Pending)
  BY <1>1, FS_Subset
<1> QED
  BY <1>2, FS_CardinalityType

\* The same after a step.
LEMMA PendingIsFinitePrimed == IsFiniteSet(Pending') /\ Cardinality(Pending') \in Nat
<1>1. Pending' \in SUBSET Threads /\ IsFiniteSet(Threads)
  BY WriterAssumption DEF Pending, WriterAssumption
<1>2. IsFiniteSet(Pending')
  BY <1>1, FS_Subset
<1> QED
  BY <1>2, FS_CardinalityType

\* How the number of pending inserts changes with the place of one thread.
LEMMA PendingMoves ==
  ASSUME NEW t \in Threads, NEW p, pc \in [Threads -> Pcs], pc' = [pc EXCEPT ![t] = p]
  PROVE  Cardinality(Pending') =
           Cardinality(Pending)
             + (IF p \in {"wlock", "check", "append"} THEN 1 ELSE 0)
             - (IF pc[t] \in {"wlock", "check", "append"} THEN 1 ELSE 0)
<1> DEFINE W == {"wlock", "check", "append"}
<1>1. IsFiniteSet(Pending) /\ Cardinality(Pending) \in Nat
  BY PendingIsFinite
<1>2. CASE p \in W /\ pc[t] \notin W
  <2>1. Pending' = Pending \cup {t} /\ t \notin Pending
    BY <1>2 DEF Pending
  <2>2. Cardinality(Pending \cup {t}) = Cardinality(Pending) + 1
    BY <1>1, <2>1, FS_AddElement
  <2> QED
    BY <1>1, <1>2, <2>1, <2>2
<1>3. CASE p \notin W /\ pc[t] \in W
  <2>1. Pending' = Pending \ {t} /\ t \in Pending
    BY <1>3 DEF Pending
  <2>2. Cardinality(Pending \ {t}) = Cardinality(Pending) - 1
    BY <1>1, <2>1, FS_RemoveElement
  <2> QED
    BY <1>1, <1>3, <2>1, <2>2
<1>4. CASE p \in W <=> pc[t] \in W
  <2>1. Pending' = Pending
    BY <1>4 DEF Pending
  <2> QED
    BY <1>1, <1>4, <2>1
<1> QED
  BY <1>2, <1>3, <1>4

\* The number of ids in use never shrinks, and calls covers the pending inserts.
LEMMA HighestNext ==
  ASSUME NEW top \in Nat, LockInv, RequestInv, IdInv(top), [Next]_vars
  PROVE  /\ Highest(top) \in Nat /\ Highest(top)' \in Nat
         /\ Highest(top) <= Highest(top)'
         /\ Cardinality(Pending') <= calls'
         /\ \A t \in Threads : InsertAppend(t) => Highest(top)' = Highest(top) + 1
<1> DEFINE W == {"wlock", "check", "append"}
           C == Cardinality(Pending)  D == Cardinality(Pending')
<1>1. C \in Nat /\ D \in Nat /\ C <= calls /\ calls \in Nat
  BY PendingIsFinite, PendingIsFinitePrimed, BoundsAssumption
     DEF IdInv, RequestInv, BoundsAssumption
<1>2. Highest(top) = top + calls - C /\ Highest(top)' = top + calls' - D
  BY DEF Highest
<1>3. calls' \in Nat /\ D <= calls' /\ top + calls - C <= top + calls' - D
  <2>1. CASE pc' = pc /\ calls' = calls
    <3>1. Pending' = Pending
      BY <2>1 DEF Pending
    <3> QED
      BY <1>1, <2>1, <3>1
  <2>2. CASE (\A t \in Threads : pc'[t] = "idle") /\ calls' = calls
    <3>1. Pending' = {}
      BY <2>2 DEF Pending
    <3>2. D = 0
      BY <3>1, FS_EmptySet
    <3> HIDE DEF C, D
    <3> QED
      BY <1>1, <2>2, <3>2
  <2>3. ASSUME NEW t \in Threads, InsertCall(t) \/ SelectCall(t)
        PROVE  calls' \in Nat /\ D <= calls' /\ top + calls - C <= top + calls' - D
    <3>1. PICK p : pc' = [pc EXCEPT ![t] = p] /\ pc[t] = "idle" /\ calls' = calls + 1
      BY <2>3 DEF InsertCall, SelectCall, Call
    <3>2. D = C + (IF p \in W THEN 1 ELSE 0) - (IF pc[t] \in W THEN 1 ELSE 0)
      BY <3>1, PendingMoves DEF LockInv
    <3> HIDE DEF C, D
    <3> QED
      BY <1>1, <3>1, <3>2
  <2>4. ASSUME NEW t \in Threads, Step(t)
        PROVE  calls' \in Nat /\ D <= calls' /\ top + calls - C <= top + calls' - D
    <3>1. calls' = calls /\ \E p : pc' = [pc EXCEPT ![t] = p] /\ (p \in W => pc[t] \in W)
      <4>1. CASE InsertReject(t) \/ InsertNoMemory(t) \/ InsertOpenFail(t)
                 \/ InsertAppendFail(t) \/ LockFail(t) \/ SerializeFail(t)
        BY <4>1 DEF InsertReject, InsertNoMemory, InsertOpenFail, InsertAppendFail,
                    LockFail, SerializeFail, Fail, Return, history
      <4>2. CASE InsertTear(t) \/ InsertReply(t) \/ SelectReply(t)
        BY <4>2 DEF InsertTear, InsertReply, SelectReply, Return, history
      <4>3. CASE WriteLock(t) \/ ReadLock(t) \/ InsertPrepare(t) \/ InsertAppend(t)
        BY <4>3 DEF WriteLock, ReadLock, InsertPrepare, InsertAppend, history
      <4>4. CASE InsertStore(t) \/ InsertIndex(t) \/ InsertIndexFail(t)
        BY <4>4 DEF InsertStore, InsertIndex, InsertIndexFail, Fail, Return, history
      <4>5. CASE SelectById(t) \/ SelectEnd(t)
        BY <4>5 DEF SelectById, SelectEnd, history
      <4>6. CASE SelectScan(t)
        <5>1. pc' = [pc EXCEPT ![t] = pc[t]]
          BY <4>6 DEF SelectScan, LockInv
        <5> QED
          BY <4>6, <5>1 DEF SelectScan, history
      <4> QED
        BY <2>4, <4>1, <4>2, <4>3, <4>4, <4>5, <4>6 DEF Step, InsertStep, SelectStep
    <3>2. PICK p : pc' = [pc EXCEPT ![t] = p] /\ (p \in W => pc[t] \in W)
      BY <3>1
    <3>3. D = C + (IF p \in W THEN 1 ELSE 0) - (IF pc[t] \in W THEN 1 ELSE 0)
      BY <3>2, PendingMoves DEF LockInv
    <3> HIDE DEF C, D
    <3> QED
      BY <1>1, <3>1, <3>2, <3>3
  <2>5. CASE DbInit \/ LoadBlank \/ LoadRecord \/ LoadDone
    BY <2>5, <2>1 DEF DbInit, LoadBlank, LoadRecord, LoadDone, history
  <2>6. CASE LoadFail \/ Crash \/ DbDestroy
    BY <2>6, <2>2 DEF LoadFail, Crash, DbDestroy, WorkersJoined, Forget, FreeTable, history
  <2>7. CASE UNCHANGED vars
    BY <2>7, <2>1 DEF vars
  <2> QED
    BY <2>3, <2>4, <2>5, <2>6, <2>7 DEF Next, LoadStep
<1>4. ASSUME NEW t \in Threads, InsertAppend(t) PROVE Highest(top)' = Highest(top) + 1
  <2>1. pc[t] = "append" /\ pc' = [pc EXCEPT ![t] = "store"] /\ calls' = calls
    BY <1>4 DEF InsertAppend, history
  <2>2. D = C + (IF "store" \in W THEN 1 ELSE 0) - (IF pc[t] \in W THEN 1 ELSE 0)
    BY <2>1, PendingMoves DEF LockInv
  <2> HIDE DEF C, D
  <2> QED
    BY <1>1, <1>2, <2>1, <2>2
<1> HIDE DEF C, D
<1>5. D <= calls'
  BY <1>3
<1> QED
  BY <1>1, <1>2, <1>3, <1>4, <1>5 DEF D

\* A row's line behind a complete line is just the row's line.
LEMMA GlueToNothing ==
  ASSUME NEW r \in Row
  PROVE  Glue(EmptyText, RowText(r)) = RowText(r)
<1> DEFINE b == RowText(r)  a == EmptyText
<1>1. Len(b) = 3 /\ b = [i \in 1..3 |-> b[i]] /\ b[1] = <<r.id>>
  BY DEF RowText
<1>2. Len(a) = 1 /\ a[1] = <<>>
  BY DEF EmptyText
<1>3. <<>> \o <<r.id>> = <<r.id>>
  OBVIOUS
<1> HIDE DEF a, b
<1>4. Glue(a, b) = [i \in 1..3 |-> b[i]]
  <2>1. 1..Len(a) + Len(b) - 1 = 1..3
    BY <1>1, <1>2
  <2>2. ASSUME NEW i \in 1..3
        PROVE  (CASE i < Len(a) -> a[i]
                  [] i = Len(a) -> a[i] \o b[1]
                  [] i > Len(a) -> b[i - Len(a) + 1]) = b[i]
    <3>1. CASE i = 1
      <4>1. a[i] \o b[1] = b[i]
        BY <1>1, <1>2, <1>3, <3>1
      <4>2. ~(i < Len(a)) /\ ~(i > Len(a)) /\ i = Len(a)
        BY <1>2, <3>1
      <4> QED
        BY <4>1, <4>2
    <3>2. CASE i # 1
      <4>1. ~(i < Len(a)) /\ i > Len(a) /\ ~(i = Len(a)) /\ i - Len(a) + 1 = i
        BY <1>2, <3>2
      <4> QED
        BY <4>1
    <3> QED
      BY <3>1, <3>2
  <2> QED
    BY <2>1, <2>2 DEF Glue
<1> QED
  BY <1>1, <1>4 DEF a, b

\* InsertAppend adds the row to the table in the file.
LEMMA AppendStep ==
  ASSUME NEW top, FileInv, RowInv(top), NEW t \in Threads, InsertAppend(t)
  PROVE  /\ file' = Append(file, RowText(row[t])) /\ RowText(row[t]) \in Text
         /\ file' \in Seq(Text)
         /\ Table(file') = Append(Table(file), row[t])
<1>1. pc[t] = "append" /\ file' = Append(file, Glue(tail, RowText(row[t])))
  BY DEF InsertAppend, Appended
<1>2. row[t] \in Row /\ ValidRow(row[t])
  BY <1>1 DEF RowInv, WriteSection
<1>3. /\ RowText(row[t]) \in Text /\ ScannedRow(RowText(row[t])) = row[t]
      /\ Loadable(RowText(row[t]))
  BY <1>2, RowRead DEF ValidRow
<1>4. file' = Append(file, RowText(row[t]))
  BY <1>1, <1>2, GlueToNothing DEF FileInv
<1>5. Table(Append(file, RowText(row[t]))) = Append(Table(file), row[t])
  BY <1>3, TableAppend DEF FileInv
<1> QED
  BY <1>3, <1>4, <1>5 DEF FileInv

\* No other step writes to the file.
LEMMA OtherSteps ==
  ASSUME NoTears, [Next]_vars
  PROVE  UNCHANGED <<file, tail>> \/ \E t \in Threads : InsertAppend(t)
<1>1. CASE DbInit \/ LoadBlank \/ LoadRecord \/ LoadDone \/ LoadFail \/ DbDestroy \/ Crash
  BY <1>1 DEF DbInit, LoadBlank, LoadRecord, LoadDone, LoadFail, DbDestroy, Crash, disk
<1>2. ASSUME NEW t \in Threads, InsertCall(t) \/ SelectCall(t) PROVE UNCHANGED <<file, tail>>
  BY <1>2 DEF InsertCall, SelectCall, Call, disk
<1>3. ASSUME NEW t \in Threads, Step(t) PROVE UNCHANGED <<file, tail>> \/ InsertAppend(t)
  <2>1. CASE InsertReject(t) \/ InsertNoMemory(t) \/ InsertOpenFail(t)
             \/ InsertAppendFail(t) \/ LockFail(t) \/ SerializeFail(t)
    BY <2>1 DEF InsertReject, InsertNoMemory, InsertOpenFail, InsertAppendFail,
                LockFail, SerializeFail, disk
  <2>2. CASE InsertTear(t) \/ InsertReply(t) \/ SelectReply(t)
    BY <2>2 DEF InsertTear, InsertReply, SelectReply, disk, NoTears
  <2>3. CASE WriteLock(t) \/ ReadLock(t) \/ InsertPrepare(t) \/ InsertStore(t) \/ InsertIndex(t)
    BY <2>3 DEF WriteLock, ReadLock, InsertPrepare, InsertStore, InsertIndex, disk
  <2>4. CASE InsertIndexFail(t) \/ SelectById(t) \/ SelectScan(t) \/ SelectEnd(t)
    BY <2>4 DEF InsertIndexFail, SelectById, SelectScan, SelectEnd, disk
  <2> QED
    BY <1>3, <2>1, <2>2, <2>3, <2>4 DEF Step, InsertStep, SelectStep
<1>4. CASE UNCHANGED vars
  BY <1>4 DEF vars
<1> QED
  BY <1>1, <1>2, <1>3, <1>4 DEF Next, LoadStep

\* Every step keeps the file's part.
LEMMA FileNext ==
  ASSUME NoTears, NEW top, LockInv, FileInv, RowInv(top), [Next]_vars
  PROVE  FileInv'
<1>1. CASE UNCHANGED <<file, tail>> /\ cursor' \in 0..Len(file)
  BY <1>1 DEF FileInv
<1>2. ASSUME NEW t \in Threads, InsertAppend(t) PROVE FileInv'
  <2>1. file' = Append(file, RowText(row[t])) /\ RowText(row[t]) \in Text
    BY <1>2, AppendStep
  <2>2. tail' = EmptyText /\ cursor' = cursor
    BY <1>2 DEF InsertAppend
  <2>3. file' \in Seq(Text) /\ Len(file') = Len(file) + 1 /\ Len(file) \in Nat
    BY <2>1 DEF FileInv
  <2> QED
    BY <2>2, <2>3 DEF FileInv
<1>3. Lines = file /\ Len(file) \in Nat
  BY DEF FileInv, Lines
<1>4. cursor' \in 0..Len(file) \/ \E t \in Threads : InsertAppend(t)
  <2> USE DEF FileInv
  <2>1. CASE LoadBlank \/ LoadRecord
    BY <1>3, <2>1 DEF LoadBlank, LoadRecord
  <2>2. CASE DbInit \/ LoadDone \/ LoadFail \/ DbDestroy \/ Crash
    BY <1>3, <2>2 DEF DbInit, LoadDone, LoadFail, DbDestroy, Crash, Forget, FreeTable
  <2>3. ASSUME NEW t \in Threads, InsertCall(t) \/ SelectCall(t) PROVE cursor' = cursor
    BY <2>3 DEF InsertCall, SelectCall, Call
  <2>4. ASSUME NEW t \in Threads, Step(t) PROVE cursor' = cursor
    <3>1. CASE InsertReject(t) \/ InsertNoMemory(t) \/ InsertOpenFail(t)
               \/ InsertAppendFail(t) \/ LockFail(t) \/ SerializeFail(t)
      BY <3>1 DEF InsertReject, InsertNoMemory, InsertOpenFail, InsertAppendFail,
                  LockFail, SerializeFail, Fail
    <3>2. CASE InsertTear(t) \/ InsertReply(t) \/ SelectReply(t) \/ InsertAppend(t)
      BY <3>2 DEF InsertTear, InsertReply, SelectReply, InsertAppend
    <3>3. CASE WriteLock(t) \/ ReadLock(t) \/ InsertPrepare(t) \/ InsertStore(t) \/ InsertIndex(t)
      BY <3>3 DEF WriteLock, ReadLock, InsertPrepare, InsertStore, InsertIndex
    <3>4. CASE InsertIndexFail(t) \/ SelectById(t) \/ SelectScan(t) \/ SelectEnd(t)
      BY <3>4 DEF InsertIndexFail, SelectById, SelectScan, SelectEnd, Fail
    <3> QED
      BY <2>4, <3>1, <3>2, <3>3, <3>4 DEF Step, InsertStep, SelectStep
  <2>5. CASE UNCHANGED vars
    BY <2>5 DEF vars
  <2> QED
    BY <2>1, <2>2, <2>3, <2>4, <2>5 DEF Next, LoadStep
<1> QED
  BY <1>1, <1>2, <1>4, OtherSteps

\* What load_record takes in is the next row of the table in the file.
LEMMA LoadedRow ==
  ASSUME NEW top, FileInv, IdInv(top), MemoryInv, LoadRecord
  PROVE  LET r == ScannedRow(file[cursor + 1])
         IN  /\ records' = Append(records, r) /\ nextId' = NextIdAfterLoad(r)
             /\ records' = Table(SubSeq(file, 1, cursor + 1))
             /\ r \in Row /\ ValidRow(r) /\ r.id <= Highest(top)
<1> DEFINE line == file[cursor + 1]  r == ScannedRow(line)  n == cursor
           before == Table(SubSeq(file, 1, n))  after == Table(SubSeq(file, 1, n + 1))
           table == Table(file)  S == {ScannedRow(x) : x \in Text}
<1>1. Lines = file /\ n \in 0..Len(file) - 1 /\ Len(file) \in Nat /\ n + 1 \in 0..Len(file)
  BY DEF FileInv, LoadRecord, Lines
<1>2. /\ records' = Append(records, r) /\ nextId' = NextIdAfterLoad(r)
      /\ Loadable(line) /\ ~Refused(line) /\ records = before
  BY <1>1 DEF LoadRecord, Loadable, MemoryInv
<1>3. /\ SubSeq(file, 1, n) \in Seq(Text) /\ line \in Text
      /\ SubSeq(file, 1, n + 1) = Append(SubSeq(file, 1, n), line)
  BY <1>1, PrefixGrows DEF FileInv
<1>4. after = Append(before, r)
  BY <1>2, <1>3, TableAppend
<1>5. before \in Seq(S) /\ r \in S
  BY <1>3, TableType
<1>6. Prefix(after, table)
  BY <1>1, TablePrefix DEF FileInv
<1>7. /\ Len(after) = Len(before) + 1 /\ after[Len(before) + 1] = r /\ Len(before) \in Nat
  <2> HIDE DEF before, after, r, S
  <2> QED
    BY <1>4, <1>5
<1>8. r \in Row /\ r.id <= Highest(top)
  <2>1. table \in Seq(Row) /\ \A i \in 1..Len(table) : table[i].id <= Highest(top)
    BY DEF IdInv
  <2> HIDE DEF before, after, r, table
  <2>2. Len(before) + 1 \in 1..Len(table) /\ table[Len(before) + 1] = r
    BY <1>6, <1>7, <2>1 DEF Prefix
  <2> QED
    BY <2>1, <2>2
<1>9. ValidRow(r)
  <2>1. r.id \in Int /\ r.age \in Int
    BY <1>8, MaxIntAssumption DEF Row, CInt, MaxIntAssumption
  <2> QED
    BY <1>2, <2>1 DEF Refused, ValidRow
<1> QED
  BY <1>2, <1>4, <1>8, <1>9

\* Which steps assign the next id.
LEMMA NextIdSteps ==
  ASSUME [Next]_vars
  PROVE  \/ UNCHANGED <<records, nextId>>
         \/ records' = <<>> /\ nextId' = 1
         \/ LoadRecord
         \/ \E t \in Threads : InsertStore(t)
<1>1. CASE DbInit \/ LoadBlank \/ LoadDone \/ LoadFail \/ DbDestroy \/ Crash
  BY <1>1 DEF DbInit, LoadBlank, LoadDone, LoadFail, DbDestroy, Crash, Forget, FreeTable, memory
<1>2. ASSUME NEW t \in Threads, InsertCall(t) \/ SelectCall(t) PROVE UNCHANGED <<records, nextId>>
  BY <1>2 DEF InsertCall, SelectCall, Call, memory
<1>3. ASSUME NEW t \in Threads, Step(t) PROVE UNCHANGED <<records, nextId>> \/ InsertStore(t)
  <2>1. CASE InsertReject(t) \/ InsertNoMemory(t) \/ InsertOpenFail(t)
             \/ InsertAppendFail(t) \/ LockFail(t) \/ SerializeFail(t)
    BY <2>1 DEF InsertReject, InsertNoMemory, InsertOpenFail, InsertAppendFail,
                LockFail, SerializeFail, memory
  <2>2. CASE InsertTear(t) \/ InsertReply(t) \/ SelectReply(t) \/ InsertAppend(t)
    BY <2>2 DEF InsertTear, InsertReply, SelectReply, InsertAppend, memory
  <2>3. CASE WriteLock(t) \/ ReadLock(t) \/ InsertPrepare(t) \/ InsertIndex(t)
    BY <2>3 DEF WriteLock, ReadLock, InsertPrepare, InsertIndex, memory
  <2>4. CASE InsertIndexFail(t) \/ SelectById(t) \/ SelectScan(t) \/ SelectEnd(t)
    BY <2>4 DEF InsertIndexFail, SelectById, SelectScan, SelectEnd, memory
  <2> QED
    BY <1>3, <2>1, <2>2, <2>3, <2>4 DEF Step, InsertStep, SelectStep
<1>4. CASE UNCHANGED vars
  BY <1>4 DEF vars
<1> QED
  BY <1>1, <1>2, <1>3, <1>4 DEF Next, LoadStep

\* Below INT_MAX the next id never wraps and never stays behind.
LEMMA NextIdMoves ==
  ASSUME NEW top \in Nat, IdsUpTo(top), RequestInv, IdInv(top),
         NEW r \in Row, r.id > 0, r.id <= Highest(top)
  PROVE  /\ NextIdAfterLoad(r) \in 1..Highest(top) + 1 /\ NextIdAfterInsert(r) \in 1..Highest(top) + 1
         /\ nextId <= NextIdAfterLoad(r) /\ nextId <= NextIdAfterInsert(r)
         /\ r.id < NextIdAfterLoad(r) /\ r.id < NextIdAfterInsert(r)
<1>1. /\ r.id \in Int /\ calls \in Nat /\ MaxCalls \in Nat /\ calls <= MaxCalls
      /\ MaxInt \in Nat /\ Cardinality(Pending) \in Nat
  BY MaxIntAssumption, BoundsAssumption, PendingIsFinite
     DEF Row, CInt, RequestInv, BoundsAssumption, MaxIntAssumption
<1>2. Highest(top) \in Int /\ Highest(top) < MaxInt
  <2>1. top + MaxCalls < MaxInt
    BY DEF IdsUpTo
  <2> QED
    BY <1>1, <2>1 DEF Highest
<1>3. nextId \in 1..Highest(top) + 1
  BY DEF IdInv
<1> QED
  BY <1>1, <1>2, <1>3 DEF NextIdAfterLoad, NextIdAfterInsert, Wrap

\* Every step keeps the ids' part.
LEMMA IdNext ==
  ASSUME NoTears, NEW top \in Nat, IdsUpTo(top), TableInv(top), [Next]_vars
  PROVE  IdInv(top)'
<1> USE DEF TableInv
<1>1. /\ Highest(top) \in Nat /\ Highest(top)' \in Nat /\ Highest(top) <= Highest(top)'
      /\ Cardinality(Pending') <= calls'
      /\ \A t \in Threads : InsertAppend(t) => Highest(top)' = Highest(top) + 1
  BY HighestNext DEF EngineInv
<1>2. nextId' \in 1..Highest(top)' + 1
  <2>1. CASE UNCHANGED <<records, nextId>>
    BY <1>1, <2>1 DEF IdInv
  <2>2. CASE nextId' = 1
    BY <1>1, <2>2
  <2>3. CASE LoadRecord
    <3> DEFINE r == ScannedRow(file[cursor + 1])
    <3>1. nextId' = NextIdAfterLoad(r) /\ r \in Row /\ ValidRow(r) /\ r.id <= Highest(top)
      BY <2>3, LoadedRow
    <3> HIDE DEF r
    <3>2. NextIdAfterLoad(r) \in 1..Highest(top) + 1
      BY <3>1, NextIdMoves DEF ValidRow
    <3> QED
      BY <1>1, <3>1, <3>2
  <2>4. ASSUME NEW t \in Threads, InsertStore(t) PROVE nextId' \in 1..Highest(top)' + 1
    <3>1. /\ nextId' = NextIdAfterInsert(row[t]) /\ row[t] \in Row /\ ValidRow(row[t])
          /\ row[t].id <= Highest(top)
      BY <2>4 DEF InsertStore, RowInv, WriteSection
    <3>2. NextIdAfterInsert(row[t]) \in 1..Highest(top) + 1
      BY <3>1, NextIdMoves DEF ValidRow
    <3> QED
      BY <1>1, <3>1, <3>2
  <2> QED
    BY <2>1, <2>2, <2>3, <2>4, NextIdSteps
<1>3. /\ Table(file') \in Seq(Row)
      /\ \A i \in 1..Len(Table(file')) : Table(file')[i].id <= Highest(top)'
  <2> DEFINE table == Table(file)  table1 == Table(file')
  <2>0. /\ table \in Seq(Row) /\ \A i \in 1..Len(table) : table[i].id <= Highest(top)
        /\ \A i \in 1..Len(table) : table[i].id \in Int
    <3>1. \A r \in Row : r.id \in Int
      BY MaxIntAssumption DEF Row, CInt, MaxIntAssumption
    <3>2. table \in Seq(Row) /\ \A i \in 1..Len(table) : table[i].id <= Highest(top)
      BY DEF IdInv
    <3> HIDE DEF table
    <3> QED
      BY <3>1, <3>2
  <2>1. ASSUME UNCHANGED <<file, tail>>
        PROVE  table1 \in Seq(Row) /\ \A i \in 1..Len(table1) : table1[i].id <= Highest(top)'
    <3>1. table1 = table
      BY <2>1
    <3> HIDE DEF table, table1
    <3> QED
      BY <1>1, <2>0, <3>1
  <2>2. ASSUME NEW t \in Threads, InsertAppend(t)
        PROVE  table1 \in Seq(Row) /\ \A i \in 1..Len(table1) : table1[i].id <= Highest(top)'
    <3>1. table1 = Append(table, row[t])
      BY <2>2, AppendStep
    <3>2. row[t] \in Row /\ row[t].id <= Highest(top) + 1
      BY <2>2 DEF InsertAppend, RowInv, WriteSection
    <3>3. Highest(top)' = Highest(top) + 1
      BY <1>1, <2>2
    <3> HIDE DEF table, table1
    <3> QED
      BY <1>1, <2>0, <3>1, <3>2, <3>3
  <2> QED
    BY <2>1, <2>2, OtherSteps
<1> QED
  BY <1>1, <1>2, <1>3 DEF IdInv

\* Ids are integers.
LEMMA RowIdIsInt == \A r \in Row : r.id \in Int /\ r.age \in Int
  BY MaxIntAssumption DEF Row, CInt, MaxIntAssumption

\* Every step keeps the part of the rows being inserted.
LEMMA RowNext ==
  ASSUME NoTears, NEW top \in Nat, IdsUpTo(top), TableInv(top), [Next]_vars
  PROVE  RowInv(top)'
<1> USE DEF TableInv, EngineInv
<1> DEFINE V == WriteSection \ {"check"}
<1>0. /\ Highest(top) \in Nat /\ Highest(top)' \in Nat /\ Highest(top) <= Highest(top)'
      /\ \A t \in Threads : InsertAppend(t) => Highest(top)' = Highest(top) + 1
  BY HighestNext
<1>p. pc \in [Threads -> Pcs]
  BY DEF LockInv
<1>a. ASSUME \A t \in Threads : pc'[t] = "idle", row' = row \/ row' = [t \in Threads |-> <<>>]
      PROVE  RowInv(top)'
  BY <1>a DEF RowInv, WriteSection
<1>b. ASSUME UNCHANGED <<pc, row, req>> PROVE RowInv(top)'
  BY <1>b, <1>0, RowIdIsInt DEF RowInv, WriteSection
<1>c. ASSUME NEW t \in Threads, NEW p, UNCHANGED <<row, req>>, pc' = [pc EXCEPT ![t] = p],
             p \in V => pc[t] \in V, p \notin {"append", "store"}
      PROVE  RowInv(top)'
  <2>1. ASSUME NEW u \in Threads, u # t PROVE pc'[u] = pc[u]
    BY <1>c, <1>p, <2>1
  <2>2. pc'[t] = p
    BY <1>c, <1>p
  <2>3. ASSUME NEW u \in Threads
        PROVE  /\ pc'[u] \in V => pc[u] \in V
               /\ pc'[u] = "append" => pc[u] = "append"
               /\ pc'[u] = "store" => pc[u] = "store"
    BY <1>c, <2>1, <2>2
  <2> QED
    BY <1>c, <1>0, <2>3, RowIdIsInt DEF RowInv, WriteSection
<1>1. CASE DbInit \/ LoadBlank \/ LoadDone \/ LoadRecord
  BY <1>1, <1>b DEF DbInit, LoadBlank, LoadDone, LoadRecord, locals
<1>2. CASE LoadFail \/ Crash \/ DbDestroy
  BY <1>2, <1>a DEF LoadFail, Crash, DbDestroy, WorkersJoined, Forget, FreeTable, locals
<1>3. ASSUME NEW t \in Threads, InsertCall(t) \/ SelectCall(t) PROVE RowInv(top)'
  <2>1. PICK p \in {"wlock", "rlock"} : pc' = [pc EXCEPT ![t] = p]
    BY <1>3 DEF InsertCall, SelectCall, Call
  <2>2. row' = [row EXCEPT ![t] = <<>>] /\ \E q : req' = [req EXCEPT ![t] = q]
    BY <1>3 DEF InsertCall, SelectCall, Call
  <2>3. ASSUME NEW u \in Threads, pc'[u] \in V
        PROVE  u # t /\ pc'[u] = pc[u] /\ row'[u] = row[u] /\ req'[u] = req[u]
    BY <1>p, <2>1, <2>2, <2>3 DEF WriteSection, RowInv, RequestInv
  <2>4. row' \in [Threads -> Row \cup {<<>>}]
    BY <2>2 DEF RowInv
  <2> QED
    BY <1>0, <2>3, <2>4, RowIdIsInt DEF RowInv, WriteSection
<1>4. ASSUME NEW t \in Threads, Step(t) PROVE RowInv(top)'
  <2>1. CASE InsertReject(t) \/ InsertNoMemory(t) \/ InsertOpenFail(t)
             \/ InsertAppendFail(t) \/ LockFail(t) \/ SerializeFail(t)
    BY <2>1, <1>c DEF InsertReject, InsertNoMemory, InsertOpenFail, InsertAppendFail,
                LockFail, SerializeFail, Fail, Return, locals, WriteSection
  <2>2. CASE InsertTear(t) \/ InsertReply(t) \/ SelectReply(t)
    BY <2>2, <1>c DEF InsertTear, InsertReply, SelectReply, Return, locals, WriteSection
  <2>3. CASE WriteLock(t) \/ ReadLock(t) \/ InsertStore(t) \/ InsertIndex(t)
    <3>1. PICK p : /\ pc' = [pc EXCEPT ![t] = p] /\ UNCHANGED <<row, req>>
                   /\ p \in V => pc[t] \in V
                   /\ p \notin {"append", "store"}
      BY <2>3 DEF WriteLock, ReadLock, InsertStore, InsertIndex, locals, WriteSection
    <3> QED
      BY <3>1, <1>c
  <2>4. CASE InsertIndexFail(t)
    BY <2>4, <1>c DEF InsertIndexFail, Fail, Return, locals, WriteSection
  <2>5. CASE SelectById(t) \/ SelectEnd(t)
    BY <2>5, <1>c DEF SelectById, SelectEnd, locals, WriteSection
  <2>6. CASE SelectScan(t)
    BY <2>6, <1>b DEF SelectScan
  <2>7. CASE InsertPrepare(t)
    <3> DEFINE q == req[t]
               r == [id |-> IF q.hasId THEN q.id ELSE nextId, name |-> q.name, age |-> q.age]
    <3>1. /\ pc[t] = "check" /\ ~InsertInvalid(q) /\ row' = [row EXCEPT ![t] = r]
          /\ pc' = [pc EXCEPT ![t] = "append"] /\ req' = req
      BY <2>7 DEF InsertPrepare
    <3>2. /\ q \in Inserts /\ q.hasId \in BOOLEAN /\ q.id \in CInt
          /\ q.name \in Seq(Tokens) /\ q.age \in CInt
      BY <3>1, InsertsAssumption DEF RequestInv, WriteSection, InsertsAssumption
    <3>3. nextId \in 1..Highest(top) + 1 /\ q.id <= top /\ top + MaxCalls < MaxInt
      BY <3>2 DEF IdInv, IdsUpTo
    <3>4. /\ MaxInt \in Nat /\ calls \in Nat /\ MaxCalls \in Nat /\ calls <= MaxCalls
          /\ Cardinality(Pending) \in Nat /\ Cardinality(Pending) <= calls
      BY MaxIntAssumption, BoundsAssumption, PendingIsFinite
         DEF MaxIntAssumption, BoundsAssumption, RequestInv, IdInv
    <3>5. Highest(top) = top + calls - Cardinality(Pending)
      BY DEF Highest
    <3>6. nextId \in CInt /\ nextId > 0 /\ q.id \in Int /\ q.age \in Int /\ q.id <= Highest(top) + 1
      BY <3>2, <3>3, <3>4, <3>5 DEF CInt
    <3>7. r \in Row /\ ValidRow(r) /\ r.id <= Highest(top) + 1
      <4>1. r.id = IF q.hasId THEN q.id ELSE nextId
        OBVIOUS
      <4>2. r.name = q.name /\ r.age = q.age
        OBVIOUS
      <4>3. r.id > 0 /\ r.id \in CInt /\ r.id <= Highest(top) + 1
        <5>1. CASE q.hasId
          BY <3>1, <3>2, <3>6, <4>1, <5>1 DEF InsertInvalid
        <5>2. CASE ~q.hasId
          BY <3>3, <3>6, <4>1, <5>2, <1>0
        <5> QED
          BY <5>1, <5>2
      <4>4. r.age >= 0 /\ NameIsValid(r.name)
        BY <3>1, <3>6, <4>2 DEF InsertInvalid
      <4>5. r \in Row
        BY <3>2, <4>3 DEF Row
      <4> HIDE DEF r
      <4> QED
        BY <4>3, <4>4, <4>5 DEF ValidRow
    <3>8. q.hasId => r.id = q.id
      OBVIOUS
    <3>9. r.name = q.name /\ r.age = q.age
      OBVIOUS
    <3>10. \A u \in Threads : u # t => pc'[u] = pc[u] /\ pc[u] \notin V /\ row'[u] = row[u]
      BY <3>1, <1>p DEF RowInv, LockInv, WriteSection
    <3>11. pc'[t] = "append" /\ row'[t] = r
      BY <3>1, <1>p DEF RowInv
    <3> HIDE DEF r
    <3>12. r.id <= Highest(top)' + 1
      BY <3>7, <1>0, RowIdIsInt
    <3>13. row' \in [Threads -> Row \cup {<<>>}]
      BY <3>1, <3>7 DEF RowInv
    <3>14. ASSUME NEW u \in Threads
           PROVE  /\ pc'[u] \in V =>
                       /\ row'[u] \in Row /\ ValidRow(row'[u])
                       /\ req'[u].hasId => row'[u].id = req'[u].id
                       /\ row'[u].name = req'[u].name /\ row'[u].age = req'[u].age
                  /\ pc'[u] = "append" => row'[u].id <= Highest(top)' + 1
                  /\ pc'[u] = "store" => row'[u].id <= Highest(top)'
      <4>1. CASE u = t
        BY <4>1, <3>1, <3>7, <3>8, <3>9, <3>11, <3>12
      <4>2. CASE u # t
        BY <4>2, <3>10 DEF WriteSection
      <4> QED
        BY <4>1, <4>2
    <3> HIDE DEF V
    <3> QED
      BY <3>13, <3>14 DEF RowInv, V, ValidRow
  <2>8. CASE InsertAppend(t)
    <3>1. pc[t] = "append" /\ pc' = [pc EXCEPT ![t] = "store"] /\ row' = row /\ req' = req
      BY <2>8 DEF InsertAppend, locals
    <3>2. Highest(top)' = Highest(top) + 1
      BY <2>8, <1>0
    <3>3. ASSUME NEW u \in Threads
          PROVE  /\ pc'[u] \in V => pc[u] \in V
                 /\ pc'[u] = "append" => FALSE
                 /\ pc'[u] = "store" => u = t
      BY <3>1, <1>p DEF LockInv, WriteSection
    <3> QED
      BY <3>1, <3>2, <3>3, <1>0, RowIdIsInt DEF RowInv, WriteSection
  <2> QED
    BY <1>4, <2>1, <2>2, <2>3, <2>4, <2>5, <2>6, <2>7, <2>8 DEF Step, InsertStep, SelectStep
<1>5. CASE UNCHANGED vars
  BY <1>5, <1>b DEF vars
<1> QED
  BY <1>1, <1>2, <1>3, <1>4, <1>5 DEF Next, LoadStep

\* Every step keeps the part of the rows in memory.
LEMMA RecordsNext ==
  ASSUME NEW top \in Nat, IdsUpTo(top), TableInv(top), [Next]_vars
  PROVE  RecordsInv'
<1> USE DEF TableInv
<1>0. /\ records \in Seq(Row) /\ Len(records) \in Nat /\ nextId \in Int
      /\ \A i \in 1..Len(records) : /\ ValidRow(records[i]) /\ records[i].id < nextId
                                    /\ records[i].id \in Int
  BY RowIdIsInt DEF RecordsInv, IdInv
<1>1. ASSUME NEW r \in Row, ValidRow(r), records' = Append(records, r), nextId' \in Int,
             nextId <= nextId', r.id < nextId'
      PROVE  RecordsInv'
  <2>1. records' \in Seq(Row) /\ Len(records') = Len(records) + 1 /\ records'[Len(records) + 1] = r
        /\ \A i \in 1..Len(records) : records'[i] = records[i]
    BY <1>0, <1>1
  <2>2. ASSUME NEW i \in 1..Len(records') PROVE ValidRow(records'[i]) /\ records'[i].id < nextId'
    <3>1. CASE i = Len(records) + 1
      BY <1>1, <2>1, <3>1
    <3>2. CASE i \in 1..Len(records)
      BY <1>0, <1>1, <2>1, <3>2
    <3> QED
      BY <1>0, <2>1, <3>1, <3>2
  <2> QED
    BY <2>1, <2>2 DEF RecordsInv, ValidRow
<1>2. CASE UNCHANGED <<records, nextId>>
  BY <1>2 DEF RecordsInv
<1>3. CASE records' = <<>> /\ nextId' = 1
  BY <1>3 DEF RecordsInv
<1>4. CASE LoadRecord
  <2> DEFINE r == ScannedRow(file[cursor + 1])
  <2>1. /\ records' = Append(records, r) /\ nextId' = NextIdAfterLoad(r)
        /\ r \in Row /\ ValidRow(r) /\ r.id <= Highest(top)
    BY <1>4, LoadedRow
  <2> HIDE DEF r
  <2>2. /\ NextIdAfterLoad(r) \in 1..Highest(top) + 1
        /\ nextId <= NextIdAfterLoad(r) /\ r.id < NextIdAfterLoad(r)
    BY <2>1, NextIdMoves DEF ValidRow
  <2> QED
    BY <1>1, <2>1, <2>2
<1>5. ASSUME NEW t \in Threads, InsertStore(t) PROVE RecordsInv'
  <2>1. /\ records' = Append(records, row[t]) /\ nextId' = NextIdAfterInsert(row[t])
        /\ row[t] \in Row /\ ValidRow(row[t]) /\ row[t].id <= Highest(top)
    BY <1>5 DEF InsertStore, RowInv, WriteSection
  <2>2. /\ NextIdAfterInsert(row[t]) \in 1..Highest(top) + 1
        /\ nextId <= NextIdAfterInsert(row[t]) /\ row[t].id < NextIdAfterInsert(row[t])
    BY <2>1, NextIdMoves DEF ValidRow
  <2> QED
    BY <1>1, <2>1, <2>2
<1> QED
  BY <1>2, <1>3, <1>4, <1>5, NextIdSteps

\* No row is in flight unless an insert is between its line and the array.
LEMMA NoneInFlight == (\A t \in Threads : pc[t] # "store") => InFlight = <<>>
  BY DEF InFlight

\* The row in flight is that of the insert which has written its line.
LEMMA OneInFlight == \A t \in Threads : LockInv /\ pc[t] = "store" => InFlight = <<row[t]>>
<1> SUFFICES ASSUME NEW t \in Threads, LockInv, pc[t] = "store" PROVE InFlight = <<row[t]>>
  OBVIOUS
<1> DEFINE T == {u \in Threads : pc[u] = "store"}
<1>1. T = {t}
  BY DEF LockInv, WriteSection
<1>2. (CHOOSE u \in T : TRUE) = t
  BY <1>1
<1> HIDE DEF T
<1>3. T # {}
  BY <1>1
<1> QED
  BY <1>2, <1>3 DEF InFlight, T

\* The same after a step.
LEMMA OneInFlightNext ==
  (\A t \in Threads : LockInv /\ pc[t] = "store" => InFlight = <<row[t]>>)'
  BY OneInFlight, PTL

\* A step keeps the row in flight if no thread enters or leaves "store".
LEMMA KeptInFlight ==
  ASSUME \A t \in Threads : pc'[t] = "store" <=> pc[t] = "store",
         \A t \in Threads : pc[t] = "store" => row'[t] = row[t]
  PROVE  InFlight' = InFlight
<1> DEFINE T == {u \in Threads : pc[u] = "store"}  U == {u \in Threads : pc'[u] = "store"}
<1>1. T = U
  OBVIOUS
<1>2. CASE T = {}
  BY <1>1, <1>2 DEF InFlight
<1>3. CASE T # {}
  <2> DEFINE c == CHOOSE u \in T : TRUE
  <2>1. c \in T
    BY <1>3
  <2>2. InFlight = <<row[c]>>
    BY <1>3 DEF InFlight
  <2>3. InFlight' = <<row'[c]>>
    BY <1>1, <1>3 DEF InFlight
  <2> QED
    BY <2>1, <2>2, <2>3
<1> QED
  BY <1>2, <1>3

\* A thread's step changes neither the table in the file nor the one in memory,
\* unless it is the insert's append or store.
LEMMA QuietStep ==
  ASSUME NoTears, LockInv, NEW t \in Threads, Step(t),
         ~InsertAppend(t), ~InsertStore(t)
  PROVE  /\ UNCHANGED <<file, records, status>>
         /\ \A u \in Threads : (pc'[u] = "store" <=> pc[u] = "store")
         /\ \A u \in Threads : pc[u] = "store" => row'[u] = row[u]
<1> USE DEF LockInv
<1>1. CASE InsertReject(t) \/ InsertNoMemory(t) \/ InsertOpenFail(t)
           \/ InsertAppendFail(t) \/ LockFail(t) \/ SerializeFail(t)
  BY <1>1 DEF InsertReject, InsertNoMemory, InsertOpenFail, InsertAppendFail,
              LockFail, SerializeFail, Fail, Return, locals, disk, memory
<1>2. CASE InsertTear(t) \/ InsertReply(t) \/ SelectReply(t)
  BY <1>2 DEF InsertTear, InsertReply, SelectReply, Return, locals, disk, memory, NoTears
<1>3. CASE WriteLock(t) \/ ReadLock(t) \/ InsertIndex(t)
  BY <1>3 DEF WriteLock, ReadLock, InsertIndex, locals, disk, memory
<1>4. CASE InsertPrepare(t)
  BY <1>4 DEF InsertPrepare, disk, memory, WriteSection
<1>5. CASE InsertIndexFail(t)
  BY <1>5 DEF InsertIndexFail, Fail, Return, locals, disk
<1>6. CASE SelectById(t) \/ SelectScan(t) \/ SelectEnd(t)
  BY <1>6 DEF SelectById, SelectScan, SelectEnd, locals, disk, memory
<1> QED
  BY <1>1, <1>2, <1>3, <1>4, <1>5, <1>6 DEF Step, InsertStep, SelectStep

\* Every step keeps memory in agreement with the file.
LEMMA MemoryNext ==
  ASSUME NoTears, NEW top \in Nat, IdsUpTo(top), TableInv(top), [Next]_vars
  PROVE  MemoryInv'
<1> USE DEF TableInv, EngineInv
<1>0. /\ file \in Seq(Text) /\ Len(file) \in Nat /\ Lines = file /\ cursor \in 0..Len(file)
      /\ records \in Seq(Row) /\ records \o <<>> = records
  BY DEF FileInv, Lines, RecordsInv
<1>a. ASSUME UNCHANGED <<file, records, status, cursor>>, InFlight' = InFlight PROVE MemoryInv'
  BY <1>a DEF MemoryInv
<1>b. ASSUME NEW t \in Threads, Step(t) PROVE status = "up" /\ cursor' = cursor /\ status' = "up"
  <2>1. pc[t] # "idle"
    BY <1>b DEF Step, InsertStep, SelectStep, WriteLock, InsertReject, InsertNoMemory,
         InsertPrepare, InsertOpenFail, InsertAppend, InsertAppendFail, InsertTear,
         InsertStore, InsertIndex, InsertIndexFail, InsertReply, ReadLock, SelectById,
         SelectScan, SelectEnd, SelectReply, LockFail, SerializeFail
  <2>2. status = "up"
    BY <2>1 DEF LockInv
  <2>3. UNCHANGED <<status, cursor>>
    <3>1. CASE InsertReject(t) \/ InsertNoMemory(t) \/ InsertOpenFail(t)
               \/ InsertAppendFail(t) \/ LockFail(t) \/ SerializeFail(t)
      BY <3>1 DEF InsertReject, InsertNoMemory, InsertOpenFail, InsertAppendFail,
                  LockFail, SerializeFail, Fail
    <3>2. CASE InsertTear(t) \/ InsertReply(t) \/ SelectReply(t) \/ InsertAppend(t)
      BY <3>2 DEF InsertTear, InsertReply, SelectReply, InsertAppend
    <3>3. CASE WriteLock(t) \/ ReadLock(t) \/ InsertPrepare(t) \/ InsertStore(t) \/ InsertIndex(t)
      BY <3>3 DEF WriteLock, ReadLock, InsertPrepare, InsertStore, InsertIndex
    <3>4. CASE InsertIndexFail(t) \/ SelectById(t) \/ SelectScan(t) \/ SelectEnd(t)
      BY <3>4 DEF InsertIndexFail, SelectById, SelectScan, SelectEnd, Fail
    <3> QED
      BY <1>b, <3>1, <3>2, <3>3, <3>4 DEF Step, InsertStep, SelectStep
  <2> QED
    BY <2>2, <2>3
<1>1. CASE DbInit
  <2>1. SubSeq(file, 1, 0) = <<>>
    BY <1>0
  <2> QED
    BY <1>1, <2>1, TableEmpty DEF DbInit, disk, memory, MemoryInv
<1>2. CASE LoadBlank
  <2>1. status' = "loading" /\ file' = file /\ records' = records /\ cursor' = cursor + 1
    BY <1>2 DEF LoadBlank, disk, memory
  <2>2. /\ cursor \in 0..Len(file) - 1 /\ ~Loadable(file[cursor + 1])
        /\ records = Table(SubSeq(file, 1, cursor))
    BY <1>0, <1>2 DEF LoadBlank, Loadable, MemoryInv
  <2>3. Table(SubSeq(file, 1, cursor + 1)) = Table(SubSeq(file, 1, cursor))
    <3>1. /\ SubSeq(file, 1, cursor) \in Seq(Text) /\ file[cursor + 1] \in Text
          /\ SubSeq(file, 1, cursor + 1) = Append(SubSeq(file, 1, cursor), file[cursor + 1])
      BY <1>0, <2>2, PrefixGrows
    <3> QED
      BY <2>2, <3>1, TableAppend
  <2> QED
    BY <2>1, <2>2, <2>3 DEF MemoryInv
<1>3. CASE LoadRecord
  BY <1>3, LoadedRow DEF LoadRecord, disk, MemoryInv
<1>4. CASE LoadDone
  <2>1. /\ status' = "up" /\ file' = file /\ records' = records
        /\ records = Table(SubSeq(file, 1, Len(file)))
    BY <1>0, <1>4 DEF LoadDone, disk, memory, MemoryInv
  <2>2. SubSeq(file, 1, Len(file)) = file
    BY <1>0
  <2>3. InFlight' = InFlight /\ InFlight = <<>>
    <3>1. UNCHANGED <<pc, row>> /\ \A t \in Threads : pc[t] # "store"
      BY <1>4 DEF LoadDone, locals, LockInv
    <3> QED
      BY <3>1, NoneInFlight, KeptInFlight
  <2> QED
    BY <1>0, <2>1, <2>2, <2>3 DEF MemoryInv
<1>5. CASE LoadFail \/ Crash \/ DbDestroy
  BY <1>5 DEF LoadFail, Crash, DbDestroy, Forget, FreeTable, MemoryInv
<1>6. ASSUME NEW t \in Threads, InsertCall(t) \/ SelectCall(t) PROVE MemoryInv'
  <2>1. PICK p : /\ p # "store" /\ pc[t] = "idle" /\ pc' = [pc EXCEPT ![t] = p]
                 /\ UNCHANGED <<file, records, status, cursor>>
    BY <1>6 DEF InsertCall, SelectCall, Call, disk, memory
  <2>2. row' = [row EXCEPT ![t] = <<>>]
    BY <1>6 DEF InsertCall, SelectCall, Call
  <2>3. /\ \A u \in Threads : pc'[u] = "store" <=> pc[u] = "store"
        /\ \A u \in Threads : pc[u] = "store" => row'[u] = row[u]
    BY <2>1, <2>2 DEF LockInv, RowInv
  <2>4. InFlight' = InFlight
    BY <2>3, KeptInFlight
  <2> QED
    BY <1>a, <2>1, <2>4
<1>7. ASSUME NEW t \in Threads, InsertAppend(t) PROVE MemoryInv'
  <2>1. Table(file') = Append(Table(file), row[t]) /\ row[t] \in Row
    BY <1>7, AppendStep DEF RowInv, InsertAppend, WriteSection
  <2>2. status = "up" /\ status' = "up" /\ records' = records
    BY <1>7, <1>b DEF InsertAppend, memory, Step, InsertStep
  <2>3. InFlight = <<>>
    BY <1>7, NoneInFlight DEF InsertAppend, LockInv, WriteSection
  <2>4. InFlight' = <<row[t]>>
    <3>1. LockInv' /\ pc'[t] = "store" /\ row' = row
      BY <1>7, LockNext DEF InsertAppend, LockInv, locals
    <3>2. \A u \in Threads : LockInv' /\ pc'[u] = "store" => InFlight' = <<row'[u]>>
      BY OneInFlightNext
    <3>3. InFlight' = <<row'[t]>>
      BY <3>1, <3>2
    <3> QED
      BY <3>1, <3>3
  <2>5. Append(records, row[t]) = records \o <<row[t]>>
    BY <1>0, <2>1, AppendIsConcat
  <2> QED
    BY <1>0, <2>1, <2>2, <2>3, <2>4, <2>5 DEF MemoryInv
<1>8. ASSUME NEW t \in Threads, InsertStore(t) PROVE MemoryInv'
  <2>1. /\ status = "up" /\ status' = "up" /\ file' = file
        /\ records' = Append(records, row[t]) /\ row[t] \in Row
    BY <1>8, <1>b DEF InsertStore, disk, Step, InsertStep, RowInv, WriteSection
  <2>2. InFlight = <<row[t]>>
    BY <1>8, OneInFlight DEF InsertStore
  <2>3. InFlight' = <<>>
    <3>1. \A u \in Threads : pc'[u] # "store"
      BY <1>8 DEF InsertStore, LockInv, WriteSection
    <3> QED
      BY <3>1 DEF InFlight
  <2>4. Append(records, row[t]) = records \o <<row[t]>> /\ Append(records, row[t]) \in Seq(Row)
    BY <1>0, <2>1, AppendIsConcat
  <2>5. records' \o <<>> = records'
    BY <2>1, <2>4
  <2> QED
    BY <2>1, <2>2, <2>3, <2>4, <2>5 DEF MemoryInv
<1>9. ASSUME NEW t \in Threads, Step(t), ~InsertAppend(t), ~InsertStore(t) PROVE MemoryInv'
  <2>1. /\ UNCHANGED <<file, records, status>>
        /\ \A u \in Threads : pc'[u] = "store" <=> pc[u] = "store"
        /\ \A u \in Threads : pc[u] = "store" => row'[u] = row[u]
    BY <1>9, QuietStep
  <2> QED
    BY <1>9, <1>a, <1>b, <2>1, KeptInFlight
<1>10. CASE UNCHANGED vars
  <2>1. InFlight' = InFlight
    BY <1>10, KeptInFlight DEF vars
  <2> QED
    BY <1>10, <1>a, <2>1 DEF vars
<1> QED
  BY <1>1, <1>2, <1>3, <1>4, <1>5, <1>6, <1>7, <1>8, <1>9, <1>10 DEF Next, LoadStep

\* What is in the file stays in the file.
LEMMA InFileStays ==
  ASSUME NoTears, NEW top \in Nat, TableInv(top), [Next]_vars, NEW r, InFile(r)
  PROVE  \E i \in 1..Len(Table(file')) : Table(file')[i] = r
<1> USE DEF TableInv
<1> DEFINE table == Table(file)
<1>1. PICK i \in 1..Len(table) : table[i] = r
  BY DEF InFile
<1>2. table \in Seq(Row)
  BY DEF IdInv
<1>3. CASE UNCHANGED <<file, tail>>
  BY <1>1, <1>3
<1>4. ASSUME NEW t \in Threads, InsertAppend(t)
      PROVE  \E j \in 1..Len(Table(file')) : Table(file')[j] = r
  <2>1. Table(file') = Append(table, row[t]) /\ row[t] \in Row
    BY <1>4, AppendStep DEF RowInv, InsertAppend, WriteSection
  <2>2. i \in 1..Len(Append(table, row[t])) /\ Append(table, row[t])[i] = r
    <3> HIDE DEF table
    <3> QED
      BY <1>1, <1>2, <2>1
  <2> HIDE DEF table
  <2> QED
    BY <2>1, <2>2
<1> QED
  BY <1>3, <1>4, OtherSteps

\* Every step keeps the acknowledged rows in the file.
LEMMA AckNext ==
  ASSUME NoTears, NEW top \in Nat, TableInv(top), [Next]_vars
  PROVE  AckInv'
<1> USE DEF TableInv, EngineInv
<1> DEFINE A == {"store", "index", "ireply"}
           Kept(r) == \E i \in 1..Len(Table(file')) : Table(file')[i] = r
<1>0. \A r : InFile(r) => Kept(r)
  BY InFileStays
<1>p. pc \in [Threads -> Pcs]
  BY DEF LockInv
<1>1. ASSUME acked' \subseteq acked \cup {row[t] : t \in {u \in Threads : pc[u] = "ireply"}},
             \A t \in Threads : pc'[t] \in A => pc[t] \in A /\ row'[t] = row[t]
      PROVE  AckInv'
  <2>1. \A t \in Threads : pc[t] \in A => row[t] \in Row /\ InFile(row[t])
    BY DEF RowInv, AckInv, WriteSection
  <2>2. acked' \subseteq Row /\ \A r \in acked' : InFile(r)
    BY <1>1, <2>1 DEF AckInv
  <2> HIDE DEF Kept
  <2>3. /\ \A r \in acked' : Kept(r)
        /\ \A t \in Threads : pc'[t] \in A => Kept(row'[t])
    BY <1>0, <1>1, <2>1, <2>2
  <2> QED
    BY <2>2, <2>3 DEF AckInv, InFile, Kept
<1>2. CASE DbInit \/ LoadBlank \/ LoadDone \/ LoadRecord
  BY <1>2, <1>1 DEF DbInit, LoadBlank, LoadDone, LoadRecord, locals, history
<1>3. CASE LoadFail \/ Crash \/ DbDestroy
  BY <1>3, <1>1 DEF LoadFail, Crash, DbDestroy, WorkersJoined, Forget, FreeTable, history
<1>4. ASSUME NEW t \in Threads, InsertCall(t) \/ SelectCall(t) PROVE AckInv'
  <2>1. /\ pc' = [pc EXCEPT ![t] = "wlock"] \/ pc' = [pc EXCEPT ![t] = "rlock"]
        /\ row' = [row EXCEPT ![t] = <<>>] /\ acked' = acked
    BY <1>4 DEF InsertCall, SelectCall, Call
  <2> QED
    BY <1>1, <1>p, <2>1 DEF RowInv
<1>5. ASSUME NEW t \in Threads, Step(t) PROVE AckInv'
  <2> USE <1>p
  <2>1. CASE InsertReject(t) \/ InsertNoMemory(t) \/ InsertOpenFail(t)
             \/ InsertAppendFail(t) \/ LockFail(t) \/ SerializeFail(t)
    BY <2>1, <1>1 DEF InsertReject, InsertNoMemory, InsertOpenFail, InsertAppendFail,
                LockFail, SerializeFail, Fail, Return, locals, history
  <2>2. CASE InsertTear(t) \/ InsertReply(t) \/ SelectReply(t)
    BY <2>2, <1>1 DEF InsertTear, InsertReply, SelectReply, Return, locals, history
  <2>3. CASE WriteLock(t) \/ ReadLock(t) \/ InsertStore(t) \/ InsertIndex(t)
    BY <2>3, <1>1 DEF WriteLock, ReadLock, InsertStore, InsertIndex, locals, history
  <2>4. CASE InsertPrepare(t)
    <3>1. \A u \in Threads : pc'[u] \in A => u # t /\ pc[u] \in A
      BY <2>4 DEF InsertPrepare
    <3>2. \A u \in Threads : u # t => row'[u] = row[u]
      BY <2>4 DEF InsertPrepare, RowInv
    <3> QED
      BY <2>4, <3>1, <3>2, <1>1 DEF InsertPrepare, history
  <2>5. CASE InsertIndexFail(t)
    BY <2>5, <1>1 DEF InsertIndexFail, Fail, Return, locals, history
  <2>6. CASE SelectById(t) \/ SelectScan(t) \/ SelectEnd(t)
    BY <2>6, <1>1 DEF SelectById, SelectScan, SelectEnd, locals, history
  <2>7. CASE InsertAppend(t)
    <3>1. Table(file') = Append(Table(file), row[t]) /\ row[t] \in Row /\ Table(file) \in Seq(Row)
      BY <2>7, AppendStep DEF RowInv, InsertAppend, WriteSection, IdInv
    <3>2. Kept(row[t])
      <4> DEFINE table == Table(file)
      <4>1. Append(table, row[t])[Len(table) + 1] = row[t] /\ Len(table) + 1 \in 1..Len(Append(table, row[t]))
        <5>1. table \in Seq(Row) /\ row[t] \in Row
          BY <3>1
        <5> HIDE DEF table
        <5> QED
          BY <5>1
      <4> QED
        BY <3>1, <4>1
    <3>3. UNCHANGED <<row, acked>> /\ \A u \in Threads : pc'[u] \in A => u = t \/ pc[u] \in A
      BY <2>7 DEF InsertAppend, locals, history
    <3> HIDE DEF Kept
    <3>4. \A r \in acked' : Kept(r)
      BY <1>0, <3>3 DEF AckInv
    <3>5. \A u \in Threads : pc'[u] \in A => Kept(row'[u])
      BY <1>0, <3>2, <3>3 DEF AckInv
    <3> QED
      BY <3>3, <3>4, <3>5 DEF AckInv, InFile, Kept
  <2> QED
    BY <1>5, <2>1, <2>2, <2>3, <2>4, <2>5, <2>6, <2>7 DEF Step, InsertStep, SelectStep
<1>6. CASE UNCHANGED vars
  BY <1>6, <1>1 DEF vars
<1> QED
  BY <1>2, <1>3, <1>4, <1>5, <1>6 DEF Next, LoadStep

\* The invariant holds at the first start.
LEMMA TableInvInit ==
  ASSUME NEW top \in Nat, IdsUpTo(top), Init
  PROVE  TableInv(top)
<1>1. RequestInv
  BY BoundsAssumption DEF Init, RequestInv, WriteSection, ReadSection, BoundsAssumption
<1>2. FileInv
  BY FilesAssumption DEF Init, FileInv, FilesAssumption
<1>3. IdInv(top) /\ Highest(top) = top
  <2>1. Pending = {}
    BY DEF Pending, Init
  <2>2. Cardinality(Pending) = 0
    BY <2>1, FS_EmptySet
  <2>3. Highest(top) = top
    BY <2>2 DEF Highest, Init
  <2> QED
    BY <2>2, <2>3 DEF Init, IdInv, IdsUpTo
<1>4. RowInv(top)
  BY DEF Init, RowInv, WriteSection
<1>5. MemoryInv
  BY DEF Init, MemoryInv
<1>6. RecordsInv
  BY DEF Init, RecordsInv
<1>7. AckInv
  BY DEF Init, AckInv
<1> QED
  BY <1>1, <1>2, <1>3, <1>4, <1>5, <1>6, <1>7, EngineInit DEF TableInv

-----------------------------------------------------------------------------
(* The theorems.                                                           *)

\* TableInv is an invariant of the engine.
THEOREM TableInvariant ==
  ASSUME NoTears, NEW top \in Nat, IdsUpTo(top)
  PROVE  Spec => []TableInv(top)
<1>1. Init => TableInv(top)
  BY TableInvInit
<1>2. TableInv(top) /\ [Next]_vars => TableInv(top)'
  <2> SUFFICES ASSUME TableInv(top), [Next]_vars PROVE TableInv(top)'
    OBVIOUS
  <2>1. EngineInv'
    BY LockNext, RoomNext, IndexNext DEF TableInv, EngineInv
  <2>2. RequestInv' /\ FileInv'
    BY RequestNext, FileNext DEF TableInv, EngineInv
  <2>3. IdInv(top)' /\ RowInv(top)'
    BY IdNext, RowNext
  <2>4. MemoryInv' /\ RecordsInv' /\ AckInv'
    BY MemoryNext, RecordsNext, AckNext
  <2> QED
    BY <2>1, <2>2, <2>3, <2>4 DEF TableInv
<1> QED
  BY <1>1, <1>2, PTL DEF Spec

\* The fields of the engine have their types: no id, no age and no next id ever
\* leaves the range of int, and no position the array.
THEOREM EngineTypeCorrect ==
  ASSUME NoTears, NEW top \in Nat, IdsUpTo(top)
  PROVE  Spec => []TypeOK
<1>1. TableInv(top) => TypeOK
  <2> SUFFICES ASSUME TableInv(top) PROVE TypeOK
    OBVIOUS
  <2> USE DEF TableInv, EngineInv
  <2>1. Lines = file /\ EmptyText \in Text
    BY DEF FileInv, Lines, Text, EmptyText
  <2>2. DOMAIN index \subseteq CInt /\ \A k \in DOMAIN index : index[k] \in Nat
    <3> SUFFICES ASSUME NEW k \in DOMAIN index PROVE k \in CInt /\ index[k] \in Nat
      OBVIOUS
    <3>1. index[k] \in Nat /\ index[k] < Len(records) /\ records[index[k] + 1].id = k
      BY DEF IndexInv, IndexSound
    <3>2. records[index[k] + 1] \in Row
      BY <3>1 DEF RecordsInv
    <3> QED
      BY <3>1, <3>2 DEF Row
  <2>3. nextId \in CInt
    <3>1. /\ nextId \in 1..Highest(top) + 1 /\ top + MaxCalls < MaxInt
          /\ Cardinality(Pending) \in Nat /\ MaxInt \in Nat /\ MaxCalls \in Nat
          /\ calls \in 0..MaxCalls
      BY PendingIsFinite, MaxIntAssumption, BoundsAssumption
         DEF IdInv, IdsUpTo, MaxIntAssumption, BoundsAssumption, RequestInv
    <3> QED
      BY <3>1 DEF CInt, Highest
  <2> QED
    BY <2>1, <2>2, <2>3
       DEF TypeOK, LockInv, RoomInv, RequestInv, FileInv, RowInv, RecordsInv, AckInv
<1> QED
  BY <1>1, TableInvariant, PTL

\* Every row in memory is one that an INSERT could have made.
THEOREM RecordsAreValid ==
  ASSUME NoTears, NEW top \in Nat, IdsUpTo(top)
  PROVE  Spec => []RecordsValid
<1>1. TableInv(top) => RecordsValid
  BY DEF TableInv, RecordsInv, ValidRow, RecordsValid
<1> QED
  BY <1>1, TableInvariant, PTL

\* The next automatic id lies above every id in the table, restarts included.
THEOREM NextIdStaysFresh ==
  ASSUME NoTears, NEW top \in Nat, IdsUpTo(top)
  PROVE  Spec => []NextIdIsFresh
<1>1. TableInv(top) => NextIdIsFresh
  BY DEF TableInv, RecordsInv, NextIdIsFresh
<1> QED
  BY <1>1, TableInvariant, PTL

\* At every moment a restart would find in the file what memory holds, plus the
\* one row that is being inserted.
THEOREM MemoryAgreesWithFile ==
  ASSUME NoTears, NEW top \in Nat, IdsUpTo(top)
  PROVE  Spec => []MemoryMatchesFile
<1>1. TableInv(top) => MemoryMatchesFile
  <2> SUFFICES ASSUME TableInv(top) PROVE MemoryMatchesFile
    OBVIOUS
  <2>1. Lines = file
    BY DEF TableInv, FileInv, Lines
  <2> QED
    BY <2>1 DEF TableInv, MemoryInv, MemoryMatchesFile
<1> QED
  BY <1>1, TableInvariant, PTL

\* What was acknowledged is in the file for good, whatever crashes and restarts.
THEOREM AcknowledgedIsDurable ==
  ASSUME NoTears, NEW top \in Nat, IdsUpTo(top)
  PROVE  Spec => []AckedDurable
<1>1. TableInv(top) => AckedDurable
  <2> SUFFICES ASSUME TableInv(top) PROVE AckedDurable
    OBVIOUS
  <2>1. Lines = file
    BY DEF TableInv, FileInv, Lines
  <2> QED
    BY <2>1 DEF TableInv, AckInv, InFile, AckedDurable
<1> QED
  BY <1>1, TableInvariant, PTL

\* A line that db_init gets past.
Admitted(text) == text = EmptyText \/ ~Refused(text)

\* The lines that db_init has read, and all lines once it is done, are admitted.
LinesInv ==
  /\ status = "loading" => \A i \in 1..cursor : Admitted(file[i])
  /\ status = "up" => \A i \in 1..Len(file) : Admitted(file[i])

\* A thread's step leaves alone how far the engine has come.
LEMMA StatusKept ==
  ASSUME NEW t \in Threads, InsertCall(t) \/ SelectCall(t) \/ Step(t)
  PROVE  UNCHANGED <<status, cursor>>
<1>1. CASE InsertCall(t) \/ SelectCall(t)
  BY <1>1 DEF InsertCall, SelectCall, Call
<1>2. CASE InsertReject(t) \/ InsertNoMemory(t) \/ InsertOpenFail(t)
           \/ InsertAppendFail(t) \/ LockFail(t) \/ SerializeFail(t)
  BY <1>2 DEF InsertReject, InsertNoMemory, InsertOpenFail, InsertAppendFail,
              LockFail, SerializeFail, Fail
<1>3. CASE InsertTear(t) \/ InsertReply(t) \/ SelectReply(t) \/ InsertAppend(t)
  BY <1>3 DEF InsertTear, InsertReply, SelectReply, InsertAppend
<1>4. CASE WriteLock(t) \/ ReadLock(t) \/ InsertPrepare(t) \/ InsertStore(t) \/ InsertIndex(t)
  BY <1>4 DEF WriteLock, ReadLock, InsertPrepare, InsertStore, InsertIndex
<1>5. CASE InsertIndexFail(t) \/ SelectById(t) \/ SelectScan(t) \/ SelectEnd(t)
  BY <1>5 DEF InsertIndexFail, SelectById, SelectScan, SelectEnd, Fail
<1> QED
  BY <1>1, <1>2, <1>3, <1>4, <1>5 DEF Step, InsertStep, SelectStep

\* Every step keeps the lines admitted.
LEMMA LinesNext ==
  ASSUME NoTears, NEW top, TableInv(top), LinesInv, [Next]_vars
  PROVE  LinesInv'
<1> USE DEF TableInv, EngineInv
<1>1. Lines = file /\ Len(file) \in Nat /\ cursor \in 0..Len(file)
  BY DEF FileInv, Lines
<1>2. CASE DbInit
  BY <1>2 DEF DbInit, LinesInv
<1>3. CASE LoadBlank \/ LoadRecord
  <2>1. /\ status = "loading" /\ status' = "loading" /\ file' = file
        /\ cursor' = cursor + 1 /\ Admitted(file[cursor + 1])
    BY <1>1, <1>3 DEF LoadBlank, LoadRecord, Admitted, disk
  <2>2. \A i \in 1..cursor + 1 : i \in 1..cursor \/ i = cursor + 1
    BY <1>1
  <2> QED
    BY <2>1, <2>2 DEF LinesInv
<1>4. CASE LoadDone
  BY <1>1, <1>4 DEF LoadDone, LinesInv, disk
<1>5. CASE LoadFail \/ DbDestroy \/ Crash
  BY <1>5 DEF LoadFail, DbDestroy, Crash, Forget, FreeTable, LinesInv
<1>6. ASSUME NEW t \in Threads, InsertAppend(t) PROVE LinesInv'
  <2>1. /\ file' = Append(file, RowText(row[t])) /\ file \in Seq(Text)
        /\ RowText(row[t]) \in Text
    BY <1>6, AppendStep DEF FileInv
  <2>2. Admitted(RowText(row[t]))
    <3>1. row[t] \in Row /\ ValidRow(row[t])
      BY <1>6 DEF InsertAppend, RowInv, WriteSection
    <3> QED
      BY <3>1, RowRead DEF ValidRow, Loadable, Admitted
  <2>3. status = "up" /\ status' = "up"
    BY <1>6 DEF InsertAppend, LockInv
  <2>4. \A i \in 1..Len(file') :
          (i \in 1..Len(file) /\ file'[i] = file[i]) \/ file'[i] = RowText(row[t])
    <3> DEFINE new == RowText(row[t])
    <3> HIDE DEF new
    <3>1. file' = Append(file, new) /\ file \in Seq(Text) /\ new \in Text
      BY <2>1 DEF new
    <3>2. \A i \in 1..Len(file') : (i \in 1..Len(file) /\ file'[i] = file[i]) \/ file'[i] = new
      BY <3>1
    <3> QED
      BY <3>2 DEF new
  <2> QED
    BY <2>2, <2>3, <2>4 DEF LinesInv, Admitted
<1>7. ASSUME NEW t \in Threads, InsertCall(t) \/ SelectCall(t) \/ Step(t), file' = file
      PROVE  LinesInv'
  <2>1. UNCHANGED <<status, cursor>>
    BY <1>7, StatusKept
  <2> QED
    BY <1>7, <2>1 DEF LinesInv
<1>8. CASE UNCHANGED vars
  BY <1>8 DEF vars, LinesInv
<1> QED
  BY <1>2, <1>3, <1>4, <1>5, <1>6, <1>7, <1>8, OtherSteps DEF Next, LoadStep

\* A file with a damaged line is refused as a whole, and what the engine appends
\* to a sound one can be read by the next start.
THEOREM FileIsLoadable ==
  ASSUME NoTears, NEW top \in Nat, IdsUpTo(top)
  PROVE  Spec => []FileStaysLoadable
<1>1. Init => LinesInv
  BY DEF Init, LinesInv
<1>2. TableInv(top) /\ LinesInv /\ [Next]_vars => LinesInv'
  BY LinesNext
<1>3. TableInv(top) /\ LinesInv => FileStaysLoadable
  <2> SUFFICES ASSUME TableInv(top), LinesInv PROVE FileStaysLoadable
    OBVIOUS
  <2>1. Lines = file
    BY DEF TableInv, FileInv, Lines
  <2> QED
    BY <2>1 DEF LinesInv, Admitted, FileStaysLoadable
<1> QED
  BY <1>1, <1>2, <1>3, TableInvariant, PTL DEF Spec

-----------------------------------------------------------------------------
(***************************************************************************)
(* The engine implements UsersTable: every INSERT adds one row with an id  *)
(* of its own, every SELECT answers from one state of the table.  Beyond   *)
(* the hypotheses of the second part this needs the index to be complete,  *)
(* so its allocations must not fail, and the files at hand at the first    *)
(* start must not repeat an id: db_init does not check that.               *)
(***************************************************************************)

\* No allocation inside the index fails.
NoIndexFaults == "index" \notin Faults

DifferentIds(table) ==
  \A i, j \in 1..Len(table) : table[i].id = table[j].id => i = j

\* The files of the first start do not repeat an id.
FilesDiffer == \A f \in InitialFiles : DifferentIds(Table(f))

-----------------------------------------------------------------------------
(* What a select should answer.                                            *)

\* The rows of the table as the select would write them.
Written(q, table) == [i \in 1..Len(table) |-> RowJson(table[i], q.projection)]

MatchesAt(q, table) == {i \in 1..Len(table) : Matches(q, table[i])}

\* The recursive function in Answer is the loop over the table.
LEMMA AnswerDef ==
  ASSUME NEW S, NEW table \in Seq(S), NEW q
  PROVE  \E g : /\ Picks(Written(q, table), MatchesAt(q, table), Len(table), g)
                /\ Answer(q, table) = g[Len(table)]
<1> DEFINE s == Written(q, table)  K == MatchesAt(q, table)  N == Len(table)
           R == {RowJson(x, q.projection) : x \in S}
           Eq(g) == g = [n \in 0..N |->
              IF n = 0 THEN <<>>
              ELSE IF Matches(q, table[n])
              THEN Append(g[n - 1], RowJson(table[n], q.projection))
              ELSE g[n - 1]]
<1>0. N \in Nat /\ N \in 0..N /\ s \in Seq(R) /\ Len(s) = N
  <2>1. \A i \in 1..N : table[i] \in S
    OBVIOUS
  <2> QED
    BY <2>1 DEF Written
<1>1. ASSUME NEW g PROVE Eq(g) <=> Picks(s, K, N, g)
  <2> DEFINE f1 == [n \in 0..N |->
              IF n = 0 THEN <<>>
              ELSE IF Matches(q, table[n])
              THEN Append(g[n - 1], RowJson(table[n], q.projection))
              ELSE g[n - 1]]
             f2 == [n \in 0..N |->
              IF n = 0 THEN <<>>
              ELSE IF n \in K THEN Append(g[n - 1], s[n]) ELSE g[n - 1]]
  <2>1. \A n \in 0..N : n # 0 => n \in 1..N
    BY <1>0
  <2>2. \A n \in 1..N : /\ n \in K <=> Matches(q, table[n])
                        /\ s[n] = RowJson(table[n], q.projection)
    BY DEF MatchesAt, Written
  <2>3. f1 = f2
    <3> HIDE DEF K, s
    <3> QED
      BY <2>1, <2>2
  <2> QED
    BY <2>3 DEF Picks
<1>2. PICK h : Picks(s, K, N, h)
  <2> HIDE DEF s, K, N, R
  <2> QED
    BY <1>0, PicksExist
<1> DEFINE g == CHOOSE g : Eq(g)
<1>3. Eq(g)
  <2>1. Eq(h)
    BY <1>1, <1>2
  <2> QED
    BY <2>1
<1>4. Answer(q, table) = g[N]
  BY DEF Answer
<1>5. Picks(s, K, N, g)
  <2> HIDE DEF g, Eq
  <2> QED
    BY <1>1, <1>3
<1> HIDE DEF g, Eq
<1> QED
  BY <1>4, <1>5

\* The answer from an empty table is empty.
LEMMA AnswerEmpty == \A q : Answer(q, <<>>) = <<>>
<1> TAKE q
<1> DEFINE s == <<>>
<1>1. s \in Seq({}) /\ Len(s) = 0
  OBVIOUS
<1> HIDE DEF s
<1>2. PICK g : /\ Picks(Written(q, s), MatchesAt(q, s), Len(s), g)
               /\ Answer(q, s) = g[Len(s)]
  BY <1>1, AnswerDef
<1>3. Answer(q, s) = <<>>
  BY <1>1, <1>2 DEF Picks
<1> QED
  BY <1>3 DEF s

\* A further row is written last, if the select asks for it.
LEMMA AnswerAppend ==
  ASSUME NEW S, NEW table \in Seq(S), NEW r \in S, NEW q
  PROVE  Answer(q, Append(table, r)) =
           IF Matches(q, r) THEN Append(Answer(q, table), RowJson(r, q.projection))
           ELSE Answer(q, table)
<1> DEFINE more == Append(table, r)  N == Len(table)
           s == Written(q, table)  t == Written(q, more)
           K == MatchesAt(q, table)  L == MatchesAt(q, more)
           R == {RowJson(x, q.projection) : x \in S}
<1>1. /\ N \in Nat /\ more \in Seq(S) /\ Len(more) = N + 1 /\ more[N + 1] = r
      /\ \A i \in 1..N : table[i] \in S /\ more[i] = table[i]
  OBVIOUS
<1>2. /\ s \in Seq(R) /\ Len(s) = N
      /\ t \in Seq(R) /\ Len(t) = Len(s) + 1 /\ t[N + 1] = RowJson(r, q.projection)
      /\ \A i \in 1..Len(s) : s[i] = t[i] /\ (i \in K <=> i \in L)
      /\ (N + 1 \in L <=> Matches(q, r))
  <2> HIDE DEF more
  <2>1. N + 1 \in 1..N + 1 /\ \A i \in 1..N + 1 : more[i] \in S
    BY <1>1
  <2> QED
    BY <1>1, <2>1 DEF Written, MatchesAt
<1>3. PICK g : Picks(s, K, N, g) /\ Answer(q, table) = g[N]
  BY AnswerDef
<1>4. PICK h : Picks(t, L, Len(more), h) /\ Answer(q, more) = h[Len(more)]
  <2> HIDE DEF more
  <2> QED
    BY <1>1, AnswerDef
<1>5. Picks(s, K, Len(s), g) /\ Picks(t, L, Len(t), h)
  <2> HIDE DEF more, N, s, t, K, L, R
  <2> QED
    BY <1>1, <1>2, <1>3, <1>4
<1>6. h[Len(t)] = IF Len(t) \in L THEN Append(g[Len(s)], t[Len(t)]) ELSE g[Len(s)]
  <2> HIDE DEF more, N, s, t, K, L, R
  <2> QED
    BY <1>2, <1>5, PicksAppend
<1> HIDE DEF more, N, s, t, K, L, R
<1>7. Answer(q, more) = IF Matches(q, r) THEN Append(Answer(q, table), RowJson(r, q.projection))
                        ELSE Answer(q, table)
  BY <1>1, <1>2, <1>3, <1>4, <1>6
<1> QED
  BY <1>7 DEF more

\* The answer for an id that one row has is that row, and otherwise empty.
LEMMA AnswerById ==
  ASSUME NEW S, NEW table \in Seq(S), DifferentIds(table), NEW q, q.filter = "id"
  PROVE  /\ \A k \in 1..Len(table) :
              table[k].id = q.id => Answer(q, table) = <<RowJson(table[k], q.projection)>>
         /\ (\A k \in 1..Len(table) : table[k].id # q.id) => Answer(q, table) = <<>>
<1> DEFINE A(n) == Answer(q, SubSeq(table, 1, n))
           json(n) == RowJson(table[n], q.projection)
<1>0. Len(table) \in Nat
  OBVIOUS
<1>a. A(0) = <<>>
  <2>1. SubSeq(table, 1, 0) = <<>>
    OBVIOUS
  <2> QED
    BY <2>1, AnswerEmpty, Zenon
<1>b. A(Len(table)) = Answer(q, table)
  <2>1. SubSeq(table, 1, Len(table)) = table
    OBVIOUS
  <2> QED
    BY <2>1, Zenon
<1>1. ASSUME NEW n \in 0..Len(table) - 1
      PROVE  A(n + 1) = IF table[n + 1].id = q.id THEN Append(A(n), json(n + 1)) ELSE A(n)
  <2> DEFINE p == SubSeq(table, 1, n)
  <2>1. /\ p \in Seq(S) /\ table[n + 1] \in S
        /\ SubSeq(table, 1, n + 1) = Append(p, table[n + 1])
    BY PrefixGrows
  <2>2. Matches(q, table[n + 1]) <=> table[n + 1].id = q.id
    BY DEF Matches
  <2>3. Answer(q, Append(p, table[n + 1])) =
          IF Matches(q, table[n + 1]) THEN Append(Answer(q, p), json(n + 1)) ELSE Answer(q, p)
    <3> HIDE DEF p
    <3> QED
      BY <2>1, AnswerAppend
  <2> QED
    BY <2>1, <2>2, <2>3, Zenon
<1> HIDE DEF A, json
<1>2. ASSUME NEW k \in 1..Len(table), table[k].id = q.id
      PROVE  Answer(q, table) = <<RowJson(table[k], q.projection)>>
  <2> DEFINE T == {n \in 0..Len(table) : A(n) = IF k <= n THEN <<json(k)>> ELSE <<>>}
  <2>1. 0 \in T
    BY <1>0, <1>a
  <2>2. ASSUME NEW n \in 0..Len(table) - 1, n \in T PROVE n + 1 \in T
    <3>1. n + 1 \in 1..Len(table) /\ n + 1 \in 0..Len(table) /\ n \in Nat
      BY <1>0
    <3>2. table[n + 1].id = q.id <=> n + 1 = k
      BY <1>2, <3>1 DEF DifferentIds
    <3>3. Append(<<>>, json(k)) = <<json(k)>>
      OBVIOUS
    <3>4. A(n + 1) = IF k <= n + 1 THEN <<json(k)>> ELSE <<>>
      <4>1. CASE n + 1 = k
        <5>1. A(n) = <<>>
          BY <2>2, <3>1, <4>1
        <5>2. A(n + 1) = Append(A(n), json(n + 1))
          BY <1>1, <3>2, <4>1
        <5>3. A(n + 1) = <<json(k)>>
          BY <3>3, <4>1, <5>1, <5>2
        <5> QED
          BY <3>1, <4>1, <5>3
      <4>2. CASE n + 1 # k
        BY <1>1, <2>2, <3>1, <3>2, <4>2
      <4> QED
        BY <4>1, <4>2
    <3> QED
      BY <3>1, <3>4
  <2> HIDE DEF T
  <2>3. 0..Len(table) \subseteq T
    BY <1>0, <2>1, <2>2, SetInduction
  <2>4. Len(table) \in T
    BY <1>0, <2>3
  <2> QED
    BY <1>0, <1>b, <2>4 DEF T, json
<1>3. ASSUME \A k \in 1..Len(table) : table[k].id # q.id PROVE Answer(q, table) = <<>>
  <2> DEFINE T == {n \in 0..Len(table) : A(n) = <<>>}
  <2>1. 0 \in T
    BY <1>0, <1>a
  <2>2. ASSUME NEW n \in 0..Len(table) - 1, n \in T PROVE n + 1 \in T
    <3>1. n + 1 \in 1..Len(table) /\ n + 1 \in 0..Len(table)
      BY <1>0
    <3> QED
      BY <1>1, <1>3, <2>2, <3>1
  <2> HIDE DEF T
  <2>3. 0..Len(table) \subseteq T
    BY <1>0, <2>1, <2>2, SetInduction
  <2>4. Len(table) \in T
    BY <1>0, <2>3
  <2> QED
    BY <1>0, <1>b, <2>4 DEF T
<1> QED
  BY <1>2, <1>3

-----------------------------------------------------------------------------
(* Ids.                                                                    *)

\* No id occurs twice in the file, and the row about to be appended has a new one.
FreshInv ==
  /\ DifferentIds(Table(file))
  /\ \A t \in Threads : pc[t] = "append" =>
       \A i \in 1..Len(Table(file)) : Table(file)[i].id # row[t].id

\* The index and the next id decide that a row is new.
LEMMA PreparedIsFresh ==
  ASSUME NEW top \in Nat, TableInv(top), IndexComplete, NEW t \in Threads, InsertPrepare(t)
  PROVE  \A i \in 1..Len(Table(file)) : Table(file)[i].id # row'[t].id
<1> USE DEF TableInv, EngineInv
<1>1. /\ pc[t] = "check" /\ ~InsertInvalid(req[t])
      /\ row'[t].id = IF req[t].hasId THEN req[t].id ELSE nextId
  BY DEF InsertPrepare, RowInv
<1>2. \A u \in Threads : pc[u] \notin {"store", "index"}
  BY <1>1 DEF LockInv, WriteSection
<1>3. status = "up"
  BY <1>1 DEF LockInv
<1>4. Table(file) = records
  <2>1. InFlight = <<>>
    BY <1>2, NoneInFlight
  <2>2. records \o <<>> = records
    BY DEF RecordsInv
  <2> QED
    BY <1>3, <2>1, <2>2 DEF MemoryInv
<1>5. ASSUME NEW i \in 1..Len(records) PROVE records[i].id # row'[t].id
  <2>1. records[i].id < nextId /\ records[i].id \in Int /\ nextId \in Int
    BY RowIdIsInt DEF RecordsInv, IdInv
  <2>2. records[i].id \in DOMAIN index
    BY <1>2 DEF IndexComplete, BeingIndexed
  <2>3. CASE req[t].hasId
    BY <1>1, <2>2, <2>3 DEF InsertInvalid, Duplicate
  <2>4. CASE ~req[t].hasId
    BY <1>1, <2>1, <2>4
  <2> QED
    BY <2>3, <2>4
<1> QED
  BY <1>4, <1>5

\* Every step keeps the ids different.
LEMMA FreshNext ==
  ASSUME NoTears, NEW top \in Nat, TableInv(top), IndexComplete, FreshInv, [Next]_vars
  PROVE  FreshInv'
<1> USE DEF TableInv, EngineInv
<1>p. pc \in [Threads -> Pcs] /\ row \in [Threads -> Row \cup {<<>>}]
  BY DEF LockInv, RowInv
<1>1. ASSUME NEW t \in Threads, InsertAppend(t) PROVE FreshInv'
  <2> DEFINE table == Table(file)  more == Append(table, row[t])
  <2>1. Table(file') = more /\ row[t] \in Row /\ table \in Seq(Row)
    BY <1>1, AppendStep DEF RowInv, InsertAppend, WriteSection, IdInv
  <2>2. DifferentIds(table) /\ \A i \in 1..Len(table) : table[i].id # row[t].id
    BY <1>1 DEF FreshInv, InsertAppend
  <2>3. DifferentIds(more)
    <3>1. /\ Len(more) = Len(table) + 1 /\ Len(table) \in Nat /\ more[Len(table) + 1] = row[t]
          /\ \A i \in 1..Len(table) : more[i] = table[i]
      <4> HIDE DEF table
      <4> QED
        BY <2>1
    <3> HIDE DEF table, more
    <3> QED
      BY <2>2, <3>1 DEF DifferentIds
  <2>4. \A u \in Threads : pc'[u] # "append"
    BY <1>1, <1>p DEF InsertAppend, LockInv, WriteSection
  <2> HIDE DEF more
  <2> QED
    BY <2>1, <2>3, <2>4 DEF FreshInv, DifferentIds
<1>2. ASSUME NEW t \in Threads, InsertPrepare(t) PROVE FreshInv'
  <2>1. \A i \in 1..Len(Table(file)) : Table(file)[i].id # row'[t].id
    BY <1>2, PreparedIsFresh
  <2>2. file' = file /\ \A u \in Threads : pc'[u] = "append" => u = t
    BY <1>2, <1>p DEF InsertPrepare, disk, LockInv, WriteSection
  <2> QED
    BY <2>1, <2>2 DEF FreshInv, DifferentIds
<1>3. ASSUME file' = file,
             \A u \in Threads : pc'[u] = "append" => pc[u] = "append" /\ row'[u] = row[u]
      PROVE  FreshInv'
  BY <1>3 DEF FreshInv, DifferentIds
<1>4. CASE DbInit \/ LoadBlank \/ LoadDone \/ LoadRecord
  BY <1>4, <1>3 DEF DbInit, LoadBlank, LoadDone, LoadRecord, locals, disk
<1>5. CASE LoadFail \/ Crash \/ DbDestroy
  BY <1>5, <1>3 DEF LoadFail, Crash, DbDestroy, WorkersJoined, Forget, FreeTable, disk
<1>6. ASSUME NEW t \in Threads, InsertCall(t) \/ SelectCall(t) PROVE FreshInv'
  <2>1. /\ pc' = [pc EXCEPT ![t] = "wlock"] \/ pc' = [pc EXCEPT ![t] = "rlock"]
        /\ row' = [row EXCEPT ![t] = <<>>] /\ file' = file
    BY <1>6 DEF InsertCall, SelectCall, Call, disk
  <2> QED
    BY <1>3, <1>p, <2>1
<1>7. ASSUME NEW t \in Threads, Step(t) PROVE FreshInv'
  <2> USE <1>p
  <2>1. CASE InsertReject(t) \/ InsertNoMemory(t) \/ InsertOpenFail(t)
             \/ InsertAppendFail(t) \/ LockFail(t) \/ SerializeFail(t)
    BY <2>1, <1>3 DEF InsertReject, InsertNoMemory, InsertOpenFail, InsertAppendFail,
                LockFail, SerializeFail, Fail, Return, locals, disk
  <2>2. CASE InsertTear(t) \/ InsertReply(t) \/ SelectReply(t)
    BY <2>2, <1>3 DEF InsertTear, InsertReply, SelectReply, Return, locals, disk, NoTears
  <2>3. CASE WriteLock(t) \/ ReadLock(t) \/ InsertStore(t) \/ InsertIndex(t)
    BY <2>3, <1>3 DEF WriteLock, ReadLock, InsertStore, InsertIndex, locals, disk
  <2>4. CASE InsertIndexFail(t)
    BY <2>4, <1>3 DEF InsertIndexFail, Fail, Return, locals, disk
  <2>5. CASE SelectById(t) \/ SelectScan(t) \/ SelectEnd(t)
    BY <2>5, <1>3 DEF SelectById, SelectScan, SelectEnd, locals, disk
  <2> QED
    BY <1>1, <1>2, <1>7, <2>1, <2>2, <2>3, <2>4, <2>5 DEF Step, InsertStep, SelectStep
<1>8. CASE UNCHANGED vars
  BY <1>8, <1>3 DEF vars
<1> QED
  BY <1>4, <1>5, <1>6, <1>7, <1>8 DEF Next, LoadStep

\* The rows in memory are the beginning of the table in the file.
LEMMA MemoryIsPrefix ==
  ASSUME NEW top \in Nat, TableInv(top)
  PROVE  Prefix(records, Table(file))
<1> USE DEF TableInv
<1> DEFINE table == Table(file)
<1>0. records \in Seq(Row) /\ table \in Seq(Row)
  BY DEF RecordsInv, IdInv
<1>1. CASE status = "down"
  <2>1. Len(records) = 0
    BY <1>1 DEF MemoryInv
  <2> HIDE DEF table
  <2> QED
    BY <1>0, <2>1 DEF Prefix, table
<1>2. CASE status = "loading"
  BY <1>2, TablePrefix DEF MemoryInv, FileInv
<1>3. CASE status = "up"
  <2>1. table = records \o InFlight
    BY <1>3 DEF MemoryInv
  <2>2. InFlight = <<>> \/ \E r : InFlight = <<r>>
    BY DEF InFlight
  <2>3. Len(table) >= Len(records) /\ \A i \in 1..Len(records) : table[i] = records[i]
    <3> HIDE DEF table
    <3>1. CASE InFlight = <<>>
      BY <1>0, <2>1, <3>1
    <3>2. ASSUME NEW r, InFlight = <<r>>
          PROVE  Len(table) >= Len(records) /\ \A i \in 1..Len(records) : table[i] = records[i]
      <4> DEFINE S == Row \cup {r}
      <4>1. records \in Seq(S) /\ <<r>> \in Seq(S)
        BY <1>0, SeqMonotonic
      <4> QED
        BY <1>0, <2>1, <3>2, <4>1
    <3> QED
      BY <2>2, <3>1, <3>2
  <2> QED
    BY <2>3 DEF Prefix
<1> QED
  BY <1>1, <1>2, <1>3 DEF RequestInv

\* Ids that differ in the file differ in memory.
LEMMA IdsDifferInMemory ==
  ASSUME NEW top \in Nat, TableInv(top), FreshInv
  PROVE  DifferentIds(records)
<1> DEFINE table == Table(file)
<1>1. Prefix(records, table) /\ DifferentIds(table)
  BY MemoryIsPrefix DEF FreshInv
<1>2. Len(table) \in Nat /\ Len(records) \in Nat
  BY DEF TableInv, IdInv, RecordsInv
<1> HIDE DEF table
<1> QED
  BY <1>1, <1>2 DEF DifferentIds, Prefix

-----------------------------------------------------------------------------
(* Selects.                                                                *)

\* What a scan has written so far is the answer from the rows it has passed.
AnswerInv ==
  \A t \in Threads :
    /\ pc[t] = "rlock" => seen[t] = 0 /\ out[t] = <<>>
    /\ pc[t] = "select" =>
         /\ seen[t] \in 0..Len(records)
         /\ req[t].filter # "id" => out[t] = Answer(req[t], SubSeq(records, 1, seen[t]))
    /\ pc[t] = "sreply" => out[t] = Answer(req[t], records)

\* The lookup through the index answers like a scan of the whole table.
LEMMA LookupAnswers ==
  ASSUME NEW top \in Nat, TableInv(top), IndexComplete, FreshInv,
         NEW t \in Threads, SelectById(t)
  PROVE  out'[t] = Answer(req[t], records)
<1> USE DEF TableInv, EngineInv
<1> DEFINE q == req[t]
<1>1. /\ q.filter = "id" /\ pc[t] = "select"
      /\ out'[t] = IF q.id \in DOMAIN index /\ index[q.id] < Len(records)
                   THEN <<RowJson(records[index[q.id] + 1], q.projection)>> ELSE <<>>
  BY DEF SelectById, RequestInv
<1>2. records \in Seq(Row) /\ DifferentIds(records)
  BY IdsDifferInMemory DEF RecordsInv
<1>3. /\ \A k \in 1..Len(records) :
           records[k].id = q.id => Answer(q, records) = <<RowJson(records[k], q.projection)>>
      /\ (\A k \in 1..Len(records) : records[k].id # q.id) => Answer(q, records) = <<>>
  BY <1>1, <1>2, AnswerById
<1>4. CASE q.id \in DOMAIN index
  <2> DEFINE k == index[q.id] + 1
  <2>1. index[q.id] < Len(records) /\ k \in 1..Len(records) /\ records[k].id = q.id
    BY <1>2, <1>4 DEF IndexInv, IndexSound
  <2>2. out'[t] = <<RowJson(records[k], q.projection)>>
    BY <1>1, <1>4, <2>1
  <2> HIDE DEF k
  <2> QED
    BY <1>3, <2>1, <2>2
<1>5. CASE q.id \notin DOMAIN index
  <2>1. \A u \in Threads : pc[u] # "index"
    BY <1>1, WriterAssumption DEF LockInv, WriteSection, ReadSection, WriterAssumption
  <2>2. \A k \in 1..Len(records) : records[k].id # q.id
    BY <1>5, <2>1 DEF IndexComplete, BeingIndexed
  <2> QED
    BY <1>1, <1>3, <1>5, <2>2
<1> QED
  BY <1>4, <1>5

\* One round of a scan answers for one more row.
LEMMA ScanAnswers ==
  ASSUME NEW top \in Nat, TableInv(top), AnswerInv, NEW t \in Threads, SelectScan(t)
  PROVE  /\ seen'[t] \in 0..Len(records)
         /\ out'[t] = Answer(req[t], SubSeq(records, 1, seen'[t]))
<1> USE DEF TableInv
<1> DEFINE q == req[t]  n == seen[t]  p == SubSeq(records, 1, n)  r == records[n + 1]
<1>1. /\ q.filter # "id" /\ n < Len(records) /\ pc[t] = "select" /\ seen'[t] = n + 1
      /\ out'[t] = IF Included(q, r) THEN Append(out[t], RowJson(r, q.projection)) ELSE out[t]
  BY DEF SelectScan, RequestInv
<1>2. out[t] = Answer(q, p) /\ n \in 0..Len(records) /\ records \in Seq(Row) /\ Len(records) \in Nat
  BY <1>1 DEF AnswerInv, RecordsInv
<1>3. n \in 0..Len(records) - 1 /\ n + 1 \in 0..Len(records)
  BY <1>1, <1>2
<1>4. p \in Seq(Row) /\ r \in Row /\ SubSeq(records, 1, n + 1) = Append(p, r)
  <2> HIDE DEF n
  <2> QED
    BY <1>2, <1>3, PrefixGrows
<1>5. Matches(q, r) <=> Included(q, r)
  BY <1>1 DEF Matches
<1>6. Answer(q, Append(p, r)) =
        IF Matches(q, r) THEN Append(Answer(q, p), RowJson(r, q.projection)) ELSE Answer(q, p)
  <2> HIDE DEF p, r, q
  <2> QED
    BY <1>4, AnswerAppend
<1>7. out'[t] = Answer(q, Append(p, r))
  <2> HIDE DEF p, r, q
  <2> QED
    BY <1>1, <1>2, <1>5, <1>6
<1>8. Answer(q, Append(p, r)) = Answer(q, SubSeq(records, 1, seen'[t]))
  <2>1. SubSeq(records, 1, seen'[t]) = Append(p, r)
    BY <1>1, <1>4
  <2> QED
    BY <2>1
<1> QED
  BY <1>1, <1>3, <1>7, <1>8

\* Every step keeps the scans' part.
LEMMA AnswerNext ==
  ASSUME NoTears, NEW top \in Nat, TableInv(top), IndexComplete, FreshInv, AnswerInv,
         [Next]_vars
  PROVE  AnswerInv'
<1> USE DEF TableInv, EngineInv
<1>p. /\ pc \in [Threads -> Pcs] /\ seen \in [Threads -> Nat] /\ DOMAIN out = Threads
      /\ req \in [Threads -> Inserts \cup Selects \cup {<<>>}]
  BY DEF LockInv, RequestInv
<1>a. ASSUME \A u \in Threads : pc'[u] \notin {"rlock", "select", "sreply"} PROVE AnswerInv'
  BY <1>a DEF AnswerInv
<1>b. ASSUME NEW u \in Threads, pc'[u] = pc[u], seen'[u] = seen[u], out'[u] = out[u],
             req'[u] = req[u], records' = records
      PROVE  /\ pc'[u] = "rlock" => seen'[u] = 0 /\ out'[u] = <<>>
             /\ pc'[u] = "select" =>
                  /\ seen'[u] \in 0..Len(records')
                  /\ req'[u].filter # "id" => out'[u] = Answer(req'[u], SubSeq(records', 1, seen'[u]))
             /\ pc'[u] = "sreply" => out'[u] = Answer(req'[u], records')
  <2>1. /\ pc[u] = "rlock" => seen[u] = 0 /\ out[u] = <<>>
        /\ pc[u] = "select" =>
             /\ seen[u] \in 0..Len(records)
             /\ req[u].filter # "id" => out[u] = Answer(req[u], SubSeq(records, 1, seen[u]))
        /\ pc[u] = "sreply" => out[u] = Answer(req[u], records)
    BY DEF AnswerInv
  <2> QED
    BY <1>b, <2>1
<1>c. ASSUME UNCHANGED <<pc, seen, out, req, records>> PROVE AnswerInv'
  BY <1>b, <1>c DEF AnswerInv
<1>d. ASSUME NEW t \in Threads, NEW p, pc' = [pc EXCEPT ![t] = p],
             p \notin {"rlock", "select", "sreply"}, UNCHANGED <<seen, out, req, records>>
      PROVE  AnswerInv'
  <2>1. \A u \in Threads : u # t => pc'[u] = pc[u]
    BY <1>d, <1>p
  <2>2. pc'[t] = p
    BY <1>d, <1>p
  <2> QED
    BY <1>b, <1>d, <2>1, <2>2 DEF AnswerInv
<1>1. CASE DbInit \/ LoadBlank \/ LoadDone \/ LoadRecord
  <2>1. \A u \in Threads : pc'[u] = "idle"
    BY <1>1 DEF DbInit, LoadBlank, LoadDone, LoadRecord, LockInv
  <2> QED
    BY <1>a, <2>1
<1>2. CASE LoadFail \/ Crash \/ DbDestroy
  BY <1>2, <1>a DEF LoadFail, Crash, DbDestroy, WorkersJoined, Forget, FreeTable
<1>3. ASSUME NEW t \in Threads, InsertCall(t) \/ SelectCall(t) PROVE AnswerInv'
  <2>1. /\ pc' = [pc EXCEPT ![t] = "wlock"] \/ pc' = [pc EXCEPT ![t] = "rlock"]
        /\ seen' = [seen EXCEPT ![t] = 0] /\ out' = [out EXCEPT ![t] = <<>>]
        /\ \E q : req' = [req EXCEPT ![t] = q]
        /\ records' = records
    BY <1>3 DEF InsertCall, SelectCall, Call, memory
  <2>2. /\ pc'[t] \in {"wlock", "rlock"} /\ seen'[t] = 0 /\ out'[t] = <<>>
        /\ \A u \in Threads : u # t =>
             pc'[u] = pc[u] /\ seen'[u] = seen[u] /\ out'[u] = out[u] /\ req'[u] = req[u]
    BY <1>p, <2>1
  <2> QED
    BY <1>b, <2>1, <2>2 DEF AnswerInv
<1>4. ASSUME NEW t \in Threads, Step(t) PROVE AnswerInv'
  <2>1. CASE InsertReject(t) \/ InsertNoMemory(t) \/ InsertOpenFail(t)
             \/ InsertAppendFail(t) \/ LockFail(t) \/ SerializeFail(t)
    BY <2>1, <1>d DEF InsertReject, InsertNoMemory, InsertOpenFail, InsertAppendFail,
                LockFail, SerializeFail, Fail, Return, locals, memory
  <2>2. CASE InsertTear(t) \/ InsertReply(t) \/ SelectReply(t)
    BY <2>2, <1>d DEF InsertTear, InsertReply, SelectReply, Return, locals, memory
  <2>3. CASE WriteLock(t) \/ InsertPrepare(t) \/ InsertAppend(t) \/ InsertIndex(t)
    BY <2>3, <1>d DEF WriteLock, InsertPrepare, InsertAppend, InsertIndex, locals, memory
  <2>4. CASE InsertIndexFail(t)
    BY <2>4, <1>d DEF InsertIndexFail, Fail, Return, locals
  <2>5. CASE InsertStore(t)
    <3>1. /\ pc[t] = "store" /\ pc' = [pc EXCEPT ![t] = "index"]
          /\ UNCHANGED <<seen, out>>
      BY <2>5 DEF InsertStore, locals
    <3>2. \A u \in Threads : pc[u] \notin {"select", "sreply"}
      BY <3>1, WriterAssumption DEF LockInv, WriteSection, ReadSection, WriterAssumption
    <3>3. ASSUME NEW u \in Threads
          PROVE  /\ pc'[u] \notin {"select", "sreply"}
                 /\ pc'[u] = "rlock" => pc[u] = "rlock"
      BY <1>p, <3>1, <3>2
    <3> QED
      BY <3>1, <3>3 DEF AnswerInv
  <2>6. CASE ReadLock(t)
    <3>1. /\ pc[t] = "rlock" /\ pc'[t] = "select" /\ UNCHANGED <<seen, out, req, records>>
          /\ \A u \in Threads : u # t => pc'[u] = pc[u]
      BY <1>p, <2>6 DEF ReadLock, locals, memory
    <3>2. /\ seen[t] = 0 /\ out[t] = <<>> /\ 0 \in 0..Len(records)
          /\ SubSeq(records, 1, 0) = <<>>
      BY <3>1 DEF AnswerInv, RecordsInv
    <3>3. seen'[t] \in 0..Len(records') /\ out'[t] = Answer(req'[t], SubSeq(records', 1, seen'[t]))
      BY <3>1, <3>2, AnswerEmpty
    <3> QED
      BY <1>b, <3>1, <3>3 DEF AnswerInv
  <2>7. CASE SelectById(t)
    <3>1. /\ pc'[t] = "sreply" /\ UNCHANGED <<seen, req, records>>
          /\ \A u \in Threads : u # t => pc'[u] = pc[u] /\ out'[u] = out[u]
      BY <1>p, <2>7 DEF SelectById, memory
    <3>2. out'[t] = Answer(req'[t], records')
      BY <2>7, <3>1, LookupAnswers
    <3> QED
      BY <1>b, <3>1, <3>2 DEF AnswerInv
  <2>8. CASE SelectScan(t)
    <3>1. /\ pc[t] = "select" /\ UNCHANGED <<pc, req, records>>
          /\ \A u \in Threads : u # t => seen'[u] = seen[u] /\ out'[u] = out[u]
      BY <1>p, <2>8 DEF SelectScan, memory
    <3>2. /\ seen'[t] \in 0..Len(records')
          /\ out'[t] = Answer(req'[t], SubSeq(records', 1, seen'[t]))
      BY <2>8, <3>1, ScanAnswers
    <3> QED
      BY <1>b, <3>1, <3>2 DEF AnswerInv
  <2>9. CASE SelectEnd(t)
    <3>1. /\ pc[t] = "select" /\ pc'[t] = "sreply" /\ UNCHANGED <<seen, out, req, records>>
          /\ \A u \in Threads : u # t => pc'[u] = pc[u]
          /\ seen[t] = Len(records) /\ req[t].filter # "id"
      BY <1>p, <2>9 DEF SelectEnd, locals, memory
    <3>2. SubSeq(records, 1, Len(records)) = records
      BY DEF RecordsInv
    <3>3. out'[t] = Answer(req'[t], records')
      BY <3>1, <3>2 DEF AnswerInv
    <3> QED
      BY <1>b, <3>1, <3>3 DEF AnswerInv
  <2> QED
    BY <1>4, <2>1, <2>2, <2>3, <2>4, <2>5, <2>6, <2>7, <2>8, <2>9
       DEF Step, InsertStep, SelectStep
<1>5. CASE UNCHANGED vars
  BY <1>5, <1>c DEF vars
<1> QED
  BY <1>1, <1>2, <1>3, <1>4, <1>5 DEF Next, LoadStep

\* All of the above together.
SnapshotInv(top) == TableInv(top) /\ IndexComplete /\ FreshInv /\ AnswerInv

\* SnapshotInv is an invariant of the engine.
THEOREM SnapshotInvariant ==
  ASSUME NoTears, NoIndexFaults, FilesDiffer, NEW top \in Nat, IdsUpTo(top)
  PROVE  Spec => []SnapshotInv(top)
<1>1. Init => FreshInv /\ AnswerInv
  <2> SUFFICES ASSUME Init PROVE FreshInv /\ AnswerInv
    OBVIOUS
  <2>1. FreshInv
    BY DEF Init, FreshInv, FilesDiffer
  <2>2. AnswerInv
    BY DEF Init, AnswerInv
  <2> QED
    BY <2>1, <2>2
<1>2. TableInv(top) /\ IndexComplete /\ FreshInv /\ AnswerInv /\ [Next]_vars
        => FreshInv' /\ AnswerInv'
  BY FreshNext, AnswerNext
<1>3. Spec => []IndexComplete
  BY IndexIsComplete DEF NoIndexFaults
<1>4. Spec => []TableInv(top)
  BY TableInvariant
<1>5. TableInv(top) /\ IndexComplete /\ FreshInv /\ AnswerInv => SnapshotInv(top)
  BY DEF SnapshotInv
<1> QED
  BY <1>1, <1>2, <1>3, <1>4, <1>5, PTL DEF Spec

\* No two users ever have the same id.
THEOREM IdsStayUnique ==
  ASSUME NoTears, NoIndexFaults, FilesDiffer, NEW top \in Nat, IdsUpTo(top)
  PROVE  Spec => []UniqueIds
<1>1. SnapshotInv(top) => UniqueIds
  BY IdsDifferInMemory DEF SnapshotInv, UniqueIds, DifferentIds
<1> QED
  BY <1>1, SnapshotInvariant, PTL

\* A select returns what the table holds at one moment, and the lookup through
\* the index what a full scan would.
THEOREM AnswersAreSnapshots ==
  ASSUME NoTears, NoIndexFaults, FilesDiffer, NEW top \in Nat, IdsUpTo(top)
  PROVE  Spec => []AnswerIsSnapshot
<1>1. SnapshotInv(top) => AnswerIsSnapshot
  BY DEF SnapshotInv, AnswerInv, AnswerIsSnapshot
<1> QED
  BY <1>1, SnapshotInvariant, PTL

-----------------------------------------------------------------------------
(* The refinement.                                                         *)

\* The phase of a request at a place of the code.
PhaseAt(p) ==
  CASE p = "idle" -> "idle"
    [] p \in {"store", "index", "ireply"} -> "applied"
    [] p = "sreply" -> "answered"
    [] OTHER -> "called"

\* A thread's step changes its own phase.
LEMMA PhaseMoves ==
  ASSUME NEW t \in Threads, NEW p, pc \in [Threads -> Pcs], pc' = [pc EXCEPT ![t] = p]
  PROVE  /\ RequestPhase' = [RequestPhase EXCEPT ![t] = PhaseAt(p)]
         /\ RequestPhase[t] = PhaseAt(pc[t])
  BY DEF RequestPhase, PhaseAt

\* What a thread does to its own effect it does to no other.
LEMMA EffectMoves ==
  ASSUME NEW t \in Threads,
         \A u \in Threads : u # t => pc'[u] = pc[u] /\ row'[u] = row[u] /\ out'[u] = out[u]
  PROVE  Effect' = [Effect EXCEPT ![t] = Effect'[t]]
<1>1. ASSUME NEW u \in Threads, u # t PROVE Effect'[u] = Effect[u]
  BY <1>1 DEF Effect
<1>2. DOMAIN Effect = Threads /\ DOMAIN Effect' = Threads
  BY DEF Effect
<1>3. Effect' = [u \in Threads |-> Effect'[u]] /\ Effect = [u \in Threads |-> Effect[u]]
  BY DEF Effect
<1> QED
  BY <1>1, <1>2, <1>3

\* The engine starts as a table.
LEMMA RefinementInit == Init => Users!TableInit
<1> SUFFICES ASSUME Init PROVE Users!TableInit
  OBVIOUS
<1>1. Lines = file
  BY DEF Init, Lines
<1>2. /\ RequestPhase = [t \in Threads |-> "idle"]
      /\ Effect = [t \in Threads |-> <<>>]
  BY DEF Init, RequestPhase, Effect
<1> QED
  BY <1>1, <1>2 DEF Init, Users!TableInit

\* A step that ends thread t's request without success.
LEMMA GiveUpStep ==
  ASSUME NEW top \in Nat, TableInv(top), TableInv(top)', NEW t \in Threads, pc[t] # "idle",
         pc' = [pc EXCEPT ![t] = "idle"], reply' = [reply EXCEPT ![t] = NoReply],
         UNCHANGED <<file, req, row, out>>
  PROVE  Users!GiveUp(t)
<1> USE DEF TableInv, EngineInv
<1>1. Lines = file /\ Lines' = file'
  BY DEF FileInv, Lines
<1>p. pc \in [Threads -> Pcs]
  BY DEF LockInv
<1>2. /\ RequestPhase' = [RequestPhase EXCEPT ![t] = "idle"]
      /\ RequestPhase[t] # "idle"
  BY <1>p, PhaseMoves DEF PhaseAt
<1>3. Effect' = [Effect EXCEPT ![t] = <<>>]
  <2>1. Effect'[t] = <<>>
    BY <1>p DEF Effect
  <2>2. \A u \in Threads : u # t => pc'[u] = pc[u]
    BY <1>p
  <2>3. Effect' = [Effect EXCEPT ![t] = Effect'[t]]
    BY <2>2, EffectMoves
  <2> QED
    BY <2>1, <2>3
<1> QED
  BY <1>1, <1>2, <1>3 DEF Users!GiveUp

\* A step that ends thread t's request with success.
LEMMA SucceedStep ==
  ASSUME NEW top \in Nat, TableInv(top), TableInv(top)', NEW t \in Threads,
         InsertReply(t) \/ SelectReply(t)
  PROVE  Users!Succeed(t)
<1> USE DEF TableInv, EngineInv
<1>0. /\ pc[t] \in {"ireply", "sreply"} /\ pc' = [pc EXCEPT ![t] = "idle"]
      /\ UNCHANGED <<file, req, row, out>>
      /\ reply' = [reply EXCEPT ![t] = [ok |-> TRUE,
            rows |-> IF pc[t] = "ireply" THEN Inserted(row[t]) ELSE out[t]]]
  BY DEF InsertReply, SelectReply, Return, disk, locals, Inserted
<1>1. Lines = file /\ Lines' = file'
  BY DEF FileInv, Lines
<1>p. pc \in [Threads -> Pcs]
  BY DEF LockInv
<1>2. /\ RequestPhase' = [RequestPhase EXCEPT ![t] = "idle"]
      /\ RequestPhase[t] = IF pc[t] = "ireply" THEN "applied" ELSE "answered"
      /\ Effect[t] = IF pc[t] = "ireply" THEN row[t] ELSE out[t]
  BY <1>0, <1>p, PhaseMoves DEF PhaseAt, Effect
<1>3. Effect' = [Effect EXCEPT ![t] = <<>>]
  <2>1. Effect'[t] = <<>>
    BY <1>0, <1>p DEF Effect
  <2>2. \A u \in Threads : u # t => pc'[u] = pc[u]
    BY <1>0, <1>p
  <2>3. Effect' = [Effect EXCEPT ![t] = Effect'[t]]
    BY <1>0, <2>2, EffectMoves
  <2> QED
    BY <2>1, <2>3
<1>4. reply' = [reply EXCEPT ![t] = [ok |-> TRUE,
            rows |-> IF RequestPhase[t] = "applied" THEN Inserted(Effect[t]) ELSE Effect[t]]]
  BY <1>0, <1>2
<1> QED
  BY <1>0, <1>1, <1>2, <1>3, <1>4 DEF Users!Succeed

\* The append to the file is the instant at which an INSERT takes effect.
LEMMA ApplyStep ==
  ASSUME NEW top \in Nat, TableInv(top), TableInv(top)', FreshInv, NEW t \in Threads,
         InsertAppend(t)
  PROVE  Users!Apply(t)
<1> USE DEF TableInv, EngineInv
<1>0. /\ pc[t] = "append" /\ pc' = [pc EXCEPT ![t] = "store"]
      /\ UNCHANGED <<req, row, out, reply>>
  BY DEF InsertAppend, locals
<1>1. Lines = file /\ Lines' = file'
  BY DEF FileInv, Lines
<1>p. pc \in [Threads -> Pcs]
  BY DEF LockInv
<1>2. /\ RequestPhase' = [RequestPhase EXCEPT ![t] = "applied"]
      /\ RequestPhase[t] = "called"
  BY <1>0, <1>p, PhaseMoves DEF PhaseAt
<1>3. /\ Effect'[t] = row[t]
      /\ \A u \in Threads \ {t} : Effect'[u] = Effect[u]
  BY <1>0, <1>p DEF Effect
<1>4. /\ req[t] \in Inserts /\ row[t].id > 0
      /\ req[t].hasId => row[t].id = req[t].id
      /\ row[t].name = req[t].name /\ row[t].age = req[t].age
  BY <1>0 DEF RequestInv, RowInv, ValidRow, WriteSection
<1>5. /\ \A i \in 1..Len(Table(file)) : Table(file)[i].id # row[t].id
      /\ Table(file') = Append(Table(file), row[t])
  BY <1>0, AppendStep DEF FreshInv
<1> QED
  BY <1>0, <1>1, <1>2, <1>3, <1>4, <1>5 DEF Users!Apply

\* The end of the scan, or the lookup, is the instant at which a SELECT does.
LEMMA EvaluateStep ==
  ASSUME NEW top \in Nat, SnapshotInv(top), SnapshotInv(top)', NEW t \in Threads,
         SelectById(t) \/ SelectEnd(t)
  PROVE  Users!Evaluate(t)
<1> USE DEF SnapshotInv, TableInv, EngineInv
<1>0. /\ pc[t] = "select" /\ pc' = [pc EXCEPT ![t] = "sreply"]
      /\ UNCHANGED <<file, req, row, reply, records, status>>
      /\ \A u \in Threads : u # t => out'[u] = out[u]
  BY DEF SelectById, SelectEnd, locals, disk, memory, RequestInv
<1>1. Lines = file /\ Lines' = file'
  BY DEF FileInv, Lines
<1>p. pc \in [Threads -> Pcs]
  BY DEF LockInv
<1>2. /\ RequestPhase' = [RequestPhase EXCEPT ![t] = "answered"]
      /\ RequestPhase[t] = "called"
  BY <1>0, <1>p, PhaseMoves DEF PhaseAt
<1>3. req[t] \in Selects
  BY <1>0 DEF RequestInv, ReadSection
<1>4. Table(file) = records
  <2>1. InFlight = <<>>
    BY <1>0, NoneInFlight, WriterAssumption
       DEF LockInv, WriteSection, ReadSection, WriterAssumption
  <2>2. records \o <<>> = records /\ status = "up"
    BY <1>0 DEF RecordsInv, LockInv
  <2> QED
    BY <2>1, <2>2 DEF MemoryInv
<1>5. out'[t] = Answer(req[t], records)
  BY <1>0, <1>p DEF AnswerInv
<1>6. Effect' = [Effect EXCEPT ![t] = Answer(req[t], Table(file))]
  <2>1. Effect'[t] = out'[t]
    BY <1>0, <1>p DEF Effect
  <2>2. \A u \in Threads : u # t => pc'[u] = pc[u]
    BY <1>0, <1>p
  <2>3. Effect' = [Effect EXCEPT ![t] = Effect'[t]]
    BY <1>0, <2>2, EffectMoves
  <2> QED
    BY <1>4, <1>5, <2>1, <2>3
<1> QED
  BY <1>0, <1>1, <1>2, <1>3, <1>6 DEF Users!Evaluate

\* A step that the table does not see.
LEMMA HiddenStep ==
  ASSUME NEW top \in Nat, TableInv(top), TableInv(top)', UNCHANGED <<file, req, reply>>,
         \A u \in Threads : RequestPhase'[u] = RequestPhase[u] /\ Effect'[u] = Effect[u]
  PROVE  UNCHANGED Users!tvars
<1>1. Lines = file /\ Lines' = file'
  BY DEF TableInv, FileInv, Lines
<1>2. RequestPhase' = RequestPhase /\ Effect' = Effect
  BY DEF RequestPhase, Effect
<1> QED
  BY <1>1, <1>2 DEF Users!tvars

\* Every step of the engine is a step of the table or hidden.
LEMMA RefinementNext ==
  ASSUME NoTears, NoIndexFaults, NEW top \in Nat, SnapshotInv(top), SnapshotInv(top)',
         [Next]_vars
  PROVE  [Users!TableNext]_(Users!tvars)
<1> USE DEF SnapshotInv
<1>0. /\ pc \in [Threads -> Pcs] /\ DOMAIN out = Threads
      /\ row \in [Threads -> Row \cup {<<>>}]
  BY DEF TableInv, EngineInv, LockInv, RequestInv, RowInv
<1>1. CASE DbInit \/ LoadBlank \/ LoadDone \/ LoadRecord
  <2>1. UNCHANGED <<file, req, reply, pc, row, out>>
    BY <1>1 DEF DbInit, LoadBlank, LoadDone, LoadRecord, disk, locals
  <2>2. UNCHANGED <<RequestPhase, Effect>>
    BY <2>1 DEF RequestPhase, Effect
  <2> QED
    BY <2>1, <2>2, HiddenStep
<1>2. CASE DbDestroy
  <2>1. UNCHANGED <<file, req, reply, pc, row, out>>
    BY <1>2 DEF DbDestroy, disk, locals
  <2>2. UNCHANGED <<RequestPhase, Effect>>
    BY <2>1 DEF RequestPhase, Effect
  <2> QED
    BY <2>1, <2>2, HiddenStep
<1>3. CASE LoadFail \/ Crash
  <2>1. /\ file' = file /\ pc' = [t \in Threads |-> "idle"]
        /\ req' = [t \in Threads |-> <<>>] /\ reply' = [t \in Threads |-> NoReply]
    BY <1>3 DEF LoadFail, Crash, Forget, disk
  <2>2. /\ RequestPhase' = [t \in Threads |-> "idle"]
        /\ Effect' = [t \in Threads |-> <<>>]
    BY <2>1 DEF RequestPhase, Effect
  <2>3. Lines = file /\ Lines' = file'
    BY DEF TableInv, FileInv, Lines
  <2>4. Users!Restart
    BY <2>1, <2>2, <2>3 DEF Users!Restart
  <2> QED
    BY <2>4 DEF Users!TableNext
<1>4. ASSUME NEW t \in Threads, InsertCall(t) \/ SelectCall(t) PROVE Users!TableCall(t)
  <2>1. PICK p \in {"wlock", "rlock"} : pc' = [pc EXCEPT ![t] = p]
    BY <1>4 DEF InsertCall, SelectCall, Call
  <2>2. /\ pc[t] = "idle" /\ UNCHANGED <<file, reply>>
        /\ \E q \in Inserts \cup Selects : req' = [req EXCEPT ![t] = q]
        /\ out' = [out EXCEPT ![t] = <<>>] /\ row' = [row EXCEPT ![t] = <<>>]
    BY <1>4 DEF InsertCall, SelectCall, Call, disk
  <2>3. /\ RequestPhase' = [RequestPhase EXCEPT ![t] = "called"]
        /\ RequestPhase[t] = "idle"
    BY <1>0, <2>1, <2>2, PhaseMoves DEF PhaseAt
  <2>4. Effect' = [Effect EXCEPT ![t] = <<>>]
    <3>1. Effect'[t] = <<>>
      BY <1>0, <2>1 DEF Effect
    <3>2. \A u \in Threads : u # t => pc'[u] = pc[u] /\ row'[u] = row[u] /\ out'[u] = out[u]
      BY <1>0, <2>1, <2>2
    <3>3. Effect' = [Effect EXCEPT ![t] = Effect'[t]]
      BY <3>2, EffectMoves
    <3> QED
      BY <3>1, <3>3
  <2>5. Lines = file /\ Lines' = file'
    BY DEF TableInv, FileInv, Lines
  <2> QED
    BY <2>2, <2>3, <2>4, <2>5 DEF Users!TableCall
<1>5. ASSUME NEW t \in Threads, Step(t) PROVE [Users!TableNext]_(Users!tvars)
  <2>1. CASE InsertReject(t) \/ InsertNoMemory(t) \/ InsertOpenFail(t)
             \/ InsertAppendFail(t) \/ LockFail(t) \/ SerializeFail(t)
    <3>1. /\ pc[t] # "idle" /\ pc' = [pc EXCEPT ![t] = "idle"]
          /\ reply' = [reply EXCEPT ![t] = NoReply] /\ UNCHANGED <<file, req, row, out>>
      BY <2>1 DEF InsertReject, InsertNoMemory, InsertOpenFail, InsertAppendFail,
                  LockFail, SerializeFail, Fail, Return, disk, locals
    <3>2. Users!GiveUp(t)
      BY <3>1, GiveUpStep
    <3> QED
      BY <3>2 DEF Users!TableNext
  <2>2. CASE InsertReply(t) \/ SelectReply(t)
    BY <2>2, SucceedStep DEF Users!TableNext
  <2>3. CASE InsertAppend(t)
    BY <2>3, ApplyStep DEF Users!TableNext
  <2>4. CASE SelectById(t) \/ SelectEnd(t)
    BY <2>4, EvaluateStep DEF Users!TableNext
  <2>5. CASE InsertTear(t) \/ InsertIndexFail(t)
    BY <2>5 DEF InsertTear, InsertIndexFail, NoTears, NoIndexFaults
  <2>6. CASE WriteLock(t) \/ ReadLock(t) \/ InsertStore(t) \/ InsertIndex(t)
    <3>1. UNCHANGED <<file, req, reply, row, out>>
      BY <2>6 DEF WriteLock, ReadLock, InsertStore, InsertIndex, disk, locals
    <3>2. /\ \A u \in Threads : u # t => pc'[u] = pc[u]
          /\ \/ pc[t] \in {"wlock", "rlock"} /\ pc'[t] \in {"check", "select"}
             \/ pc[t] \in {"store", "index"} /\ pc'[t] \in {"index", "ireply"}
      BY <1>0, <2>6 DEF WriteLock, ReadLock, InsertStore, InsertIndex
    <3>3. ASSUME NEW u \in Threads
          PROVE  RequestPhase'[u] = RequestPhase[u] /\ Effect'[u] = Effect[u]
      <4>1. CASE u = t
        BY <3>1, <3>2, <4>1 DEF RequestPhase, Effect
      <4>2. CASE u # t
        BY <3>1, <3>2, <4>2 DEF RequestPhase, Effect
      <4> QED
        BY <4>1, <4>2
    <3> QED
      BY <3>1, <3>3, HiddenStep
  <2>7. CASE InsertPrepare(t)
    <3>1. UNCHANGED <<file, req, reply, out>>
      BY <2>7 DEF InsertPrepare, disk
    <3>2. /\ \A u \in Threads : u # t => pc'[u] = pc[u] /\ row'[u] = row[u]
          /\ pc[t] = "check" /\ pc'[t] = "append"
      BY <1>0, <2>7 DEF InsertPrepare
    <3>3. ASSUME NEW u \in Threads
          PROVE  RequestPhase'[u] = RequestPhase[u] /\ Effect'[u] = Effect[u]
      <4>1. CASE u = t
        BY <3>1, <3>2, <4>1 DEF RequestPhase, Effect
      <4>2. CASE u # t
        BY <3>1, <3>2, <4>2 DEF RequestPhase, Effect
      <4> QED
        BY <4>1, <4>2
    <3> QED
      BY <3>1, <3>3, HiddenStep
  <2>8. CASE SelectScan(t)
    <3>1. UNCHANGED <<file, req, reply, row, pc>> /\ pc[t] = "select"
      BY <2>8 DEF SelectScan, disk
    <3>2. \A u \in Threads : u # t => out'[u] = out[u]
      BY <1>0, <2>8 DEF SelectScan
    <3>3. ASSUME NEW u \in Threads
          PROVE  RequestPhase'[u] = RequestPhase[u] /\ Effect'[u] = Effect[u]
      BY <3>1, <3>2 DEF RequestPhase, Effect
    <3> QED
      BY <3>1, <3>3, HiddenStep
  <2> QED
    BY <1>5, <2>1, <2>2, <2>3, <2>4, <2>5, <2>6, <2>7, <2>8 DEF Step, InsertStep, SelectStep
<1>6. CASE UNCHANGED vars
  <2>1. UNCHANGED <<file, req, reply, pc, row, out>>
    BY <1>6 DEF vars
  <2>2. UNCHANGED <<RequestPhase, Effect>>
    BY <2>1 DEF RequestPhase, Effect
  <2> QED
    BY <2>1, <2>2, HiddenStep
<1> QED
  BY <1>1, <1>2, <1>3, <1>4, <1>5, <1>6 DEF Next, LoadStep, Users!TableNext

\* The engine is a table of users on which every request takes effect at one
\* instant, an acknowledged INSERT exactly once, and which survives crashes.
THEOREM EngineImplementsUsersTable ==
  ASSUME NoTears, NoIndexFaults, FilesDiffer, NEW top \in Nat, IdsUpTo(top)
  PROVE  Spec => ImplementsUsersTable
<1>1. SnapshotInv(top) /\ SnapshotInv(top)' /\ [Next]_vars => [Users!TableNext]_(Users!tvars)
  BY RefinementNext
<1>2. Spec => []SnapshotInv(top)
  BY SnapshotInvariant
<1> QED
  BY <1>1, <1>2, RefinementInit, PTL DEF Spec, ImplementsUsersTable, Users!TableSpec
=============================================================================
