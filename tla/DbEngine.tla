------------------------------ MODULE DbEngine ------------------------------
(***************************************************************************)
(* The storage engine of src/db.c: the users table as an array of records, *)
(* an id index, the next automatic id and an append-only data file, shared *)
(* by the worker threads under one pthread_rwlock.                         *)
(*                                                                         *)
(* Every step of a request that reads or writes shared state is an action  *)
(* of its own, so a crash of the process or a step of another thread can   *)
(* fall between any two of them.  What the environment may do to a request *)
(* (a failing allocation, file operation or lock, a crash) is switched on  *)
(* by the constant Faults.  A crash is the death of the process: memory is *)
(* lost and the file keeps every write that returned.                      *)
(***************************************************************************)
EXTENDS DataFile, IndexOps, FiniteSets

CONSTANTS
  Threads,        \* the worker threads that execute statements
  Inserts,        \* the INSERT requests: [hasId, id, name, age]
  Selects,        \* the SELECT requests: [filter, id, name, projection]
  BadName,        \* a name with a comma or a line break in it
  InitialFiles,   \* the complete lines of the file before the first start
  FirstCapacity,  \* what the records array holds after its first allocation
  MaxInt,         \* INT_MAX
  Faults,         \* the faults that can happen, a subset of FaultKinds
  MaxTears,       \* bound on the appends that leave a partial line
  MaxCalls,       \* bound on the requests of one behaviour
  MaxCrashes,     \* bound on the crashes of one behaviour
  Nobody          \* the writer of a lock that nobody holds for writing

FaultKinds ==
  {"lock", "memory", "open", "append", "tear", "index", "json", "crash"}

ASSUME FaultsAssumption == Faults \subseteq FaultKinds
ASSUME FirstCapacityAssumption == FirstCapacity \in Nat \ {0}
ASSUME MaxIntAssumption == MaxInt \in Nat \ {0}
ASSUME WriterAssumption == Nobody \notin Threads /\ IsFiniteSet(Threads)
ASSUME BoundsAssumption == MaxTears \in Nat /\ MaxCalls \in Nat /\ MaxCrashes \in Nat

\* The values of an int.
CInt == -(MaxInt + 1)..MaxInt

\* What a field in the file can consist of: digits, and the names in use.
Tokens ==
  Int \cup UNION {{q.name[i] : i \in 1..Len(q.name)} : q \in Inserts}
      \cup UNION {UNION {{text[j][k] : k \in 1..Len(text[j])} : j \in 1..Len(text)} :
                   text \in UNION {{f[i] : i \in 1..Len(f)} : f \in InitialFiles}}

Text == Seq(Seq(Tokens)) \ {<<>>}

ASSUME InsertsAssumption ==
  \A q \in Inserts :
    q.hasId \in BOOLEAN /\ q.id \in CInt /\ q.name \in Seq(Tokens) /\ q.age \in CInt
ASSUME FilesAssumption == InitialFiles \subseteq Seq(Text)

VARIABLES
  file, tail,       \* the complete lines, and the text behind the last newline
  status, cursor,   \* "down", "loading" or "up"; lines read by db_init so far
  records,          \* db->records[0 .. count-1]
  capacity,         \* db->capacity
  index,            \* db->index: id -> position in records, counted from 0
  nextId,           \* db->next_id
  writer, readers,  \* who holds db->lock
  pc, req,          \* where each thread is in which request
  row,              \* the insert's local record
  out,              \* the rows a select has serialized so far
  seen,             \* the loop counter of a select's scan
  reply,            \* the DbResult of each thread's last request
  acked,            \* history: the rows whose INSERT was answered with success
  tears, calls, crashes  \* counters for the bounds

disk == <<file, tail>>
memory == <<records, capacity, index, nextId>>
lock == <<writer, readers>>
locals == <<req, row, out, seen>>
history == <<acked, tears, calls, crashes>>
vars == <<file, tail, status, cursor, records, capacity, index, nextId, writer,
          readers, pc, req, row, out, seen, reply, acked, tears, calls, crashes>>

EmptyIndex == [k \in {} |-> 0]

NoReply == [ok |-> FALSE, rows |-> <<>>]

\* The result of signed 32-bit arithmetic in the build: it wraps around.
Wrap(n) == IF n > MaxInt THEN n - 2 * (MaxInt + 1) ELSE n

-----------------------------------------------------------------------------
(* Helpers of db.c.                                                        *)

\* name_is_valid: not empty and free of separators.
NameIsValid(name) == Len(name) > 0 /\ \A i \in 1..Len(name) : name[i] # BadName

\* Faulty variant: room is reserved for the rows there are, not for one more.
GrownForCount ==
  IF Len(records) <= capacity /\ capacity # 0 THEN capacity
  ELSE IF capacity = 0 THEN FirstCapacity ELSE 2 * capacity

\* db_reserve_records(db, count + 1): the doubled capacity suffices for one more.
Grown ==
  IF Len(records) + 1 <= capacity THEN capacity
  ELSE IF capacity = 0 THEN FirstCapacity ELSE 2 * capacity

\* all_columns_projection, and the projection of a statement that names none.
AllColumns == <<"id", "name", "age">>

\* The columns append_record_json writes, in this order.
Columns(projection) ==
  IF projection.columns # <<>> THEN projection.columns
  ELSE IF projection.include = {} THEN AllColumns
  ELSE SelectSeq(AllColumns, LAMBDA c : c \in projection.include)

\* append_record_json: a row as the list of its projected columns.
RowJson(r, projection) ==
  LET columns == Columns(projection)
  IN  [i \in 1..Len(columns) |-> <<columns[i], r[columns[i]]>>]

All == [columns |-> <<>>, include |-> {"id", "name", "age"}]

\* pthread_rwlock_unlock by thread t, which then returns its result to the caller.
Return(t, result) ==
  /\ writer' = IF writer = t THEN Nobody ELSE writer
  /\ readers' = readers \ {t}
  /\ reply' = [reply EXCEPT ![t] = result]
  /\ pc' = [pc EXCEPT ![t] = "idle"]

\* make_error_result after unlocking.
Fail(t) == Return(t, NoReply) /\ UNCHANGED <<status, cursor, locals, history>>

-----------------------------------------------------------------------------
(* db_init and db_destroy, and the death of the process.                   *)

Init ==
  /\ file \in InitialFiles /\ tail = EmptyText
  /\ status = "down" /\ cursor = 0
  /\ records = <<>> /\ capacity = 0 /\ index = EmptyIndex /\ nextId = 1
  /\ writer = Nobody /\ readers = {}
  /\ pc = [t \in Threads |-> "idle"]
  /\ req = [t \in Threads |-> <<>>]
  /\ row = [t \in Threads |-> <<>>]
  /\ out = [t \in Threads |-> <<>>]
  /\ seen = [t \in Threads |-> 0]
  /\ reply = [t \in Threads |-> NoReply]
  /\ acked = {} /\ tears = 0 /\ calls = 0 /\ crashes = 0

\* db_init begins with an empty table and opens the file.
DbInit ==
  /\ status = "down"
  /\ status' = "loading"
  /\ cursor' = 0
  /\ UNCHANGED <<disk, memory, lock, pc, locals, reply, history>>

\* What fgets returns until the end of the file.
Lines == IF tail = EmptyText THEN file ELSE Append(file, tail)

\* The table in memory is gone.
FreeTable ==
  /\ status' = "down" /\ cursor' = 0
  /\ records' = <<>> /\ capacity' = 0 /\ index' = EmptyIndex /\ nextId' = 1

\* Everything volatile is gone.
Forget ==
  /\ FreeTable
  /\ writer' = Nobody /\ readers' = {}
  /\ pc' = [t \in Threads |-> "idle"]
  /\ req' = [t \in Threads |-> <<>>]
  /\ row' = [t \in Threads |-> <<>>]
  /\ out' = [t \in Threads |-> <<>>]
  /\ seen' = [t \in Threads |-> 0]
  /\ reply' = [t \in Threads |-> NoReply]

\* Faulty variant: db_init checks the shape of a line and not its values.
RefusedMalformedOnly(text) == ~Scans(text)

\* A line that db_init refuses: malformed, or an invalid record.
Refused(text) ==
  Scans(text) =>
    LET r == ScannedRow(text) IN r.id <= 0 \/ r.age < 0 \/ ~NameIsValid(r.name)

\* Faulty variant: a damaged line is skipped instead of refusing the file.
LoadBlankOrDamaged ==
  /\ status = "loading"
  /\ cursor < Len(Lines)
  /\ Lines[cursor + 1] = EmptyText \/ Refused(Lines[cursor + 1])
  /\ cursor' = cursor + 1
  /\ UNCHANGED <<disk, status, memory, lock, pc, locals, reply, history>>

\* Empty lines are skipped.
LoadBlank ==
  /\ status = "loading"
  /\ cursor < Len(Lines)
  /\ Lines[cursor + 1] = EmptyText
  /\ cursor' = cursor + 1
  /\ UNCHANGED <<disk, status, memory, lock, pc, locals, reply, history>>

\* Faulty variant: the next id is not restored from the file.
NextIdKept(r) == nextId

\* The next id once load_record has taken r in: no guard against INT_MAX.
NextIdAfterLoad(r) == IF r.id >= nextId THEN Wrap(r.id + 1) ELSE nextId

\* Faulty variant: the index keeps the value that it has for a key.
KeepsFirst(r) ==
  IF r.id \in DOMAIN index THEN {[map |-> index, ok |-> TRUE]}
  ELSE {InsertOutcome(index, r.id, Len(records))}

\* Faulty variant: rows from the file are not entered into the index.
NotIndexed(r) == {[map |-> index, ok |-> TRUE]}

\* What the index may be once load_record has inserted r at the next position.
IndexAfterLoad(r) ==
  {InsertOutcome(index, r.id, Len(records))}
    \cup IF "index" \in Faults
         THEN FailedInsertOutcomes(index, r.id, Len(records)) ELSE {}

\* load_record.
LoadRecord ==
  /\ status = "loading"
  /\ cursor < Len(Lines)
  /\ Lines[cursor + 1] # EmptyText
  /\ ~Refused(Lines[cursor + 1])
  /\ LET r == ScannedRow(Lines[cursor + 1])
     IN  /\ records' = Append(records, r)
         /\ capacity' = Grown
         /\ \E o \in IndexAfterLoad(r) : o.ok /\ index' = o.map
         /\ nextId' = NextIdAfterLoad(r)
  /\ cursor' = cursor + 1
  /\ UNCHANGED <<disk, status, lock, pc, locals, reply, history>>

\* db_init gives up on a bad line or without memory; the program exits.
LoadFail ==
  /\ status = "loading"
  /\ cursor < Len(Lines)
  /\ Lines[cursor + 1] # EmptyText
  /\ Refused(Lines[cursor + 1]) \/ Faults \cap {"memory", "index"} # {}
  /\ Forget
  /\ UNCHANGED <<disk, history>>

LoadDone ==
  /\ status = "loading"
  /\ cursor = Len(Lines)
  /\ status' = "up"
  /\ UNCHANGED <<disk, cursor, memory, lock, pc, locals, reply, history>>

\* Faulty variant: nobody waits for the workers.
WorkersNotJoined == TRUE

\* The server has joined its workers: no statement is being executed.
WorkersJoined == \A t \in Threads : pc[t] = "idle"

\* db_destroy.
DbDestroy ==
  /\ status = "up"
  /\ WorkersJoined
  /\ FreeTable
  /\ UNCHANGED <<disk, lock, pc, locals, reply, history>>

Crash ==
  /\ "crash" \in Faults
  /\ status = "up"
  /\ crashes < MaxCrashes
  /\ crashes' = crashes + 1
  /\ Forget
  /\ UNCHANGED <<disk, acked, tears, calls>>

-----------------------------------------------------------------------------
(* db_insert and db_insert_with_id.                                        *)

Call(t, q, at) ==
  /\ status = "up"
  /\ pc[t] = "idle"
  /\ calls < MaxCalls
  /\ calls' = calls + 1
  /\ req' = [req EXCEPT ![t] = q]
  /\ out' = [out EXCEPT ![t] = <<>>]
  /\ seen' = [seen EXCEPT ![t] = 0]
  /\ row' = [row EXCEPT ![t] = <<>>]
  /\ pc' = [pc EXCEPT ![t] = at]
  /\ UNCHANGED <<disk, status, cursor, memory, lock, reply, acked, tears, crashes>>

InsertCall(t) == \E q \in Inserts : Call(t, q, "wlock")

\* Faulty variant: the writer does not wait for readers.
WriteFreeOfWriters == writer = Nobody

WriteFree == writer = Nobody /\ readers = {}

\* pthread_rwlock_wrlock waits for all other holders of the lock.
WriteLock(t) ==
  /\ pc[t] = "wlock"
  /\ WriteFree
  /\ writer' = t
  /\ pc' = [pc EXCEPT ![t] = "check"]
  /\ UNCHANGED <<disk, status, cursor, memory, readers, locals, reply, history>>

\* Either lock function may fail; the request ends without the lock.
LockFail(t) ==
  /\ "lock" \in Faults
  /\ pc[t] \in {"wlock", "rlock"}
  /\ Fail(t)
  /\ UNCHANGED <<disk, memory>>

\* Faulty variant: the duplicate check is missing.
NeverDuplicate(q) == FALSE

Duplicate(q) == q.hasId /\ q.id \in DOMAIN index

\* An explicit id must be new, which the index decides.
InsertInvalid(q) ==
  \/ q.hasId /\ q.id <= 0
  \/ q.age < 0
  \/ ~NameIsValid(q.name)
  \/ Duplicate(q)

InsertReject(t) ==
  /\ pc[t] = "check"
  /\ InsertInvalid(req[t])
  /\ Fail(t)
  /\ UNCHANGED <<disk, memory>>

InsertNoMemory(t) ==
  /\ "memory" \in Faults
  /\ pc[t] = "check"
  /\ ~InsertInvalid(req[t])
  /\ Grown # capacity
  /\ Fail(t)
  /\ UNCHANGED <<disk, memory>>

\* Room is reserved and the record is filled in.
InsertPrepare(t) ==
  /\ pc[t] = "check"
  /\ ~InsertInvalid(req[t])
  /\ capacity' = Grown
  /\ row' = [row EXCEPT ![t] =
               [id |-> IF req[t].hasId THEN req[t].id ELSE nextId,
                name |-> req[t].name, age |-> req[t].age]]
  /\ pc' = [pc EXCEPT ![t] = "append"]
  /\ UNCHANGED <<disk, status, cursor, records, index, nextId, lock, req, out,
                 seen, reply, history>>

\* Faulty variant: the path of a failed fopen returns without unlocking.
InsertOpenFailLocked(t) ==
  /\ "open" \in Faults
  /\ pc[t] = "append"
  /\ reply' = [reply EXCEPT ![t] = NoReply]
  /\ pc' = [pc EXCEPT ![t] = "idle"]
  /\ UNCHANGED <<disk, memory, lock, status, cursor, locals, history>>

InsertOpenFail(t) ==
  /\ "open" \in Faults
  /\ pc[t] = "append"
  /\ Fail(t)
  /\ UNCHANGED <<disk, memory>>

\* Faulty variant: the file is opened for writing instead of appending.
AppendedToNothing(text) == <<text>>

\* The complete lines after a text and its newline were appended.
Appended(text) == Append(file, Glue(tail, text))

\* fprintf and fclose succeed: the line is complete.
InsertAppend(t) ==
  /\ pc[t] = "append"
  /\ file' = Appended(RowText(row[t]))
  /\ tail' = EmptyText
  /\ pc' = [pc EXCEPT ![t] = "store"]
  /\ UNCHANGED <<status, cursor, memory, lock, locals, reply, history>>

\* fprintf or fclose fails without anything reaching the file.
InsertAppendFail(t) ==
  /\ "append" \in Faults
  /\ pc[t] = "append"
  /\ Fail(t)
  /\ UNCHANGED <<disk, memory>>

\* fprintf or fclose fails after a part of the line, or all of it, was written.
InsertTear(t) ==
  /\ "tear" \in Faults
  /\ tears < MaxTears
  /\ pc[t] = "append"
  /\ \/ /\ tail' \in {Glue(tail, c) : c \in Cuts(row[t]) \ {EmptyText}}
        /\ UNCHANGED file
     \/ /\ file' = Appended(RowText(row[t]))
        /\ tail' = EmptyText
  /\ tears' = tears + 1
  /\ Return(t, NoReply)
  /\ UNCHANGED <<status, cursor, memory, locals, acked, calls, crashes>>

\* Faulty variant: only an automatic id moves the next one.
NextIdAfterAutomatic(r) == IF r.id = nextId THEN r.id + 1 ELSE nextId

\* INT_MAX does not advance the next id.
NextIdAfterInsert(r) ==
  IF r.id >= nextId /\ r.id < MaxInt THEN r.id + 1 ELSE nextId

\* The row becomes part of the table.
InsertStore(t) ==
  /\ pc[t] = "store"
  /\ records' = Append(records, row[t])
  /\ nextId' = NextIdAfterInsert(row[t])
  /\ pc' = [pc EXCEPT ![t] = "index"]
  /\ UNCHANGED <<disk, status, cursor, capacity, index, lock, locals, reply, history>>

\* The position of the row just stored.
StoredPosition == Len(records) - 1

InsertIndex(t) ==
  /\ pc[t] = "index"
  /\ index' = InsertOutcome(index, row[t].id, StoredPosition).map
  /\ pc' = [pc EXCEPT ![t] = "ireply"]
  /\ UNCHANGED <<disk, status, cursor, records, capacity, nextId, lock, locals,
                 reply, history>>

\* Faulty variant: a failure of the index takes the row back, in memory only.
InsertIndexFailUndone(t) ==
  /\ "index" \in Faults
  /\ pc[t] = "index"
  /\ \E o \in FailedInsertOutcomes(index, row[t].id, StoredPosition) :
       ~o.ok /\ index' = o.map
  /\ records' = SubSeq(records, 1, StoredPosition)
  /\ Fail(t)
  /\ UNCHANGED <<disk, capacity, nextId>>

\* An allocation inside bptree_insert fails.  The row stays in the table.
InsertIndexFail(t) ==
  /\ "index" \in Faults
  /\ pc[t] = "index"
  /\ \E o \in FailedInsertOutcomes(index, row[t].id, StoredPosition) :
       /\ index' = o.map
       /\ IF o.ok
          THEN /\ pc' = [pc EXCEPT ![t] = "ireply"]
               /\ UNCHANGED <<status, cursor, lock, locals, reply, history>>
          ELSE Fail(t)
  /\ UNCHANGED <<disk, records, capacity, nextId>>

InsertReply(t) ==
  /\ pc[t] = "ireply"
  /\ Return(t, [ok |-> TRUE, rows |-> <<RowJson(row[t], All)>>])
  /\ acked' = acked \cup {row[t]}
  /\ UNCHANGED <<disk, status, cursor, memory, locals, tears, calls, crashes>>

-----------------------------------------------------------------------------
(* db_select_projected.                                                    *)

SelectCall(t) == \E q \in Selects : Call(t, q, "rlock")

\* pthread_rwlock_rdlock waits for a writer only.
ReadLock(t) ==
  /\ pc[t] = "rlock"
  /\ writer = Nobody
  /\ readers' = readers \cup {t}
  /\ pc' = [pc EXCEPT ![t] = "select"]
  /\ UNCHANGED <<disk, status, cursor, memory, writer, locals, reply, history>>

\* WHERE id = k goes through the index.
SelectById(t) ==
  /\ pc[t] = "select"
  /\ req[t].filter = "id"
  /\ out' = [out EXCEPT ![t] =
       IF req[t].id \in DOMAIN index /\ index[req[t].id] < Len(records)
       THEN <<RowJson(records[index[req[t].id] + 1], req[t].projection)>>
       ELSE <<>>]
  /\ pc' = [pc EXCEPT ![t] = "sreply"]
  /\ UNCHANGED <<disk, status, cursor, memory, lock, req, row, seen, reply, history>>

\* The rows a scan includes.
Included(q, r) == q.filter = "all" \/ (q.filter = "name" /\ r.name = q.name)

\* One round of the scan.
SelectScan(t) ==
  /\ pc[t] = "select"
  /\ req[t].filter # "id"
  /\ seen[t] < Len(records)
  /\ out' = [out EXCEPT ![t] =
       IF Included(req[t], records[seen[t] + 1])
       THEN Append(@, RowJson(records[seen[t] + 1], req[t].projection))
       ELSE @]
  /\ seen' = [seen EXCEPT ![t] = @ + 1]
  /\ UNCHANGED <<disk, status, cursor, memory, lock, pc, req, row, reply, history>>

SelectEnd(t) ==
  /\ pc[t] = "select"
  /\ req[t].filter # "id"
  /\ seen[t] = Len(records)
  /\ pc' = [pc EXCEPT ![t] = "sreply"]
  /\ UNCHANGED <<disk, status, cursor, memory, lock, locals, reply, history>>

SelectReply(t) ==
  /\ pc[t] = "sreply"
  /\ Return(t, [ok |-> TRUE, rows |-> out[t]])
  /\ UNCHANGED <<disk, status, cursor, memory, locals, history>>

\* The JSON text of an answer cannot be built; an insert stays applied.
SerializeFail(t) ==
  /\ "json" \in Faults
  /\ pc[t] \in {"ireply", "select", "sreply"}
  /\ Fail(t)
  /\ UNCHANGED <<disk, memory>>

-----------------------------------------------------------------------------
InsertStep(t) ==
  \/ WriteLock(t) \/ InsertReject(t) \/ InsertNoMemory(t) \/ InsertPrepare(t)
  \/ InsertOpenFail(t) \/ InsertAppend(t) \/ InsertAppendFail(t)
  \/ InsertTear(t) \/ InsertStore(t) \/ InsertIndex(t) \/ InsertIndexFail(t)
  \/ InsertReply(t)

SelectStep(t) ==
  \/ ReadLock(t) \/ SelectById(t) \/ SelectScan(t) \/ SelectEnd(t)
  \/ SelectReply(t)

Step(t) == InsertStep(t) \/ SelectStep(t) \/ LockFail(t) \/ SerializeFail(t)

LoadStep == LoadBlank \/ LoadRecord \/ LoadFail \/ LoadDone

Next ==
  \/ DbInit
  \/ LoadStep
  \/ DbDestroy
  \/ Crash
  \/ \E t \in Threads : InsertCall(t) \/ SelectCall(t) \/ Step(t)

Spec == Init /\ [][Next]_vars

\* A thread that can run is eventually scheduled.  A lock that fails is no
\* substitute for one that is granted, no client has to send a request, and
\* nobody has to start or stop the server.
Fairness == \A t \in Threads : WF_vars(InsertStep(t) \/ SelectStep(t))

FairSpec == Spec /\ Fairness

-----------------------------------------------------------------------------
(* Safety.                                                                 *)

Row == [id : CInt, name : Seq(Tokens), age : CInt]

Pcs ==
  {"idle", "wlock", "check", "append", "store", "index", "ireply", "rlock",
   "select", "sreply"}

\* Types of the engine's fields and of the threads' locals.
TypeOK ==
  /\ file \in Seq(Text) /\ tail \in Text
  /\ status \in {"down", "loading", "up"}
  /\ cursor \in 0..Len(Lines)
  /\ records \in Seq(Row)
  /\ capacity \in Nat
  /\ DOMAIN index \subseteq CInt /\ \A k \in DOMAIN index : index[k] \in Nat
  /\ nextId \in CInt
  /\ writer \in Threads \cup {Nobody} /\ readers \subseteq Threads
  /\ pc \in [Threads -> Pcs]
  /\ req \in [Threads -> Inserts \cup Selects \cup {<<>>}]
  /\ row \in [Threads -> Row \cup {<<>>}]
  /\ seen \in [Threads -> Nat]
  /\ DOMAIN out = Threads /\ DOMAIN reply = Threads
  /\ acked \subseteq Row
  /\ tears \in 0..MaxTears /\ calls \in 0..MaxCalls /\ crashes \in 0..MaxCrashes

WriteSection == {"check", "append", "store", "index", "ireply"}
ReadSection == {"select", "sreply"}

\* While one thread is inside an insert no other thread is inside an insert or
\* a select, so the table, the index, the next id and the file always change
\* under exclusive access.
ReadersExcludeWriter ==
  \A t, u \in Threads :
    pc[t] \in WriteSection /\ pc[u] \in WriteSection \cup ReadSection => t = u

\* The lines that become rows.
Loadable(text) == text # EmptyText /\ ~Refused(text)

\* The rows that db_init would read from a file it does not refuse.
Table(lines) ==
  LET rows[n \in 0..Len(lines)] ==
        IF n = 0 THEN <<>>
        ELSE IF Loadable(lines[n]) THEN Append(rows[n - 1], ScannedRow(lines[n]))
        ELSE rows[n - 1]
  IN  rows[Len(lines)]

\* The row an insert has written to the file and not yet to memory.
InFlight ==
  LET T == {t \in Threads : pc[t] = "store"}
  IN  IF T = {} THEN <<>> ELSE <<row[CHOOSE t \in T : TRUE]>>

\* Memory and file never disagree in a way that a restart would reveal: what
\* the file holds is what memory holds, plus the one row being inserted.  An insert
\* that fails behind its append is applied in both.  This is so until an append
\* fails that has left its line, or a part of it, in the file.
MemoryMatchesFile ==
  status = "up" /\ tears = 0 => Table(Lines) = records \o InFlight

\* Every insert that was answered with success is in the file from then on,
\* whatever crashes, restarts and failed inserts of others come in between.
AckedDurable ==
  LET table == Table(Lines)
  IN  acked \subseteq {table[i] : i \in 1..Len(table)}

\* No two users ever have the same id, given automatically or explicitly,
\* before or after restarts.
UniqueIds ==
  \A i, j \in 1..Len(records) : records[i].id = records[j].id => i = j

\* The next automatic id lies above every id in the table, so that it cannot
\* collide with a row inserted with an explicit id or loaded from the file.
NextIdIsFresh ==
  status # "down" => \A i \in 1..Len(records) : records[i].id < nextId

\* The row that an insert has stored and not yet entered into the index.
BeingIndexed(i) == i = Len(records) /\ \E t \in Threads : pc[t] = "index"

\* An index entry always leads to the newest row with that id.  After failed
\* allocations inside the index a lookup may miss but never return another user;
\* and if an id is there twice, because an INSERT that was answered with an error
\* had reached the file or the array, the earlier row does not hide the later one,
\* neither at once nor after a restart.
IndexSound ==
  \A k \in DOMAIN index :
    /\ index[k] < Len(records) /\ records[index[k] + 1].id = k
    /\ \A i \in index[k] + 2..Len(records) : records[i].id = k => BeingIndexed(i)

\* Whatever lines failed appends have left behind, the rows in memory are ones
\* an INSERT could have made: db_init lets no damaged record through as such.
RecordsValid ==
  \A i \in 1..Len(records) :
    /\ records[i].id > 0
    /\ records[i].age >= 0
    /\ NameIsValid(records[i].name)

\* The next start will not refuse the file: every line that the engine serves from
\* or has appended is one that db_init admits.  A damaged file is refused as a
\* whole, and no insert makes a sound one unreadable.
FileStaysLoadable ==
  status = "up" => \A i \in 1..Len(Lines) : Lines[i] = EmptyText \/ ~Refused(Lines[i])

\* Outside the critical section of an insert the array index of every row can be
\* found through its id: no row is forgotten by the index.
IndexComplete ==
  \A i \in 1..Len(records) :
    records[i].id \in DOMAIN index \/ BeingIndexed(i)

\* Every write of records[count] stays inside the allocated array: the room that
\* was reserved is still there when the row is stored.
RoomReserved ==
  /\ Len(records) <= capacity
  /\ \A t \in Threads : pc[t] \in {"append", "store"} => Len(records) < capacity

\* The rows that a select asks for.
Matches(q, r) == IF q.filter = "id" THEN r.id = q.id ELSE Included(q, r)

\* The rows that a select should return, by its definition over the whole table.
Answer(q, table) ==
  LET rows[n \in 0..Len(table)] ==
        IF n = 0 THEN <<>>
        ELSE IF Matches(q, table[n])
        THEN Append(rows[n - 1], RowJson(table[n], q.projection))
        ELSE rows[n - 1]
  IN  rows[Len(table)]

\* A select, which reads row by row, returns what the table holds at one moment,
\* and the lookup through the index returns what a full scan would.
AnswerIsSnapshot ==
  \A t \in Threads : pc[t] = "sreply" => out[t] = Answer(req[t], records)

-----------------------------------------------------------------------------
(* The table of users this engine implements.                              *)

Inserted(r) == <<RowJson(r, All)>>

RequestPhase ==
  [t \in Threads |->
     CASE pc[t] = "idle" -> "idle"
       [] pc[t] \in {"store", "index", "ireply"} -> "applied"
       [] pc[t] = "sreply" -> "answered"
       [] OTHER -> "called"]

Effect ==
  [t \in Threads |->
     CASE pc[t] \in {"store", "index", "ireply"} -> row[t]
       [] pc[t] = "sreply" -> out[t]
       [] OTHER -> <<>>]

Users == INSTANCE UsersTable WITH
  table <- Table(Lines), phase <- RequestPhase, request <- req,
  effect <- Effect, result <- reply,
  InitialTables <- {Table(f) : f \in InitialFiles}

\* Every request takes effect at one instant, successful inserts exactly once,
\* and the table survives crashes.
ImplementsUsersTable == Users!TableSpec

-----------------------------------------------------------------------------
(* Liveness, under FairSpec.                                               *)

\* Every request is answered (or dies with the process): none of the paths out of
\* an insert or a select keeps the lock, and a thread that waits for it gets it
\* once no more requests arrive.  (An endless stream of readers may starve a writer.)
EveryRequestAnswered == \A t \in Threads : pc[t] # "idle" ~> pc[t] = "idle"
=============================================================================
