# TLA+ specification of the WEEK8 mini DBMS API server

The program is a small SQL server over HTTP: one `users` table kept in memory,
indexed by a B+ tree, persisted in an append-only CSV file, and served by a
pool of worker threads. This directory holds a TLA+ model of it, the TLC
configurations that check the model on small instances, and TLAPS proofs about the
thread pool, the storage engine, the B+ tree, the server, the HTTP exchange and the
text of replies for every instance.
Source paths are relative to the repository.

## 1. The system

| Component | State | Operations | Interaction |
|---|---|---|---|
| Thread pool (`src/thread_pool.c`) | ring of descriptors (`fds`, `head`, `tail`, `count`), `stopping`, mutex, two condition variables, threads | init, worker loop, submit, shutdown | `server_run` submits what `accept` returns; workers call `handle_client` |
| Storage engine (`src/db.c`) | `records`, `count`, `capacity`, `index`, `next_id`, rwlock, data file | init (load), insert, insert with id, select, destroy | called by every worker; calls the B+ tree and the JSON builder |
| B+ tree (`src/bptree.c`) | `root`, `size` | insert, search, destroy | private to the engine, under its lock |
| Server (`src/server.c`) | `g_should_stop`, listening socket | signals, accept loop, routing of a request, reply | composes all the others |
| HTTP (`src/http.c`) | a growing request buffer per connection | read a request, write a response | called by `handle_client` |
| SQL parser (`src/sql.c`) | a cursor in the statement | parse INSERT and SELECT | called by `handle_query` |
| JSON builder (`src/util.c`) | a growing text buffer | append, format, escape, take | used by the engine and the server |
| Command line (`src/main.c`) | none | parses the arguments | calls `server_run` |

What is hard in this program, and the properties that say it is right:

- **Threads on a ring.** Workers and the submitter sleep and wake on two
  condition variables; a lost wake-up, a wrong wrap, an early exit or an early
  free shows only under a particular schedule. Correct means: every accepted
  descriptor has exactly one owner until it is closed (`OneOwner`), the ring
  keeps its shape (`RingShape`), no wake-up is lost (`WorkConserved`,
  `SubmitterNotForgotten`, `EveryClientServed`), shutdown drains, joins and only
  then frees (`ShutdownDrains`, `NoUseAfterFree`, `ShutdownEnds`).
- **Four pieces of state per insert.** File, array, next id and index change one
  after the other; the process can die, or one of them can fail, between any two.
  Correct means: file and memory agree (`MemoryMatchesFile`), what was answered
  with success stays (`AckedDurable`), ids are unique (`UniqueIds`,
  `NextIdIsFresh`), the index leads to the newest row with the id (`IndexSound`,
  `IndexComplete`), answers are snapshots (`AnswerIsSnapshot`), no error path keeps
  the lock (`EveryRequestAnswered`), and the next start can read the file
  (`FileStaysLoadable`).
- **Splits of the tree**, which begin at 32 rows and reach inner nodes beyond 500,
  and failing allocations in the middle of a split. Correct means: the tree is a
  map (`SearchMatchesMap`), ordered and balanced, and loses no more than one
  node's keys when memory runs out (`InsertWithinOutcomes`).
- **Connections, workers and a signal.** A client may leave or fall silent at any
  point, a reply may be lost after its INSERT was committed, and the signal to
  stop reaches any thread at any moment. Correct means: what a reply says is what
  happened (`RepliesTellTheTruth`), an acknowledged row is seen by every later
  SELECT (`SelectSeesAcknowledged`), a silent client holds up its own worker only
  (`OthersAreServed`), and the server stops in an order in which every accepted
  client is answered and nobody uses a destroyed engine (`StopIsObeyed`,
  `AcceptedAreAnswered`, `EngineOutlivesWorkers`).
- **Bytes in pieces.** `recv` and `send` deliver and take any number of bytes.
  Correct means: the handler gets the request that was sent
  (`ReadsWhatWasSent`), the client what the header announces
  (`ResponseIsExact`), and no buffer is overrun (`NothingOverflows`, a part of
  `ReadsWhatWasSent`).
- **Text in several forms.** A query passes through trimming or unescaping, a
  parser that goes back on itself and a translation for the engine. Correct
  means: the engine is asked for what the text says (`QueryMeansWhatItSays`), and
  stored text survives the JSON of a reply (`ReplyTextSurvives`).
- **Numbers at their limit**: ids at `INT_MAX`, a full ring, the last reserved
  array slot (`RoomReserved`), a buffer that doubles up to the address range
  (`WritesFit`, `LoopsEnd`).

The complete list of hazards, each at its line, is in `PROJECT.json`.

## 2. Modules

| Module | Content |
|---|---|
| `ThreadPool` | the pool: creation with its failures, worker loop, submit, shutdown |
| `FdQueue` | abstract: a bounded FIFO queue that serves each descriptor once |
| `ThreadPoolProofs` | types, mutual exclusion, ring shape, no lost wake-up, no use after free; exactly one owner per descriptor, graceful shutdown, the pool implements `FdQueue` |
| `DataFile` | what a line of the data file is, what a short write leaves, what `sscanf` reads |
| `IndexOps` | the index as a map, and the possible outcomes of one `bptree_insert` |
| `DbEngine` | the engine: load, insert, select, destroy, crash, and every failure path |
| `UsersTable` | abstract: a durable table on which each request takes effect at one instant |
| `DbEngineProofs` | what holds of the engine under all faults: lock, array, index, validity of rows; without torn lines: types, memory and file, durability, next id; unique ids, answers as snapshots, the engine implements `UsersTable` |
| `FilterProofs` | induction over numbers; loops that copy some elements of a sequence |
| `BPlusTree` | the tree: insert with splits and failing allocations, search, destroy |
| `BPlusTreeLemmas` | the inductive invariant of the tree, and lemmas about nodes, key ranges and trees |
| `BPlusTreeProofs` | exact searches, order, balance and the outcomes of insertions |
| `Server` | start-up, accept loop, signals, one request per connection, orderly end; composes `FdQueue` and `UsersTable` |
| `ServerProofs` | truthful replies, visibility of acknowledged rows, orderly end |
| `CText` | C strings and the library functions used on them |
| `HttpRequest` | `http_read_request`: reading under any fragmentation and the size limits |
| `JsonBuilder` | the growing buffer of `src/util.c`, by lengths |
| `HttpResponse` | `http_send_json_with_thread`: sending with short writes |
| `HttpExchange` | one connection: composes `HttpRequest`, `JsonBuilder`, `HttpResponse` |
| `HttpExchangeProofs` | requests are read as sent, no overrun of their buffers or the reply's, exact responses |
| `QueryText` | the SQL in a plain or a JSON body, and `json_escape_dup` |
| `SqlParser` | `sql_parse` |
| `Query` | from a body to the engine's request: composes `QueryText` and `SqlParser`; the grammar they are held against |
| `QueryProofs` | queries mean what they say, escaped text is read back as it was |
| `MCThreadPool`, `MCDbEngine`, `MCBPlusTree`, `MCServer`, `MCHttpExchange`, `MCQuery` | instances for TLC |

The parts meet through abstractions that other modules justify. `Server` is built on
the queue and the table that `ThreadPool` and `DbEngine` implement (runs `pool`
and `db_safety`, theorems `PoolImplementsQueue` and `EngineImplementsUsersTable`);
it takes whether a request is readable, and which statement it
is, from what the client sent, which is what `HttpExchange` and `Query` show.
`DbEngine` uses `IndexOps` in place of the tree; the run `btree` and the theorem
`InsertionsHaveOutcomes` show that the tree of `BPlusTree` has no other outcomes
(`InsertWithinOutcomes`). Operators
introduced by "Faulty variant" are plausible mistakes in the definition that
follows them; nothing uses them, they show for each property that such a mistake
violates it (`PROJECT.json`, `mutants`).

### ThreadPool

`fds`, `head`, `tail`, `count`, `stopping` are the fields of `ThreadPool`;
`mutex` is the thread that holds the mutex. `pc` places each thread between two
steps of its code, and `cfd` is its local descriptor. Each piece of code
between two lock operations is divided into the steps that touch shared state,
so exclusion comes from the mutex and not from the grain of the actions.

| Actions | Code |
|---|---|
| `InitFail`, `CreateWorker`, `CreateFail` | `thread_pool_init` with its error paths |
| `WorkerLock/Relock/Wait/Exit/Take/Advance/Signal`, `HandlerReturn` | `worker_loop` |
| `SubmitCall/Lock/Relock/Wait/Store/Count/Unlock` | `thread_pool_submit` and the accept loop around it |
| `ShutdownCall/Lock/Stop/Broadcast/Free` | `thread_pool_shutdown` |
| `SpuriousWake` | `pthread_cond_wait` returning without a signal |

`open` is the set of descriptors that were accepted and not closed. The
kernel reuses a descriptor once it is closed, so a finite set of them allows any
number of clients. The refusal in `SubmitStore` (a stopping pool) exists in the
code and cannot happen while the only submitter is also the thread that shuts
down; the model keeps the branch and does not reach it.

### DbEngine

`file` holds the complete lines and `tail` the text behind the last newline.
`status` and `cursor` follow `db_init`; `records`, `capacity`, `index`, `nextId`,
`writer`/`readers` are the engine; `pc`, `req`, `row`, `out`, `seen` are what each
worker has on its stack.

| Actions | Code |
|---|---|
| `DbInit`, `LoadBlank`, `LoadRecord`, `LoadFail`, `LoadDone` | `db_init`, `load_record` |
| `WriteLock`, `InsertReject`, `InsertNoMemory`, `InsertPrepare`, `InsertOpenFail`, `InsertAppend`, `InsertAppendFail`, `InsertTear`, `InsertStore`, `InsertIndex`, `InsertIndexFail`, `InsertReply` | `db_insert_internal` from top to bottom |
| `ReadLock`, `SelectById`, `SelectScan`, `SelectEnd`, `SelectReply` | `db_select_projected` |
| `LockFail`, `SerializeFail` | the error returns both functions share |
| `DbDestroy`, `Crash` | `db_destroy` after the join, and the death of the process |

A crash is the death of the process: memory is lost, every write that returned
stays. The constant `Faults` says which faults a run admits. `Wrap` is the
two's complement wrap of `id + 1` in `load_record`, which has no guard.

The text of a line is a sequence of fields, each a sequence of tokens (numbers
or names). This is enough to say what a partial line and the row glued to it
read back as: `1,kim,` followed by `2,lee,30` is a line that `sscanf` accepts as
user 1, kim, age 2.

### BPlusTree

`heap` holds the nodes in the order of their allocation, a pointer is an index of it and
0 is `NULL`; a node that was lost stays in `heap`, as it does in memory. The recursion of
`node_insert` is a descent that leaves its activations in `frames`, each with its
`child_idx`, and a way back on which `result` is the `InsertResult` being returned. The
activation that a step on the way back belongs to is the last of `frames`.

| Actions | Code |
|---|---|
| `InsertCall`, `MakeRoot`, `MakeRootFail` | `bptree_insert` up to `node_insert` |
| `Descend` | `node_insert` up to its recursive call |
| `Replace`, `AddToLeaf`, `SplitLeaf`, `SplitLeafFail` | `leaf_insert` |
| `AddToInner`, `SplitInner`, `SplitInnerFail` | `node_insert` after the child has split |
| `Finish`, `GrowRoot`, `GrowRootFail` | `bptree_insert` after `node_insert` |
| `SearchCall`, `SearchDescend`, `SearchEnd` | `bptree_search` |
| `Destroy` | `bptree_destroy` |

Three variables are history, which no guard but the bound on failures reads: `map` is
what the leaves of the tree should hold, `span` gives each node of the tree its range of
keys and its height, and `fails` counts failed allocations. `span` makes it possible to
speak of a tree without recursion over its nodes; a step that loses nodes
(`LoseRight`) takes their range out of both, and `SearchMatchesMap` and `Ordered`
compare the result with what the nodes really hold.

### Server

`main`, `hand`, `stop`, `db` are the main thread's place in `server_run`, its
`client_fd`, `g_should_stop` and `context.db`; `at`, `conn`, `answer` are each
worker's place in `handle_client`, its connection and its reply; `queue` and
`table` with their companions are the variables of `FdQueue` and `UsersTable`,
whose actions are conjuncts of the actions here. A reply is "ok" (200), "failed"
(500) or "refused" (400, 404, 405). An INSERT's row bears the name of its
connection, so `RowsOf(c)` tells what a connection did to the table.

| Actions | Code |
|---|---|
| `OpenDb`, `StartPool`, `Listen` | `server_run` up to the loop; each failure releases the parts before it |
| `TestStop`, `Accept`, `AcceptError`, `Submit` | the accept loop |
| `CloseListener`, `StopPool`, `JoinWorkers`, `DestroyDb` | the end of `server_run` |
| `Signal` | `handle_signal` on any thread; only a main thread blocked in `accept` is interrupted, if it is the one |
| `Take`, `Exit` | `worker_loop`, as the abstract queue allows |
| `Read`, `TakeEffect`, `Executed`, `Reply`, `CloseFd` | `handle_client`, `handle_query`, `execute_statement`, the replies |
| `Connect`, `SendRequest`, `Leave` | clients |

### HttpExchange

A request is a sequence of bytes, cut by `recv` wherever the model likes. `used`
and `need` are the variables of `http_read_request`. Each message comes with what it
`means`. The MC module builds the bytes from the meaning; that this agrees with
what the head says when it is there as a whole, `MessagesAreWellFormed`, is an
assumption of the MC module, which TLC evaluates. The buffer's text in
`JsonBuilder` is its length; `place` tells where in `util.c` the caller is, and all
sums are taken modulo `SizeMax + 1`. In `HttpResponse` a byte is named by the piece
it belongs to and its place, so that a repetition or a gap shows in `stream`.

### Query

A text is a sequence of characters in which a keyword is one character, in any
case; it still joins with letters and digits next to it into a longer word. The
parser's functions keep their names and take the place they start at. The
client's `Write`, `Replace` and `Erase` vary a query, `Post` sends it in each
encoding, and `HandleQuery` yields the request that `DbEngine` takes, or
`Refused`. What a text means is defined without the parser: it is cut into the
longest lexemes, and means the request of which it is the sentence
(`SentenceOfInsert`, `SentenceOfSelect`). That the set of meanings is a singleton
also shows that the language is unambiguous. One text is left out, and only where
it is posted as it is: an object that `extract_json_sql` finds a query in
(`TakenForJson`). Such a body is the JSON of another text.

## 3. Runs

| Run | Instance | Shows |
|---|---|---|
| `pool` | 3 workers, ring of 2, 4 descriptors, 1 spurious wake-up | seven invariants of the pool; it implements `FdQueue`; every client is served, every shutdown ends |
| `db_safety` | 2 threads, 4 requests, 1 crash, locks, allocations, opens and appends that fail cleanly, sound and damaged files | nine invariants of the engine; it implements `UsersTable` |
| `db_faults` | 2 threads, 3 requests, 1 crash, every kind of failure: also partial lines and failing allocations in the index; damaged files | a lookup leads to the newest row with the id; no invalid record is admitted; until an append is torn, file and memory agree, and a row whose insert fails in the index is in the file and in memory alike; every request is answered, so no path out keeps the lock |
| `db_torn` | an append that fails half way | finding 1: `AckedDurable` fails |
| `db_intmax` | explicit ids at the top of the range | finding 2: `UniqueIds` fails |
| `db_overflow` | a row with the id `INT_MAX` and restarts | finding 5: `FileStaysLoadable` fails |
| `btree` | six keys in any order, nodes of 2 keys, two failing allocations | map, order, balance and size; outcomes as in `IndexOps` |
| `btree_return` | four keys, nodes of 2 | finding 3: `bptree_insert` returns 1 for a key it did not insert |
| `server` | 2 workers, queue of 1, 3 connections, one that may leave, one that may be silent | replies, reads of acknowledged rows, orderly end, service beside a silent client |
| `server_stop` | 2 workers, 1 connection | finding 4: a signal does not end the server |
| `http` | about eight hundred requests, whole or cut short anywhere, each in every fragmentation | request read as sent, no buffer overrun, response exact |
| `query` | every text one change away from fourteen queries, in three encodings | requests mean what the text says; text survives a reply |

**Bounds.** A ring of 2 slots with more descriptors than slots is full, empty
and wrapped in every alignment; three workers are enough for one to be woken,
one to overtake it and one to stay asleep. In the engine, two threads make every
pair of operations overlap; `MaxCalls` 4 gives two rows, a request that fails and
a reader; `FirstCapacity` 1 (64 in the code) makes the array grow at the second
and the third row; there is one crash, and the orderly restarts before and after
it are not bounded. `MaxInt` is 9 where the limit itself is the subject and out of reach
elsewhere. `MaxKeys` is 2 (31 in the code), for which six keys reach a split of an
inner root and leave room for a third level; the proofs are about every `MaxKeys`
from 2 on, and every range of `int`. In `server` the queue of one slot
is full while both workers are busy, so the signal also finds the main thread
waiting in `thread_pool_submit`; three connections suffice for an INSERT, a
reader and one in the way. The requests of `http` are up to 30 bytes long
against a buffer of 28 and a body of 10, so that every limit is met exactly, missed
by one and exceeded; `SizeMax` 63 and `ObjectMax` 31 put the largest texts within
a few doublings of the limits. In `query`, names are up to 3 characters, numbers up
to 20, texts up to 23; one change reaches every missing, doubled, wrong or misplaced
character.

**Fairness.** `ThreadPool!FairSpec` and `DbEngine!FairSpec` have weak fairness of
each thread's own steps: a runnable thread is eventually scheduled. It is weak
fairness, so nothing is promised to a thread whose lock is taken again and again
by others; the properties hold because such contention ends. In the engine the
failure of a lock is outside the fair steps: a request that waits for ever is not
excused because the lock function might have failed. The number of requests in
`db_faults` is finite because the default rwlock prefers readers, and an endless
stream of them may starve a writer: `EveryRequestAnswered` says nothing of that. The pool assumes that handlers return.
`Server!FairSpec` drops that assumption: a client in `Silent` need not send
anything, and need not read either, so the worker that replies to it may stay in
`send`. The main thread and the workers are fair otherwise, and the other clients
send what they came for. Connecting, leaving, failing calls of `accept` and signals
are never assumed. `Server` may come to rest without connections or behind silent
clients, and ends after the stop, so its two runs do not ask for the absence of
deadlock; the others do.

## 4. Proofs

TLAPS proves the following for every value of the constants that the named
assumptions of the modules admit: any sets of workers, threads, connections and
descriptors, any capacities, limits and widths, any requests and files.

| Module | Theorem | Statement |
|---|---|---|
| `ThreadPoolProofs` | `TypeCorrect` | `Spec => []TypeOK` |
| | `Exclusion` | `Spec => []MutualExclusion` |
| | `RingKeepsShape` | `Spec => []RingShape` |
| | `SubmitterIsWoken` | `Spec => []SubmitterNotForgotten` |
| | `NoWakeUpIsLost` | `Spec => []WorkConserved` |
| | `FreedPoolIsQuiet` | `Spec => []NoUseAfterFree` |
| | `ExactlyOneOwner` | `Spec => []OneOwner` |
| | `ShutdownIsGraceful` | `Spec => []ShutdownDrains` |
| | `PoolImplementsQueue` | `Spec => ImplementsFdQueue` |
| `DbEngineProofs` | `EngineExclusion` | `Spec => []ReadersExcludeWriter` |
| | `RoomIsReserved` | `Spec => []RoomReserved` |
| | `IndexIsSound` | `Spec => []IndexSound` |
| | `IndexIsComplete` (I) | `Spec => []IndexComplete` |
| | `DamageStaysOut` | `Spec /\ []NumbersInRange => []RecordsValid` |
| | `NextIdClearsDamage` | `Spec /\ []NumbersInRange => []NextIdIsFresh` |
| | `EngineTypeCorrect` (T, N) | `Spec => []TypeOK` |
| | `RecordsAreValid` (T, N) | `Spec => []RecordsValid` |
| | `NextIdStaysFresh` (T, N) | `Spec => []NextIdIsFresh` |
| | `MemoryAgreesWithFile` (T, N) | `Spec => []MemoryMatchesFile` |
| | `FileIsLoadable` (T, N) | `Spec => []FileStaysLoadable` |
| | `AcknowledgedIsDurable` (T, N) | `Spec => []AckedDurable` |
| | `IdsStayUnique` (T, N, I, F) | `Spec => []UniqueIds` |
| | `AnswersAreSnapshots` (T, N, I, F) | `Spec => []AnswerIsSnapshot` |
| | `EngineImplementsUsersTable` (T, N, I, F) | `Spec => ImplementsUsersTable` |
| `BPlusTreeProofs` | `SearchIsExact` | `Spec => []SearchMatchesMap` |
| | `TreeIsBalanced` | `Spec => []Balanced` |
| | `TreeIsOrdered` | `Spec => []Ordered` |
| | `InsertionsHaveOutcomes` | `Spec => InsertWithinOutcomes` |
| `ServerProofs` | `EngineIsThere` | `Spec => []EngineOutlivesWorkers` |
| | `RepliesCanBeTrusted` | `Spec => []RepliesTellTheTruth` |
| | `AcknowledgedIsSeen` | `Spec => []SelectSeesAcknowledged` |
| | `EndIsOrderly` | `Spec => []AcceptedAreAnswered` |
| `HttpExchangeProofs` | `BuilderWritesFit` | `Spec => []WritesFit` |
| | `BuilderLoopsEnd` | `Spec => []LoopsEnd` |
| | `BuilderTypes` | `Spec => []BuilderTypeOK` |
| | `ResponseArrivesExactly` | `Spec => []ResponseIsExact` |
| | `ReaderStaysInside` | `Spec => []NothingOverflows` |
| | `RequestIsReadAsSent` (W) | `Spec => []ReadsWhatWasSent` |
| `QueryProofs` | `ReplyTextIsSafe` | `Spec => []ReplyTextSurvives` |
| | `ParserIsRight` | for each text `s`: `Denoted(s)` is empty if `SqlParse(s)` is `Refused`, and otherwise `{ExecuteStatement(SqlParse(s))}` |
| | `QueriesMeanWhatTheySay` | `Spec => []QueryMeansWhatItSays` |

**Hypotheses.** The letters mark theorems that are not true of every environment. Where a
damaged file does no harm, the stronger statement is proved without T and N.

- T, `NoTears`: an append that fails leaves nothing behind. Finding 1 is what happens
  otherwise; section 5 also describes the case that the whole line was written.
- N, `IdsUpTo(top)`: the ids in requests and in the first file are at most `top`,
  and `top + MaxCalls < MaxInt`. Findings 2 and 5 are what happens at
  `INT_MAX`.
- I, `NoIndexFaults`: the allocations of the index succeed. The index decides what a
  duplicate is and answers a lookup by id, and a failed split loses keys
  (`FailedInsertOutcomes`). Section 5 describes what happens otherwise.
- F, `FilesDiffer`: the file of the first start does not repeat an id, which
  `db_init` does not check.
- W, `MessagesAreWellFormed`: a message with an empty line has two words in front of
  it and a value behind each `Content-Length`, and means what its head and the
  bytes behind it convey (`Conveyed`). Without the two words or the value,
  `http_read_request` goes on reading behind the empty line, and what it finds there
  does depend on how the bytes arrived. Nothing else is assumed: zero bytes,
  repeated or oversized lengths, empty lines in the body and bytes behind the body are
  all admitted.

Crashes, failing locks, allocations outside the index, opens, clean failures of
appends and failures of serialization are admitted throughout. The constants of
`db_safety` satisfy all four hypotheses. `NumbersInRange`, under
which the two theorems on damaged files are stated, says of each state that the
numbers in the table are ints below `INT_MAX`; it holds in every state of `db_faults`.
Every inductive invariant below was first checked by TLC on the instance of a run.

**Pool.** `PoolInv` adds to the types that a thread in a
critical section holds the mutex (`HolderIsInside`), that a worker about to
advance finds `count > 0` and a submitter that stored has room to count
(`TakerHasWork`, `StorerHasRoom`: without them `count` could leave its range),
that a freed pool is over, and `RingLinear`, the ring's shape without the modulo:
tail is head plus the stored descriptors, or that minus the capacity. The
solver handles the two cases as linear arithmetic; `RingKeepsShape` then derives
the formula with `%`. `WorkConserved` compares a number of threads with `count`, so
its proof follows the cardinality of the set of attentive workers: a step adds or
removes one thread (`AttentiveCount`), and a signal is sent whenever `count` grows.

`OwnInv` describes the ring by the set `Occupied` of slots in use. Taking the
head removes one element and counting a stored descriptor adds one (`TakeHead`,
`CountLast`); that what is queued or in a thread's hand is exactly what is open
(`OpenIsOwned`), in one place each (`PlacesDiffer`), is preserved by each step.
`LeaversLeaveNothing` carries the argument for shutdown: a worker exits only
after `stopping`, when nothing is queued, and nothing can be queued any more.
`SlotsAreOccupied` and `OwnersAgree` translate back to positions and to the
cardinality that `OneOwner` is stated with. For the refinement, `Waiting` reads the
ring from its head: `SubmitCount` appends to it (`CountAppends`), `WorkerAdvance`
takes its oldest (`AdvanceTakesOldest`), and each other step is a stutter, a
`Finish`, a `Close` or the `Retire` (`PoolStepIsQueueStep`).

**Engine.** `EngineInv` says who holds the lock at which place of the code
(`LockInv`), that the array has room once an insert has reserved it (`RoomInv`), and
that index entries lead to the newest row with their id, and that the row to be indexed
is the last (`IndexInv`). It needs no hypothesis: `OutcomeAddsOne` shows that no outcome
of an insertion into the tree adds an entry beyond its own, or keeps an older entry
under the id that it inserts. `ValidInv` follows the
values of a row from the request or the scanned line to the array.

`TableInv` relates the three copies of the table. `MemoryInv` is the heart: while
loading, memory is the table of the lines read so far; later the table of the file
is memory followed by the row in flight. `IdInv` bounds the ids by `top` and the
number of calls that are no longer pending, so the proof counts the pending inserts.
`AckInv` says that an acknowledged row, and one that will be, is in the file.
`LinesInv` adds that the lines read so far, and all of them once the engine is up, are
ones that `db_init` admits, which `FileIsLoadable` needs.
`Table` and `Answer` are loops, written as recursive functions: `FilterProofs` proves by
induction that such a loop has a result, that it is unique, and what a further element adds.
`RowRead` shows that what `fprintf` writes is what `sscanf` reads.
`FreshInv` (ids differ in the file, and the row about to be appended has a new one) and
`AnswerInv` (what a select has written so far is the answer from the part it has seen)
are the step to `UniqueIds`, `AnswerIsSnapshot` and the refinement. An insert takes
effect when its line is complete, a select when it has its answer under the lock.

**Tree.** `IndexInv` is about a tree of any height, and it avoids recursion: the range
that `span` gives a node is compared with its keys and with the ranges of its children
only (`Fits`). That any two ranges lie beside or inside each other, a lower node inside a
higher one (`Nested`), then gives what a recursive definition would: two nodes of one
height never share a key, so the leaf that a search arrives at is the only one that could
hold its key (`LeafHasKey`), and a node has one place (`OnePlace`). Its parts:

- `TreeInv`: between insertions the tree is `Sound`. While the right half of a divided
  node has no parent, everything is as if the node still had its old range
  (`Parted`, `JointOf`); linking the right half (`AdoptRight`, `NewRoot`) or dividing
  the parent in turn makes the ranges true again.
- `CallInv`: a call stands on the path from the root to the leaf of its key. That the
  path survives a split below it is why `child_idx` is still right on the way back.
- `ContentInv`: the leaves hold `map`, and each node's range has a key in it. So
  what a failed split loses is a range of keys that is not empty, which is what
  `FailedInsertOutcomes` says (`LossOutcome`). That nothing else is lost needs
  that every node in that range, at any depth, goes with the right half (`Gone`,
  `Detached`), and that the neighbours take over the range (`NestedClosed`, `FitsClosed`).
- `OutcomeInv` says what the call under way has done, `FillInv` how full nodes are.

Every action has a lemma that it keeps `IndexInv` (`...Keeps`); the lemmas about nodes,
ranges and trees that they use are in `BPlusTreeLemmas` and do not mention the state.

**Server.** `ServerInv` follows a connection. `PlaceInv`: it waits once in the backlog,
or is in the main thread's hand, in the queue or with one worker. So its statement is
executed once and its reply sent once (`ReplyInv`). `RowInv` says which rows a
connection has in the table and that every reply so far is truthful, `WorkerInv` the
same of the statement under way and of the answer not yet sent; rows are never
removed, so what was truthful stays so. `MainInv` ties the workers' life to the main
thread's place.

**Exchange.** The builder's properties need `BuilderInv`: that the allocation never
exceeds `ObjectMax` (`Allocation`), and that the room asked for is the text's, with one
more byte when `appendf` asks (`RoomAskedFor`). An object takes at most half of the
address range and a text is an object too, so every sum stays below `SizeMax` and
the modulo of `Size` changes nothing (`SumsExact`); the test in front of a doubling
keeps that exact as well (`HalfOfSize`). The room asked for after a first attempt
is more than the text needs, so the second attempt fits. `SenderInv` says where in the
response each piece begins and that the stream is that far into it, byte by byte.
`ReaderInv` says that what there is of a body and what is still to come fit together.
Its proof needs that the empty line lies inside what was received (`HeadersEndInside`)
and that a content length is a natural number (`NumberIsNatural`, an induction over the
digits); it holds for any bytes.

`RequestIsReadAsSent` compares two texts: the part that has arrived when the reader
finds the empty line, and the head of the whole message. `HeadersEndInPart`: the first
empty line of the part is that of the message. Each question the reader asks about its
text is where a run of blanks, digits or other characters ends (`SkipIs`); when the
run ends inside the head, both texts give the same answer (`SkipAgrees`,
`WordEndAgrees`), and W is what makes it end there. So request line and content length
agree (`RequestLineAgrees`, `ContentLengthAgrees`, together `PieceSaysSame`), and
`MeaningInv` says that the body so far is the message from the head up to `used`.

**Reply text.** `ReplyTextIsSafe` follows `json_escape_dup` and a reader of JSON over a
text of any length. Both are loops over places: `EscapingIs` gives the text after each
character, `EscapePlaces` where each escape stands in the end, and `JsonReadIs` that the
reader, whose function looks up to six places ahead, has a result (`LooksExist`). Then
`EscapesAreRead` goes from the closing quote back to the first character.

**Meaning of queries.** The parser walks through characters, the meaning is said in
lexemes. `Stands(s, F, p, n)` connects the two: from place `p` on, the text has the
lexemes from the `n`-th on. Every function of the parser, called where it stands in
front of lexeme `n`, either takes just that lexeme and stands in front of the next one,
or fails, and it fails exactly if the lexeme is of another kind or beyond a limit
(`SymbolRead`, `WordRead`, `KeywordRead`, `NumberRead`, `StringRead`, `EndRead`). This
needs that the longest lexeme at a place ends where the parser's run of characters ends
(`WordLexeme` to `OtherLexeme`). With these, each branch of the parser reads a
conjunction of `Is(L, n, x)`, "lexeme `n` is `x`" (`InsertRead`, `SelectRead`,
`SqlRead`). Going back in `ParseInsert` is harmless, as both attempts stand at the same
lexeme. On the other side a sentence is such a conjunction too (`SaysIs`, `InsertSays`,
`SelectSays`), and the values in it are among the lexemes' own (`DenotedIs`). Hence
`ParserIsRight`.

`QueriesMeanWhatTheySay` adds the way from the body to the text. `copy_raw_sql` cuts off
blanks, and no lexeme ends in a blank, so the lexemes stay the same (`BlanksAround`).
`extract_json_sql` finds its key, colon and quote where the client wrote them
(`ExtractIs`) and undoes the escapes from the closing quote backwards
(`EscapesAreString`), except for control characters written with a code, which it
refuses. The invariant `OutcomeInv` says that every outcome is that of the present text.

**Only model-checked.** Liveness (`EveryClientServed`, `ShutdownEnds`,
`EveryRequestAnswered`, `OthersAreServed`, `StopIsObeyed`): fairness is out of the
prover's reach. Every invariant and every other action or refinement property that a
passing run checks is proved. The library's induction theorems take an operator as a
parameter and cannot be used; the inductions above go through the least element of a
set of numbers (`SetInduction`) instead.

## 5. Findings

1. **Torn line** (`db_torn`, `src/db.c:282`). When an append fails after a part of
   the line was written, the next row is glued to it. That row was answered
   with success and is not there after a restart, although `lessons/README.md:266`
   demands that existing users survive a restart.
2. **`INT_MAX`** (`db_intmax`, `src/db.c:292`). The next id stays at `INT_MAX` and
   automatic ids are not checked: duplicates.
3. **Return value** (`btree_return`, `src/bptree.c:102` and `:193`). When a split
   cannot allocate, the insertion is dropped (or a node lost) and 1 is returned;
   `lessons/README.md:1508` says 0.
4. **Signal** (`server_stop`, `src/server.c:287`). A signal between the test of
   `g_should_stop` and `accept`, or one that a worker thread handles, leaves the
   main thread in `accept` until somebody connects; `lessons/README.md:207` says
   that the loop must be left on a termination signal.
5. **Overflow at the start** (`db_overflow`, `src/db.c:160`). With an id `INT_MAX` in
   the file, `load_record` computes a negative next id. The next automatic INSERT is
   answered with success and writes it, and the start after that refuses the file;
   `answers.md:196` says that a start keeps what was inserted. The wrap-around is
   what the build produces for this signed overflow.

Two further ways to give one id to two users follow from the model, and are why
`UniqueIds` is checked and proved without failures of the index and torn appends. When
`bptree_insert` fails, the row is stored and the INSERT answered with an error; only the
index is asked for duplicates (`src/db.c:260`), so a second try with the same id is
accepted. When `fclose` fails after the whole line was written (`src/db.c:283`, a case of
`InsertTear`), the next id is not advanced, the next INSERT takes the same id, and a
restart loads both rows. What still holds then is `IndexSound`: a lookup gives the later
of the two rows, also after the restart.

Observed while modelling, and not claimed otherwise by any document: as many
silent clients as workers stop the service and the shutdown (there is no timeout);
a body whose first `"sql"` is a value and not the key is refused
(`extract_json_sql` takes the first occurrence), and so are control characters
that JSON writes as `\u00xx`; `SELECT *FROM users`, `VALUES(1,...)`, `+1` and `-0`
are accepted.

## 6. Not modelled

- Messages, timings (`elapsed_us`), logging and the wording of JSON.
- A crash of the operating system: the code never calls `fsync`, and no property
  claims durability beyond the death of the process. `Server` has no crash of its
  own; `DbEngine` has it.
- Lines longer than the buffer of `db_init`, names that begin with a digit, and
  the overflow of `%d` on very long glued numbers.
- Requests whose reading depends on the fragmentation because they are malformed:
  a request line of one word and an empty value of `Content-Length` are completed
  by what happens to follow in the buffer. Signs in front of a content length.
- Zero bytes inside a query, and words longer than the parser's word buffers,
  which are no keywords.
- The form feed as a character of its own: `"vt"` stands for both, which the code
  treats alike. A keyword is one character of a text, so its letters are not varied
  one by one.
- The `next` links between leaves, which nothing reads.
- `main.c` (three optional arguments with defaults, no state), tests and scripts.

## 7. Plan

Every component that keeps state or carries logic is modelled, and every safety
property that a run checks is proved. What would come next is liveness for every
value of the constants, which needs a prover for fairness, and the malformed
requests of section 6.
