------------------------------- MODULE Server -------------------------------
(***************************************************************************)
(* The server of src/server.c, from its start to its orderly end: the main *)
(* thread accepts connections and hands them to the pool, workers read one *)
(* request per connection, route it, execute its statement, reply and      *)
(* close, and a signal asks the main thread to stop.                       *)
(*                                                                         *)
(* The pool and the storage engine are the abstract ones, FdQueue and      *)
(* UsersTable, which ThreadPool and DbEngine implement: their actions are  *)
(* conjuncts of the actions here.  A connection carries one request; a     *)
(* client that tries again is another connection.  The row that an INSERT  *)
(* adds bears the name of its connection, so that it can be told whose it  *)
(* is.                                                                     *)
(***************************************************************************)
EXTENDS Integers, Sequences, FiniteSets

CONSTANTS
  Workers,      \* the worker threads
  Main,         \* the main thread
  Connections,  \* the connections that clients may open
  Silent,       \* those whose client need not send, or read, anything
  Leaving,      \* those whose client may go away before it is served
  Says(_),      \* the requests that the client of a connection may send
  Capacity,     \* REQUEST_QUEUE_CAPACITY
  NoOne         \* no connection

ASSUME MainAssumption == Main \notin Workers
ASSUME ClientAssumption ==
  Silent \cup Leaving \subseteq Connections /\ NoOne \notin Connections
ASSUME SaysAssumption ==
  \A c \in Connections : Says(c) \subseteq {"insert", "select", "health", "refused"}
ASSUME CapacityAssumption == Capacity \in Nat \ {0}

VARIABLES
  main,      \* where the main thread is in server_run
  hand,      \* its local client_fd
  stop,      \* g_should_stop
  db,        \* context.db: "none", "up" or "freed"
  at, conn,  \* where each worker is in handle_client, and for which connection
  answer,    \* the reply it is going to send
  net,       \* each connection: "new", "backlog", "accepted", "closed", "reset"
  backlog,   \* completed connections that wait for accept
  sent,      \* what its client has sent, "" for nothing yet
  gone,      \* the connections whose client has left
  replies,   \* history: the replies that reached the client
  known,     \* history: the acknowledged INSERTs when it sent its SELECT
  queue, serving, qphase,                   \* the pool, as in FdQueue
  table, tphase, request, effect, result    \* the engine, as in UsersTable

mainVars == <<main, hand, db>>
workerVars == <<at, conn, answer>>
clientVars == <<sent, gone, known>>
queueVars == <<queue, serving, qphase>>
tableVars == <<table, tphase, request, effect, result>>
vars == <<mainVars, stop, workerVars, net, backlog, clientVars, replies,
          queueVars, tableVars>>

\* What execute_statement hands to the engine.
Insert(c) == [hasId |-> FALSE, id |-> 0, name |-> c, age |-> 0]
Inserts == {Insert(c) : c \in Connections}
Selects == {[filter |-> "all"]}
Query(c) == IF sent[c] = "insert" THEN Insert(c) ELSE [filter |-> "all"]

Answer(q, rows) == rows
Inserted(r) == <<r>>
NoReply == [ok |-> FALSE, rows |-> <<>>]

Pool == INSTANCE FdQueue WITH Fds <- Connections, phase <- qphase

Users == INSTANCE UsersTable WITH
  Threads <- Workers, phase <- tphase, InitialTables <- {<<>>}

Init ==
  /\ main = "dbinit" /\ hand = NoOne /\ db = "none"
  /\ stop = FALSE
  /\ at = [w \in Workers |-> "unborn"]
  /\ conn = [w \in Workers |-> NoOne]
  /\ answer = [w \in Workers |-> [status |-> "none", rows |-> <<>>]]
  /\ net = [c \in Connections |-> "new"]
  /\ backlog = <<>>
  /\ sent = [c \in Connections |-> ""]
  /\ gone = {}
  /\ replies = [c \in Connections |-> <<>>]
  /\ known = [c \in Connections |-> {}]
  /\ Pool!QueueInit
  /\ Users!TableInit

-----------------------------------------------------------------------------
(* server_run: start-up.  Each part that fails releases the ones before.   *)

OpenDb ==
  /\ main = "dbinit"
  /\ \/ main' = "poolinit" /\ db' = "up"
     \/ main' = "done" /\ UNCHANGED db
  /\ UNCHANGED <<hand, stop, workerVars, net, backlog, clientVars, replies,
                 queueVars, tableVars>>

StartPool ==
  /\ main = "poolinit"
  /\ \/ main' = "listen" /\ at' = [w \in Workers |-> "idle"]
     \/ main' = "destroy" /\ UNCHANGED at
  /\ UNCHANGED <<hand, db, stop, conn, answer, net, backlog, clientVars, replies,
                 queueVars, tableVars>>

\* create_listen_socket.
Listen ==
  /\ main = "listen"
  /\ main' \in {"test", "shutdown"}
  /\ UNCHANGED <<hand, db, stop, workerVars, net, backlog, clientVars, replies,
                 queueVars, tableVars>>

-----------------------------------------------------------------------------
(* server_run: the accept loop.                                            *)

\* Faulty variant: the loop never looks at the flag.
AfterTestIgnoringFlag == "accept"

AfterTest == IF stop THEN "close" ELSE "accept"

TestStop ==
  /\ main = "test"
  /\ main' = AfterTest
  /\ UNCHANGED <<hand, db, stop, workerVars, net, backlog, clientVars, replies,
                 queueVars, tableVars>>

Accept ==
  /\ main = "accept"
  /\ backlog # <<>>
  /\ hand' = Head(backlog)
  /\ backlog' = Tail(backlog)
  /\ net' = [net EXCEPT ![Head(backlog)] = "accepted"]
  /\ main' = "submit"
  /\ UNCHANGED <<db, stop, workerVars, clientVars, replies, queueVars, tableVars>>

\* accept fails for another reason than a signal.
AcceptError ==
  /\ main = "accept"
  /\ main' = IF stop THEN "close" ELSE "test"
  /\ UNCHANGED <<hand, db, stop, workerVars, net, backlog, clientVars, replies,
                 queueVars, tableVars>>

\* Faulty variant: a connection that arrives with the signal is dropped.
HandedOverUnlessStopped == IF stop THEN UNCHANGED queueVars ELSE Pool!Enqueue(hand)

HandedOver == Pool!Enqueue(hand)

\* thread_pool_submit waits for room.  It cannot refuse: only this thread ever
\* stops the pool.
Submit ==
  /\ main = "submit"
  /\ HandedOver
  /\ hand' = NoOne
  /\ main' = "test"
  /\ UNCHANGED <<db, stop, workerVars, net, backlog, clientVars, replies, tableVars>>

-----------------------------------------------------------------------------
(* server_run: the end.                                                    *)

\* close(listen_fd): the connections that were not accepted are reset.
CloseListener ==
  /\ main = "close"
  /\ net' = [c \in Connections |-> IF net[c] = "backlog" THEN "reset" ELSE net[c]]
  /\ backlog' = <<>>
  /\ main' = "shutdown"
  /\ UNCHANGED <<hand, db, stop, workerVars, clientVars, replies, queueVars, tableVars>>

\* thread_pool_shutdown, first the request and then the joins.
StopPool ==
  /\ main = "shutdown"
  /\ Pool!Close
  /\ main' = "join"
  /\ UNCHANGED <<hand, db, stop, workerVars, net, backlog, clientVars, replies, tableVars>>

JoinWorkers ==
  /\ main = "join"
  /\ \A w \in Workers : at[w] = "exited"
  /\ Pool!Retire
  /\ main' = "destroy"
  /\ UNCHANGED <<hand, db, stop, workerVars, net, backlog, clientVars, replies, tableVars>>

\* Faulty variant: the engine goes first.
DestroyTurnEarly == main \in {"shutdown", "join", "destroy"}

DestroyTurn == main = "destroy"

DestroyDb ==
  /\ DestroyTurn
  /\ db' = "freed"
  /\ main' = "done"
  /\ UNCHANGED <<hand, stop, workerVars, net, backlog, clientVars, replies,
                 queueVars, tableVars>>

-----------------------------------------------------------------------------
(* Signals.                                                                *)

\* accept returns with EINTR, and the loop continues.
AfterSignal(t) == IF t = Main /\ main = "accept" THEN "test" ELSE main

\* handle_signal, run by any thread t of the process once the handlers are
\* installed.  A main thread that is blocked in accept returns from it with
\* EINTR if it is the one; every other wait goes on.
Signal(t) ==
  /\ main # "done"
  /\ stop' = TRUE
  /\ main' = AfterSignal(t)
  /\ UNCHANGED <<hand, db, workerVars, net, backlog, clientVars, replies,
                 queueVars, tableVars>>

-----------------------------------------------------------------------------
(* handle_client.                                                          *)

\* worker_loop hands the oldest queued connection to the handler.
Take(w) ==
  /\ at[w] = "idle"
  /\ Pool!Dequeue
  /\ conn' = [conn EXCEPT ![w] = Head(queue)]
  /\ at' = [at EXCEPT ![w] = "read"]
  /\ UNCHANGED <<mainVars, stop, answer, net, backlog, clientVars, replies, tableVars>>

Exit(w) ==
  /\ at[w] = "idle"
  /\ qphase = "closing" /\ queue = <<>>
  /\ at' = [at EXCEPT ![w] = "exited"]
  /\ UNCHANGED <<mainVars, stop, conn, answer, net, backlog, clientVars, replies,
                 queueVars, tableVars>>

Status(s) == [status |-> s, rows |-> <<>>]

\* The status of a request that does not reach the engine: GET /health is "ok"
\* (200), a request that cannot be read, has an unknown route, a wrong method, no
\* SQL or a statement that does not parse is "refused" (400, 404, 405).
Immediate(m) == IF m = "health" THEN "ok" ELSE "refused"

\* Faulty variant: a recv that returns 0 is tried again.
NeverUnreadable(c) == FALSE

\* The connection ended before the request was complete.
Unreadable(c) == c \in gone

\* http_read_request and the routing, up to the call of the engine for a query.
\* The request of a client that has left may be readable or not.
Read(w) ==
  LET c == conn[w]
      m == sent[c]
  IN  /\ at[w] = "read"
      /\ \/ /\ m \in {"insert", "select"}
            /\ Users!TableCall(w)
            /\ request'[w] = Query(c)
            /\ at' = [at EXCEPT ![w] = "execute"]
            /\ UNCHANGED answer
         \/ /\ m \notin {"", "insert", "select"}
            /\ at' = [at EXCEPT ![w] = "send"]
            /\ answer' = [answer EXCEPT ![w] = Status(Immediate(m))]
            /\ UNCHANGED tableVars
         \/ /\ Unreadable(c)
            /\ at' = [at EXCEPT ![w] = "send"]
            /\ answer' = [answer EXCEPT ![w] = Status("refused")]
            /\ UNCHANGED tableVars
      /\ UNCHANGED <<mainVars, stop, conn, net, backlog, clientVars, replies, queueVars>>

\* The engine inserts the row, or determines the rows to return.
TakeEffect(w) ==
  /\ at[w] = "execute"
  /\ \/ /\ request[w] \in Inserts
        /\ effect' = [effect EXCEPT ![w] =
                        [id |-> Len(table) + 1, name |-> request[w].name, age |-> 0]]
        /\ Users!Apply(w)
     \/ Users!Evaluate(w)
  /\ UNCHANGED <<mainVars, stop, workerVars, net, backlog, clientVars, replies,
                 queueVars>>

\* Faulty variant: the ok flag of the DbResult is not looked at.
StatusIgnoringOk(r) == "ok"

\* 200 or 500.
StatusOf(r) == IF r.ok THEN "ok" ELSE "failed"

\* Faulty variant: a statement that failed is executed a second time.
AfterResultAgain(r) == IF r.ok THEN "send" ELSE "read"

AfterResult(r) == "send"

\* The DbResult comes back.
Executed(w) ==
  /\ at[w] = "execute"
  /\ Users!Succeed(w) \/ Users!GiveUp(w)
  /\ answer' = [answer EXCEPT ![w] =
       [status |-> StatusOf(result'[w]), rows |-> result'[w].rows]]
  /\ at' = [at EXCEPT ![w] = AfterResult(result'[w])]
  /\ UNCHANGED <<mainVars, stop, conn, net, backlog, clientVars, replies, queueVars>>

\* An error message that cannot be built becomes a fixed one with status 500.
Statuses(s) == IF s = "refused" THEN {s, "failed"} ELSE {s}

\* send_json_response.  A client that left gets nothing, and SIGPIPE is ignored.
Reply(w) ==
  /\ at[w] = "send"
  /\ \/ /\ conn[w] \notin gone
        /\ \E s \in Statuses(answer[w].status) :
             replies' = [replies EXCEPT ![conn[w]] =
                           Append(@, [answer[w] EXCEPT !.status = s])]
     \/ conn[w] \in gone /\ UNCHANGED replies
  /\ at' = [at EXCEPT ![w] = "close"]
  /\ UNCHANGED <<mainVars, stop, conn, answer, net, backlog, clientVars, queueVars,
                 tableVars>>

CloseFd(w) ==
  /\ at[w] = "close"
  /\ Pool!Finish(conn[w])
  /\ net' = [net EXCEPT ![conn[w]] = "closed"]
  /\ conn' = [conn EXCEPT ![w] = NoOne]
  /\ answer' = [answer EXCEPT ![w] = Status("none")]
  /\ at' = [at EXCEPT ![w] = "idle"]
  /\ UNCHANGED <<mainVars, stop, backlog, clientVars, replies, tableVars>>

-----------------------------------------------------------------------------
(* Clients.                                                                *)

Listening == main \in {"test", "accept", "submit", "close"}

Connect(c) ==
  /\ Listening
  /\ net[c] = "new"
  /\ net' = [net EXCEPT ![c] = "backlog"]
  /\ backlog' = Append(backlog, c)
  /\ UNCHANGED <<mainVars, stop, workerVars, clientVars, replies, queueVars, tableVars>>

\* The connections whose client has seen its INSERT succeed.
Acknowledged ==
  {c \in Connections : sent[c] = "insert" /\ \E i \in DOMAIN replies[c] :
                                               replies[c][i].status = "ok"}

SendRequest(c) ==
  /\ net[c] \in {"backlog", "accepted"}
  /\ c \notin gone
  /\ sent[c] = ""
  /\ \E m \in Says(c) :
       /\ sent' = [sent EXCEPT ![c] = m]
       /\ known' = [known EXCEPT ![c] = IF m = "select" THEN Acknowledged ELSE {}]
  /\ UNCHANGED <<mainVars, stop, workerVars, net, backlog, gone, replies, queueVars,
                 tableVars>>

\* The client closes its end, or its host goes away.
Leave(c) ==
  /\ c \in Leaving
  /\ net[c] \in {"backlog", "accepted"}
  /\ c \notin gone
  /\ gone' = gone \cup {c}
  /\ UNCHANGED <<mainVars, stop, workerVars, net, backlog, sent, known, replies,
                 queueVars, tableVars>>

-----------------------------------------------------------------------------
MainStep ==
  \/ OpenDb \/ StartPool \/ Listen \/ TestStop \/ Accept \/ Submit
  \/ CloseListener \/ StopPool \/ JoinWorkers \/ DestroyDb

WorkerStep(w) ==
  \/ Take(w) \/ Exit(w) \/ Read(w) \/ TakeEffect(w) \/ Executed(w)
  \/ Reply(w) \/ CloseFd(w)

Next ==
  \/ MainStep
  \/ AcceptError
  \/ \E t \in Workers \cup {Main} : Signal(t)
  \/ \E w \in Workers : WorkerStep(w)
  \/ \E c \in Connections : Connect(c) \/ SendRequest(c) \/ Leave(c)

Spec == Init /\ [][Next]_vars

\* Threads that can run do run.  A client sends its request unless it is a
\* silent one, which may also keep the worker that replies to it from going on.
\* Nobody has to connect, to leave or to send a signal.
Fairness ==
  /\ WF_vars(MainStep)
  /\ \A w \in Workers :
       WF_vars(WorkerStep(w) /\ ~(at[w] = "send" /\ conn[w] \in Silent))
  /\ \A c \in Connections \ Silent : WF_vars(SendRequest(c))

FairSpec == Spec /\ Fairness

-----------------------------------------------------------------------------
(* Safety.                                                                 *)

\* The rows that connection c has inserted.
RowsOf(c) == {i \in 1..Len(table) : table[i].name = c}

\* A client can rely on the reply it gets: 200 to an INSERT means one row, and
\* none of the refusals 400, 404 and 405 means a row.  Only after a 500 or no
\* reply at all is the outcome open, and even then the row is there at most
\* once: the server itself never repeats a statement.
RepliesTellTheTruth ==
  \A c \in Connections :
    /\ Cardinality(RowsOf(c)) <= 1
    /\ \A i \in DOMAIN replies[c] :
         /\ replies[c][i].status = "ok" /\ sent[c] = "insert" => RowsOf(c) # {}
         /\ replies[c][i].status = "refused" => RowsOf(c) = {}

\* Whoever sends a SELECT after the reply to an INSERT was received, on whatever
\* connection and worker, finds the row in the answer.
SelectSeesAcknowledged ==
  \A c \in Connections : \A i \in DOMAIN replies[c] :
    replies[c][i].status = "ok" /\ sent[c] = "select" =>
      \A d \in known[c] : \E j \in DOMAIN replies[c][i].rows :
        replies[c][i].rows[j].name = d

\* No worker is inside the engine before it is loaded or after it is destroyed,
\* whichever part of the start-up failed and whenever the signal came.
EngineOutlivesWorkers ==
  \A w \in Workers : at[w] = "execute" => db = "up"

\* The end is orderly: a client that was accepted, even in the same moment as the
\* signal, has got exactly one reply when the server ends, unless it left itself.
AcceptedAreAnswered ==
  main = "done" =>
    \A c \in Connections :
      /\ net[c] \in {"new", "closed", "reset"}
      /\ net[c] = "closed" /\ c \notin gone => Len(replies[c]) = 1

-----------------------------------------------------------------------------
(* Liveness, under FairSpec.                                               *)

\* A client that connects and says nothing keeps one worker, for there is no
\* timeout, and no more: while there are fewer of them than workers, every other
\* accepted client is answered and its connection closed.
OthersAreServed ==
  Cardinality(Silent) < Cardinality(Workers) =>
    \A c \in Connections \ Silent : net[c] = "accepted" ~> net[c] = "closed"

\* A worker that waits for a silent client.
HeldUp == \E w \in Workers : conn[w] \in Silent

\* A signal that finds the main thread anywhere but in accept ends the server,
\* unless a silent client holds a worker up: the shutdown waits for its clients.
StopIsObeyed == stop /\ main # "accept" ~> main = "done" \/ HeldUp

\* A signal ends the server when no client holds it up.
SignalEndsServer == stop ~> main = "done"
=============================================================================
