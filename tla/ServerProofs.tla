---------------------------- MODULE ServerProofs ----------------------------
(***************************************************************************)
(* Proofs about Server, for every number of workers and connections and    *)
(* every queue capacity: what a client may conclude from its reply, that   *)
(* the engine outlives the workers, and that the end is orderly.           *)
(*                                                                         *)
(* The inductive invariant follows a connection from the backlog through   *)
(* the main thread's hand, the queue and a worker to its close.  In all of *)
(* these places it is at most once, which is why its statement is executed *)
(* once and its reply is sent once.                                        *)
(***************************************************************************)
EXTENDS Server, SequenceTheorems, FiniteSetTheorems, TLAPS

Requests == {"insert", "select", "health", "refused"}

Row == [id : Nat, name : Connections, age : {0}]

ReplyType ==
  [status : {"none", "ok", "refused", "failed"}, rows : Seq(Row)]

MainPcs ==
  {"dbinit", "poolinit", "listen", "test", "accept", "submit", "close", "shutdown",
   "join", "destroy", "done"}

\* The places of handle_client, where a worker has a connection.
BusyPcs == {"read", "execute", "send", "close"}

TypeInv ==
  /\ main \in MainPcs
  /\ hand \in Connections \cup {NoOne}
  /\ stop \in BOOLEAN
  /\ db \in {"none", "up", "freed"}
  /\ at \in [Workers -> BusyPcs \cup {"unborn", "idle", "exited"}]
  /\ conn \in [Workers -> Connections \cup {NoOne}]
  /\ answer \in [Workers -> ReplyType]
  /\ net \in [Connections -> {"new", "backlog", "accepted", "closed", "reset"}]
  /\ backlog \in Seq(Connections)
  /\ sent \in [Connections -> Requests \cup {""}]
  /\ gone \in SUBSET Connections
  /\ replies \in [Connections -> Seq(ReplyType)]
  /\ known \in [Connections -> SUBSET Connections]
  /\ queue \in Seq(Connections)
  /\ table \in Seq(Row)
  /\ tphase \in [Workers -> {"idle", "called", "applied", "answered"}]
  /\ request \in [Workers -> Inserts \cup Selects \cup {<<>>}]
  /\ DOMAIN effect = Workers
  /\ \A w \in Workers : effect[w] \in IF tphase[w] = "applied" THEN Row ELSE Seq(Row)
  /\ result \in [Workers -> [ok : BOOLEAN, rows : Seq(Row)]]

\* Workers run only between the start of the pool and its join, and the engine
\* is there all that time; the listener's backlog only while it listens.
MainInv ==
  /\ main \in {"dbinit", "poolinit"} => \A w \in Workers : at[w] = "unborn"
  /\ main \in {"destroy", "done"} => \A w \in Workers : at[w] \in {"unborn", "exited"}
  /\ db # "up" => main \in {"dbinit", "done"}
  /\ main \in {"dbinit", "poolinit"} => queue = <<>>
  /\ main \in {"destroy", "done"} => queue = <<>>
  /\ ~Listening => backlog = <<>>

Elements(s) == {s[i] : i \in 1..Len(s)}

Distinct(s) == \A i, j \in 1..Len(s) : s[i] = s[j] => i = j

\* A connection that was accepted is in exactly one of three places, one that is
\* not yet accepted waits once in the backlog.
PlaceInv ==
  /\ hand # NoOne <=> main = "submit"
  /\ \A w \in Workers : conn[w] # NoOne <=> at[w] \in BusyPcs
  /\ \A v, w \in Workers : conn[v] = conn[w] /\ conn[v] # NoOne => v = w
  /\ \A w \in Workers : conn[w] # NoOne => conn[w] # hand /\ conn[w] \notin Elements(queue)
  /\ hand \notin Elements(queue)
  /\ Distinct(queue) /\ Distinct(backlog)
  /\ \A c \in Connections :
       /\ net[c] = "backlog" <=> c \in Elements(backlog)
       /\ net[c] = "accepted" <=> \/ c = hand \/ c \in Elements(queue)
                                  \/ \E w \in Workers : conn[w] = c

\* A reply is sent once, at the end of the request that asked for it.
RepliedIsOver ==
  \A c \in Connections : replies[c] # <<>> =>
    net[c] = "closed" \/ \E w \in Workers : conn[w] = c /\ at[w] = "close"

CloserReplied ==
  \A w \in Workers : at[w] = "close" /\ conn[w] \notin gone => Len(replies[conn[w]]) = 1

ClosedGotReply ==
  \A c \in Connections : net[c] = "closed" /\ c \notin gone => Len(replies[c]) = 1

\* The places of a worker after it has read the request.
LatePcs == {"execute", "send", "close"}

\* A worker goes on only with a request, or with a client that has left.
RequestWasRead ==
  \A w \in Workers : at[w] \in LatePcs => sent[conn[w]] # "" \/ conn[w] \in gone

ReplyInv == RepliedIsOver /\ CloserReplied /\ ClosedGotReply /\ RequestWasRead

\* The rows contain one of every connection in D.
Covers(rows, D) == \A d \in D : \E j \in DOMAIN rows : rows[j].name = d

\* What a reply of connection c with this status and these rows may claim.
Truthful(c, status, rows) ==
  /\ status = "ok" /\ sent[c] = "insert" => RowsOf(c) # {}
  /\ status = "refused" => RowsOf(c) = {}
  /\ status = "ok" /\ sent[c] = "select" => Covers(rows, known[c])

\* The row of a connection appears when its worker executes the statement, once,
\* and everything said about it later is said with the table in view.
OneRowEach == \A c \in Connections : \A i, j \in RowsOf(c) : i = j

RowsComeFromInserts ==
  \A c \in Connections : RowsOf(c) # {} =>
    /\ sent[c] = "insert"
    /\ net[c] = "closed" \/ \E w \in Workers : conn[w] = c /\ at[w] \in LatePcs

KnownAreThere == \A c \in Connections : \A d \in known[c] : RowsOf(d) # {}

RepliesAreTruthful ==
  \A c \in Connections : \A i \in DOMAIN replies[c] :
    Truthful(c, replies[c][i].status, replies[c][i].rows)

RowInv == OneRowEach /\ RowsComeFromInserts /\ KnownAreThere /\ RepliesAreTruthful

\* What is true of the statement that worker w executes for connection c.
Statement(w, c) ==
  /\ tphase[w] # "idle"
  /\ sent[c] \in {"insert", "select"}
  /\ request[w] = Query(c)
  /\ tphase[w] = "called" => RowsOf(c) = {}
  /\ tphase[w] = "applied" => sent[c] = "insert" /\ RowsOf(c) # {}
  /\ tphase[w] = "answered" => sent[c] = "select" /\ Covers(effect[w], known[c])

StatementsFollow == \A w \in Workers : at[w] = "execute" => Statement(w, conn[w])

AnswersAreTruthful ==
  \A w \in Workers : at[w] = "send" =>
    Truthful(conn[w], answer[w].status, answer[w].rows)

WorkerInv == StatementsFollow /\ AnswersAreTruthful

ServerInv == TypeInv /\ MainInv /\ PlaceInv /\ ReplyInv /\ RowInv /\ WorkerInv

USE MainAssumption, ClientAssumption, SaysAssumption, CapacityAssumption
    DEF MainAssumption, ClientAssumption, SaysAssumption, CapacityAssumption

-----------------------------------------------------------------------------
(* Sequences of connections.                                               *)

\* The empty sequence has no elements.
LEMMA EmptyElements == Elements(<<>>) = {} /\ Distinct(<<>>)
  BY DEF Elements, Distinct

\* What Append adds to a sequence.
LEMMA AppendElements ==
  ASSUME NEW S, NEW s \in Seq(S), NEW c \in S
  PROVE  /\ Append(s, c) \in Seq(S)
         /\ Elements(Append(s, c)) = Elements(s) \cup {c}
         /\ Distinct(s) /\ c \notin Elements(s) => Distinct(Append(s, c))
<1>1. /\ Append(s, c) \in Seq(S) /\ Len(Append(s, c)) = Len(s) + 1 /\ Len(s) \in Nat
      /\ \A i \in 1..Len(s) : Append(s, c)[i] = s[i]
      /\ Append(s, c)[Len(s) + 1] = c
  BY AppendProperties, LenProperties
<1>2. Elements(Append(s, c)) = Elements(s) \cup {c}
  <2>1. ASSUME NEW x \in Elements(Append(s, c)) PROVE x \in Elements(s) \cup {c}
    BY <1>1, <2>1 DEF Elements
  <2>2. ASSUME NEW x \in Elements(s) \cup {c} PROVE x \in Elements(Append(s, c))
    <3>1. CASE x = c
      <4>1. Len(s) + 1 \in 1..Len(Append(s, c))
        BY <1>1
      <4> QED
        BY <1>1, <3>1, <4>1 DEF Elements
    <3>2. CASE x # c
      <4>1. PICK i \in 1..Len(s) : x = s[i]
        BY <2>2, <3>2 DEF Elements
      <4>2. i \in 1..Len(Append(s, c)) /\ Append(s, c)[i] = x
        BY <1>1, <4>1
      <4> QED
        BY <4>2 DEF Elements
    <3> QED
      BY <3>1, <3>2
  <2> QED
    BY <2>1, <2>2
<1>3. ASSUME Distinct(s), c \notin Elements(s) PROVE Distinct(Append(s, c))
  <2> SUFFICES ASSUME NEW i \in 1..Len(s) + 1, NEW j \in 1..Len(s) + 1,
                      Append(s, c)[i] = Append(s, c)[j]
               PROVE  i = j
    BY <1>1 DEF Distinct
  <2>1. \A k \in 1..Len(s) : Append(s, c)[k] = s[k] /\ s[k] # c
    BY <1>1, <1>3 DEF Elements
  <2>2. i \in 1..Len(s) \/ i = Len(s) + 1
    BY <1>1
  <2>3. j \in 1..Len(s) \/ j = Len(s) + 1
    BY <1>1
  <2> QED
    BY <1>1, <1>3, <2>1, <2>2, <2>3 DEF Distinct
<1> QED
  BY <1>1, <1>2, <1>3

\* What is left when the first of a sequence without repetitions is taken.
LEMMA TailElements ==
  ASSUME NEW S, NEW s \in Seq(S), s # <<>>, Distinct(s)
  PROVE  /\ Head(s) \in S /\ Head(s) \in Elements(s) /\ Tail(s) \in Seq(S)
         /\ Elements(Tail(s)) = Elements(s) \ {Head(s)}
         /\ Distinct(Tail(s))
<1>1. /\ Head(s) \in S /\ Tail(s) \in Seq(S) /\ Len(Tail(s)) = Len(s) - 1
      /\ \A i \in 1..Len(Tail(s)) : Tail(s)[i] = s[i + 1]
  BY HeadTailProperties
<1>2. Len(s) \in Nat /\ Len(s) >= 1 /\ Head(s) = s[1]
  BY EmptySeq, LenProperties
<1>3. Head(s) \in Elements(s)
  BY <1>2 DEF Elements
<1>4. Distinct(Tail(s))
  <2> SUFFICES ASSUME NEW i \in 1..Len(s) - 1, NEW j \in 1..Len(s) - 1,
                      Tail(s)[i] = Tail(s)[j]
               PROVE  i = j
    BY <1>1 DEF Distinct
  <2>1. i + 1 \in 1..Len(s) /\ j + 1 \in 1..Len(s)
    BY <1>2
  <2>2. s[i + 1] = s[j + 1]
    BY <1>1
  <2>3. i + 1 = j + 1
    BY <2>1, <2>2 DEF Distinct
  <2> QED
    BY <1>2, <2>3
<1>5. ASSUME NEW x \in Elements(Tail(s)) PROVE x \in Elements(s) \ {Head(s)}
  <2>1. PICK i \in 1..Len(s) - 1 : x = s[i + 1]
    BY <1>1, <1>5 DEF Elements
  <2>2. i + 1 \in 1..Len(s) /\ 1 \in 1..Len(s) /\ i + 1 # 1
    BY <1>2
  <2> QED
    BY <1>2, <2>1, <2>2 DEF Elements, Distinct
<1>6. ASSUME NEW x \in Elements(s) \ {Head(s)} PROVE x \in Elements(Tail(s))
  <2>1. PICK i \in 1..Len(s) : x = s[i]
    BY <1>6 DEF Elements
  <2>2. i # 1
    BY <1>2, <1>6, <2>1
  <2>3. i - 1 \in 1..Len(Tail(s)) /\ (i - 1) + 1 = i
    BY <1>1, <1>2, <2>2
  <2>4. Tail(s)[i - 1] = x
    BY <1>1, <2>1, <2>3
  <2> QED
    BY <2>3, <2>4 DEF Elements
<1> QED
  BY <1>1, <1>3, <1>4, <1>5, <1>6

\* A statement that inserts is not one that selects.
LEMMA StatementsDiffer == \A c \in Connections : Insert(c) # [filter |-> "all"]
<1> SUFFICES ASSUME NEW c \in Connections, Insert(c) = [filter |-> "all"] PROVE FALSE
  OBVIOUS
<1>1. DOMAIN Insert(c) = {"hasId", "id", "name", "age"}
  BY DEF Insert
<1>2. DOMAIN [filter |-> "all"] = {"filter"}
  OBVIOUS
<1> QED
  BY <1>1, <1>2

\* What a client says is one of the requests.
LEMMA SaysRequests == ASSUME NEW c \in Connections PROVE Says(c) \subseteq Requests
  BY DEF Requests

-----------------------------------------------------------------------------
(* Types.                                                                  *)

\* The variables of the engine keep their types when a worker w goes on in it.
EngineTypes ==
  /\ table \in Seq(Row)
  /\ tphase \in [Workers -> {"idle", "called", "applied", "answered"}]
  /\ request \in [Workers -> Inserts \cup Selects \cup {<<>>}]
  /\ DOMAIN effect = Workers
  /\ \A w \in Workers : effect[w] \in IF tphase[w] = "applied" THEN Row ELSE Seq(Row)
  /\ result \in [Workers -> [ok : BOOLEAN, rows : Seq(Row)]]

\* No rows are rows, and the missing reply is one.
LEMMA EmptyRows == <<>> \in Seq(Row) /\ NoReply \in [ok : BOOLEAN, rows : Seq(Row)]
  BY DEF NoReply

\* A status without rows is a reply.
LEMMA StatusType ==
  ASSUME NEW s \in {"none", "ok", "refused", "failed"} PROVE Status(s) \in ReplyType
  BY EmptyRows DEF Status, ReplyType

\* The server starts with every variable in its type.
LEMMA TypeInit == Init => TypeInv
<1> SUFFICES ASSUME Init PROVE TypeInv
  OBVIOUS
<1> USE EmptyRows
<1>1. /\ main \in MainPcs /\ hand \in Connections \cup {NoOne}
      /\ db \in {"none", "up", "freed"}
      /\ at \in [Workers -> BusyPcs \cup {"unborn", "idle", "exited"}]
      /\ conn \in [Workers -> Connections \cup {NoOne}]
  BY DEF Init, MainPcs, BusyPcs
<1>2. answer \in [Workers -> ReplyType]
  BY DEF Init, ReplyType
<1>3. /\ net \in [Connections -> {"new", "backlog", "accepted", "closed", "reset"}]
      /\ sent \in [Connections -> Requests \cup {""}]
      /\ gone \in SUBSET Connections
      /\ known \in [Connections -> SUBSET Connections]
  BY DEF Init
<1>e. <<>> \in Seq(Connections) /\ <<>> \in Seq(ReplyType)
  BY EmptySeq
<1>4. replies \in [Connections -> Seq(ReplyType)] /\ backlog \in Seq(Connections)
  BY <1>e DEF Init
<1>5. queue \in Seq(Connections)
  BY <1>e DEF Init, Pool!QueueInit
<1>6. /\ table = <<>>
      /\ tphase = [t \in Workers |-> "idle"]
      /\ request = [t \in Workers |-> <<>>]
      /\ effect = [t \in Workers |-> <<>>]
      /\ result = [t \in Workers |-> NoReply]
  BY DEF Init, Users!TableInit
<1>7. stop \in BOOLEAN
  BY Zenon DEF Init
<1> QED
  BY <1>1, <1>2, <1>3, <1>4, <1>5, <1>6, <1>7 DEF TypeInv

\* A worker's call, its statement's effect and the result keep the engine's types.
LEMMA EngineTypesNext ==
  ASSUME TypeInv, NEW w \in Workers,
         Users!TableCall(w) \/ TakeEffect(w) \/ Users!Succeed(w) \/ Users!GiveUp(w)
  PROVE  EngineTypes'
<1>t. EngineTypes
  BY DEF TypeInv, EngineTypes
<1> USE DEF EngineTypes
<1>1. CASE Users!TableCall(w)
  <2>1. PICK q \in Inserts \cup Selects : request' = [request EXCEPT ![w] = q]
    BY <1>1 DEF Users!TableCall
  <2>2. request' \in [Workers -> Inserts \cup Selects \cup {<<>>}]
    BY <1>t, <2>1
  <2> QED
    BY <1>t, <1>1, <2>2, EmptyRows DEF Users!TableCall
<1>2. CASE Users!Succeed(w)
  <2>1. ASSUME tphase[w] = "applied" PROVE Inserted(effect[w]) \in Seq(Row)
    BY <1>t, <2>1 DEF Inserted
  <2>2. result' \in [Workers -> [ok : BOOLEAN, rows : Seq(Row)]]
    BY <1>t, <1>2, <2>1 DEF Users!Succeed
  <2> QED
    BY <1>t, <1>2, <2>2, EmptyRows DEF Users!Succeed
<1>3. CASE Users!GiveUp(w)
  BY <1>t, <1>3, EmptyRows DEF Users!GiveUp
<1>4. CASE TakeEffect(w) /\ Users!Evaluate(w)
  BY <1>t, <1>4 DEF Users!Evaluate, Answer
<1>5. CASE TakeEffect(w) /\ ~Users!Evaluate(w)
  <2>1. /\ request[w] \in Inserts /\ Users!Apply(w)
        /\ effect' = [effect EXCEPT ![w] =
                        [id |-> Len(table) + 1, name |-> request[w].name, age |-> 0]]
    BY <1>5 DEF TakeEffect
  <2>2. request[w].name \in Connections
    BY <2>1 DEF Inserts, Insert
  <2>3. effect'[w] \in Row
    <3>1. Len(table) + 1 \in Nat
      BY <1>t
    <3> QED
      BY <1>t, <2>1, <2>2, <3>1 DEF Row
  <2>4. table' = Append(table, effect'[w])
    BY <2>1 DEF Users!Apply
  <2>5. table' \in Seq(Row)
    BY <1>t, <2>3, <2>4
  <2> QED
    BY <1>t, <2>1, <2>3, <2>5 DEF Users!Apply
<1> QED
  BY <1>1, <1>2, <1>3, <1>4, <1>5

\* A worker in handle_client has a connection.
LEMMA BusyHasConnection ==
  ASSUME TypeInv, PlaceInv, NEW w \in Workers, at[w] \in BusyPcs
  PROVE  conn[w] \in Connections
<1>1. conn[w] \in Connections \cup {NoOne}
  BY DEF TypeInv
<1>2. conn[w] # NoOne
  BY DEF PlaceInv
<1> QED
  BY <1>1, <1>2

\* Every step keeps the types.
LEMMA TypeNext == TypeInv /\ PlaceInv /\ [Next]_vars => TypeInv'
<1> SUFFICES ASSUME TypeInv, PlaceInv, [Next]_vars PROVE TypeInv'
  OBVIOUS
<1> USE DEF TypeInv, mainVars, workerVars, clientVars, queueVars, tableVars
<1>1. CASE OpenDb
  BY <1>1 DEF OpenDb, MainPcs
<1>2. CASE StartPool
  <2>1. at' \in [Workers -> BusyPcs \cup {"unborn", "idle", "exited"}]
    BY <1>2 DEF StartPool
  <2>2. main' \in MainPcs
    BY <1>2 DEF StartPool, MainPcs
  <2> QED
    BY <1>2, <2>1, <2>2 DEF StartPool
<1>3. CASE Listen
  BY <1>3 DEF Listen, MainPcs
<1>4. CASE TestStop
  BY <1>4 DEF TestStop, AfterTest, MainPcs
<1>5. CASE Accept
  <2>1. Head(backlog) \in Connections /\ Tail(backlog) \in Seq(Connections)
    BY <1>5, HeadTailProperties DEF Accept
  <2> QED
    BY <1>5, <2>1 DEF Accept, MainPcs
<1>6. CASE AcceptError
  BY <1>6 DEF AcceptError, MainPcs
<1>7. CASE Submit
  <2>1. hand \in Connections
    BY <1>7 DEF Submit, PlaceInv
  <2>2. queue' \in Seq(Connections)
    BY <1>7, <2>1, AppendProperties DEF Submit, HandedOver, Pool!Enqueue
  <2> QED
    BY <1>7, <2>2 DEF Submit, MainPcs
<1>8. CASE CloseListener
  <2>1. backlog' \in Seq(Connections)
    BY <1>8, EmptySeq DEF CloseListener
  <2>2. net' \in [Connections -> {"new", "backlog", "accepted", "closed", "reset"}]
    BY <1>8 DEF CloseListener
  <2> QED
    BY <1>8, <2>1, <2>2 DEF CloseListener, MainPcs
<1>9. CASE StopPool
  BY <1>9 DEF StopPool, Pool!Close, MainPcs
<1>10. CASE JoinWorkers
  BY <1>10 DEF JoinWorkers, Pool!Retire, MainPcs
<1>11. CASE DestroyDb
  BY <1>11 DEF DestroyDb, MainPcs
<1>12. ASSUME NEW t \in Workers \cup {Main}, Signal(t) PROVE TypeInv'
  <2>1. stop' \in BOOLEAN
    BY <1>12, Zenon DEF Signal
  <2> QED
    BY <1>12, <2>1 DEF Signal, AfterSignal, MainPcs
<1>13. ASSUME NEW w \in Workers, Take(w) PROVE TypeInv'
  <2>1. Head(queue) \in Connections /\ queue' \in Seq(Connections)
    BY <1>13, HeadTailProperties DEF Take, Pool!Dequeue
  <2> QED
    BY <1>13, <2>1 DEF Take, BusyPcs
<1>14. ASSUME NEW w \in Workers, Exit(w) PROVE TypeInv'
  BY <1>14 DEF Exit
<1>15. ASSUME NEW w \in Workers, Read(w) PROVE TypeInv'
  <2>1. EngineTypes'
    <3>1. CASE Users!TableCall(w)
      BY <3>1, EngineTypesNext
    <3>2. CASE UNCHANGED tableVars
      BY <3>2 DEF EngineTypes
    <3> QED
      BY <1>15, <3>1, <3>2 DEF Read
  <2>2. answer' \in [Workers -> ReplyType]
    <3>1. Status("refused") \in ReplyType /\ Status(Immediate(sent[conn[w]])) \in ReplyType
      BY StatusType DEF Immediate
    <3>2. answer' = answer \/ \E r \in ReplyType : answer' = [answer EXCEPT ![w] = r]
      BY <1>15, <3>1 DEF Read
    <3>3. answer \in [Workers -> ReplyType]
      OBVIOUS
    <3> HIDE DEF TypeInv
    <3> QED
      BY <3>2, <3>3
  <2>3. at' \in [Workers -> BusyPcs \cup {"unborn", "idle", "exited"}]
    <3>1. at' = [at EXCEPT ![w] = "execute"] \/ at' = [at EXCEPT ![w] = "send"]
      BY <1>15 DEF Read
    <3>2. at \in [Workers -> BusyPcs \cup {"unborn", "idle", "exited"}]
      OBVIOUS
    <3> HIDE DEF TypeInv
    <3> QED
      BY ONLY <3>1, <3>2 DEF BusyPcs
  <2> QED
    BY <1>15, <2>1, <2>2, <2>3 DEF Read, EngineTypes
<1>16. ASSUME NEW w \in Workers, TakeEffect(w) PROVE TypeInv'
  <2>1. EngineTypes'
    BY <1>16, EngineTypesNext
  <2> QED
    BY <1>16, <2>1 DEF TakeEffect, EngineTypes
<1>17. ASSUME NEW w \in Workers, Executed(w) PROVE TypeInv'
  <2>1. EngineTypes'
    BY <1>17, EngineTypesNext DEF Executed
  <2>2. [status |-> StatusOf(result'[w]), rows |-> result'[w].rows] \in ReplyType
    BY <2>1 DEF EngineTypes, StatusOf, ReplyType
  <2> QED
    BY <1>17, <2>1, <2>2 DEF Executed, EngineTypes, AfterResult, BusyPcs
<1>18. ASSUME NEW w \in Workers, Reply(w) PROVE TypeInv'
  <2>1. replies' \in [Connections -> Seq(ReplyType)]
    <3>1. CASE UNCHANGED replies
      BY <3>1
    <3>2. CASE \E s \in Statuses(answer[w].status) :
                 replies' = [replies EXCEPT ![conn[w]] =
                               Append(@, [answer[w] EXCEPT !.status = s])]
      <4>1. PICK s \in Statuses(answer[w].status) :
              replies' = [replies EXCEPT ![conn[w]] =
                            Append(@, [answer[w] EXCEPT !.status = s])]
        BY <3>2
      <4>2. [answer[w] EXCEPT !.status = s] \in ReplyType
        <5>1. answer[w] \in ReplyType
          OBVIOUS
        <5>2. s \in {"none", "ok", "refused", "failed"}
          BY <5>1 DEF ReplyType, Statuses
        <5> QED
          BY <5>1, <5>2 DEF ReplyType
      <4>3. conn[w] \in Connections
        BY <1>18, BusyHasConnection DEF Reply, BusyPcs
      <4>4. Append(replies[conn[w]], [answer[w] EXCEPT !.status = s]) \in Seq(ReplyType)
        BY <4>2, <4>3, AppendProperties
      <4> QED
        BY <4>1, <4>3, <4>4
    <3> QED
      BY <1>18, <3>1, <3>2 DEF Reply
  <2> QED
    BY <1>18, <2>1 DEF Reply, BusyPcs
<1>19. ASSUME NEW w \in Workers, CloseFd(w) PROVE TypeInv'
  <2>1. Status("none") \in ReplyType
    BY StatusType
  <2>2. queue' \in Seq(Connections)
    BY <1>19 DEF CloseFd, Pool!Finish
  <2> QED
    BY <1>19, <2>1, <2>2 DEF CloseFd
<1>20. ASSUME NEW c \in Connections, Connect(c) PROVE TypeInv'
  <2>1. backlog' \in Seq(Connections)
    BY <1>20, AppendProperties DEF Connect
  <2> QED
    BY <1>20, <2>1 DEF Connect
<1>21. ASSUME NEW c \in Connections, SendRequest(c) PROVE TypeInv'
  <2>1. PICK m \in Says(c) :
          /\ sent' = [sent EXCEPT ![c] = m]
          /\ known' = [known EXCEPT ![c] = IF m = "select" THEN Acknowledged ELSE {}]
    BY <1>21 DEF SendRequest
  <2>2. m \in Requests /\ Acknowledged \in SUBSET Connections
    BY SaysRequests DEF Acknowledged
  <2>3. sent' \in [Connections -> Requests \cup {""}]
        /\ known' \in [Connections -> SUBSET Connections]
    BY <2>1, <2>2
  <2> QED
    BY <1>21, <2>3 DEF SendRequest
<1>22. ASSUME NEW c \in Connections, Leave(c) PROVE TypeInv'
  BY <1>22 DEF Leave
<1>23. CASE UNCHANGED vars
  BY <1>23 DEF vars
<1> QED
  BY <1>1, <1>2, <1>3, <1>4, <1>5, <1>6, <1>7, <1>8, <1>9, <1>10, <1>11, <1>12, <1>13,
     <1>14, <1>15, <1>16, <1>17, <1>18, <1>19, <1>20, <1>21, <1>22, <1>23
     DEF Next, MainStep, WorkerStep

-----------------------------------------------------------------------------
(* The main thread and the places of a connection.                         *)

\* Every step keeps MainInv.
LEMMA MainNext == TypeInv /\ MainInv /\ [Next]_vars => MainInv'
<1> SUFFICES ASSUME TypeInv, MainInv, [Next]_vars PROVE MainInv'
  OBVIOUS
<1>t. main \in MainPcs /\ at \in [Workers -> BusyPcs \cup {"unborn", "idle", "exited"}]
  BY DEF TypeInv
<1> USE DEF MainInv, Listening, mainVars, workerVars, clientVars, queueVars, tableVars
<1>1. CASE OpenDb \/ StartPool
  BY <1>1 DEF OpenDb, StartPool
<1>2. CASE Listen \/ TestStop \/ AcceptError
  BY <1>2 DEF Listen, TestStop, AfterTest, AcceptError
<1>3. CASE Accept
  BY <1>3 DEF Accept
<1>4. CASE Submit
  BY <1>4 DEF Submit
<1>5. CASE CloseListener
  BY <1>5 DEF CloseListener
<1>6. CASE StopPool
  BY <1>6 DEF StopPool
<1>7. CASE JoinWorkers
  BY <1>7 DEF JoinWorkers, Pool!Retire
<1>8. CASE DestroyDb
  BY <1>8 DEF DestroyDb, DestroyTurn
<1>9. ASSUME NEW t \in Workers \cup {Main}, Signal(t) PROVE MainInv'
  BY <1>9 DEF Signal, AfterSignal
<1>10. ASSUME NEW w \in Workers, Take(w) \/ Exit(w) PROVE MainInv'
  <2>1. at[w] = "idle" /\ UNCHANGED <<mainVars, backlog>>
    BY <1>10 DEF Take, Exit
  <2>2. main \notin {"dbinit", "poolinit", "destroy", "done"}
    BY <2>1
  <2> QED
    BY <2>1, <2>2
<1>11. ASSUME NEW w \in Workers,
              Read(w) \/ TakeEffect(w) \/ Executed(w) \/ Reply(w) \/ CloseFd(w)
       PROVE  MainInv'
  <2>1. at[w] \in BusyPcs /\ UNCHANGED <<mainVars, backlog>>
    BY <1>11 DEF Read, TakeEffect, Executed, Reply, CloseFd, BusyPcs
  <2>2. main \notin {"dbinit", "poolinit", "destroy", "done"}
    BY <2>1 DEF BusyPcs
  <2> QED
    BY <2>1, <2>2
<1>12. ASSUME NEW c \in Connections, Connect(c) \/ SendRequest(c) \/ Leave(c)
       PROVE  MainInv'
  BY <1>12 DEF Connect, SendRequest, Leave
<1>13. CASE UNCHANGED vars
  BY <1>13 DEF vars
<1> QED
  BY <1>1, <1>2, <1>3, <1>4, <1>5, <1>6, <1>7, <1>8, <1>9, <1>10, <1>11, <1>12, <1>13
     DEF Next, MainStep, WorkerStep

\* A step that moves no connection keeps PlaceInv.
LEMMA PlacesKept ==
  ASSUME TypeInv, PlaceInv, UNCHANGED <<hand, conn, queue, backlog, net>>,
         main' = "submit" <=> main = "submit",
         \A w \in Workers : at'[w] \in BusyPcs <=> at[w] \in BusyPcs
  PROVE  PlaceInv'
  BY DEF PlaceInv

\* Every step keeps PlaceInv.
LEMMA PlaceNext == TypeInv /\ MainInv /\ PlaceInv /\ [Next]_vars => PlaceInv'
<1> SUFFICES ASSUME TypeInv, MainInv, PlaceInv, [Next]_vars PROVE PlaceInv'
  OBVIOUS
<1>t. /\ at \in [Workers -> BusyPcs \cup {"unborn", "idle", "exited"}]
      /\ conn \in [Workers -> Connections \cup {NoOne}]
      /\ net \in [Connections -> {"new", "backlog", "accepted", "closed", "reset"}]
      /\ backlog \in Seq(Connections) /\ queue \in Seq(Connections)
      /\ hand \in Connections \cup {NoOne}
  BY DEF TypeInv
<1> USE DEF mainVars, workerVars, clientVars, queueVars, tableVars
<1>1. CASE OpenDb \/ Listen \/ TestStop \/ AcceptError \/ DestroyDb
  BY <1>1, PlacesKept DEF OpenDb, Listen, TestStop, AfterTest, AcceptError, DestroyDb, DestroyTurn
<1>2. CASE StartPool
  <2>1. \A w \in Workers : at[w] \notin BusyPcs /\ at'[w] \notin BusyPcs
    BY <1>2 DEF StartPool, MainInv, BusyPcs
  <2> QED
    BY <1>2, <2>1, PlacesKept DEF StartPool
<1>3. CASE StopPool \/ JoinWorkers
  BY <1>3, PlacesKept DEF StopPool, JoinWorkers, Pool!Close, Pool!Retire
<1>4. ASSUME NEW t \in Workers \cup {Main}, Signal(t) PROVE PlaceInv'
  BY <1>4, PlacesKept DEF Signal, AfterSignal
<1>5. ASSUME NEW w \in Workers, Read(w) \/ TakeEffect(w) \/ Executed(w) \/ Reply(w)
      PROVE  PlaceInv'
  <2>1. UNCHANGED <<hand, conn, queue, backlog, net, main>>
    BY <1>5 DEF Read, TakeEffect, Executed, Reply
  <2>2. \A v \in Workers : at'[v] \in BusyPcs <=> at[v] \in BusyPcs
    BY <1>t, <1>5 DEF Read, TakeEffect, Executed, AfterResult, Reply, BusyPcs
  <2> QED
    BY <2>1, <2>2, PlacesKept
<1>6. ASSUME NEW w \in Workers, Exit(w) PROVE PlaceInv'
  <2>1. \A v \in Workers : at'[v] \in BusyPcs <=> at[v] \in BusyPcs
    BY <1>t, <1>6 DEF Exit, BusyPcs
  <2> QED
    BY <1>6, <2>1, PlacesKept DEF Exit
<1>7. ASSUME NEW c \in Connections, SendRequest(c) \/ Leave(c) PROVE PlaceInv'
  BY <1>7, PlacesKept DEF SendRequest, Leave
<1>8. CASE UNCHANGED vars
  BY <1>8, PlacesKept DEF vars
<1>9. CASE Accept
  <2> DEFINE c == Head(backlog)
  <2>1. /\ main = "accept" /\ hand = NoOne /\ main' = "submit" /\ hand' = c
        /\ backlog # <<>> /\ backlog' = Tail(backlog)
        /\ net' = [net EXCEPT ![c] = "accepted"]
        /\ UNCHANGED <<at, conn, queue>>
    BY <1>9 DEF Accept, PlaceInv
  <2>2. /\ c \in Connections /\ c \in Elements(backlog) /\ backlog' \in Seq(Connections)
        /\ Elements(backlog') = Elements(backlog) \ {c}
        /\ Distinct(backlog')
    BY <1>t, <2>1, TailElements DEF PlaceInv
  <2> HIDE DEF c
  <2>3. net[c] = "backlog"
    BY <2>2 DEF PlaceInv
  <2>4. c \notin Elements(queue) /\ \A w \in Workers : conn[w] # c
    BY <2>2, <2>3 DEF PlaceInv
  <2> QED
    BY <1>t, <2>1, <2>2, <2>3, <2>4 DEF PlaceInv
<1>10. CASE Submit
  <2>1. /\ main = "submit" /\ main' = "test" /\ hand' = NoOne
        /\ queue' = Append(queue, hand) /\ UNCHANGED <<at, conn, net, backlog>>
    BY <1>10 DEF Submit, HandedOver, Pool!Enqueue
  <2>2. hand \in Connections /\ hand \notin Elements(queue) /\ Distinct(queue)
    BY <1>t, <2>1 DEF PlaceInv
  <2>3. Elements(queue') = Elements(queue) \cup {hand} /\ Distinct(queue')
        /\ queue' \in Seq(Connections)
    BY <1>t, <2>1, <2>2, AppendElements
  <2>4. NoOne \notin Elements(queue')
    BY <2>3 DEF Elements
  <2> QED
    BY <1>t, <2>1, <2>2, <2>3, <2>4 DEF PlaceInv
<1>11. CASE CloseListener
  <2>1. /\ main = "close" /\ main' = "shutdown" /\ backlog' = <<>>
        /\ net' = [c \in Connections |-> IF net[c] = "backlog" THEN "reset" ELSE net[c]]
        /\ UNCHANGED <<hand, at, conn, queue>>
    BY <1>11 DEF CloseListener
  <2>2. Elements(backlog') = {} /\ Distinct(backlog')
    BY <2>1, EmptyElements
  <2> QED
    BY <1>t, <2>1, <2>2 DEF PlaceInv
<1>12. ASSUME NEW w \in Workers, Take(w) PROVE PlaceInv'
  <2> DEFINE c == Head(queue)
  <2>1. /\ at[w] = "idle" /\ at' = [at EXCEPT ![w] = "read"]
        /\ conn' = [conn EXCEPT ![w] = c]
        /\ queue # <<>> /\ queue' = Tail(queue)
        /\ UNCHANGED <<main, hand, net, backlog>>
    BY <1>12 DEF Take, Pool!Dequeue
  <2>2. /\ c \in Connections /\ c \in Elements(queue) /\ queue' \in Seq(Connections)
        /\ Elements(queue') = Elements(queue) \ {c}
        /\ Distinct(queue')
    BY <1>t, <2>1, TailElements DEF PlaceInv
  <2> HIDE DEF c
  <2>3. conn[w] = NoOne /\ c # hand /\ \A v \in Workers : conn[v] # c
    BY <2>1, <2>2 DEF PlaceInv, BusyPcs
  <2>4. conn'[w] = c /\ \A v \in Workers \ {w} : conn'[v] = conn[v]
    BY <1>t, <2>1
  <2>5. at'[w] \in BusyPcs /\ \A v \in Workers \ {w} : at'[v] = at[v]
    BY <1>t, <2>1 DEF BusyPcs
  <2>6. \A d \in Connections :
          (\E v \in Workers : conn'[v] = d) <=> d = c \/ \E v \in Workers : conn[v] = d
    BY <2>2, <2>3, <2>4
  <2>7. \A d \in Connections : net[d] = "accepted" <=>
          \/ d = hand \/ d \in Elements(queue) \/ \E v \in Workers : conn[v] = d
    BY DEF PlaceInv
  <2>8. \A d \in Connections : net[d] = "accepted" <=>
          \/ d = hand \/ d \in Elements(queue') \/ \E v \in Workers : conn'[v] = d
    BY <2>2, <2>6, <2>7
  <2> QED
    BY <2>1, <2>2, <2>3, <2>4, <2>5, <2>8 DEF PlaceInv
<1>13. ASSUME NEW w \in Workers, CloseFd(w) PROVE PlaceInv'
  <2> DEFINE c == conn[w]
  <2>1. /\ at[w] = "close" /\ at' = [at EXCEPT ![w] = "idle"]
        /\ conn' = [conn EXCEPT ![w] = NoOne]
        /\ net' = [net EXCEPT ![c] = "closed"]
        /\ UNCHANGED <<main, hand, queue, backlog>>
    BY <1>13 DEF CloseFd, Pool!Finish
  <2>2. c \in Connections
    BY <2>1, BusyHasConnection DEF BusyPcs
  <2>3. /\ c # hand /\ c \notin Elements(queue) /\ net[c] = "accepted"
        /\ c \notin Elements(backlog)
        /\ \A v \in Workers \ {w} : conn[v] # c
    BY <2>2 DEF PlaceInv
  <2>4. conn'[w] = NoOne /\ \A v \in Workers \ {w} : conn'[v] = conn[v]
    BY <1>t, <2>1
  <2>5. at'[w] \notin BusyPcs /\ \A v \in Workers \ {w} : at'[v] = at[v]
    BY <1>t, <2>1 DEF BusyPcs
  <2>6. net'[c] = "closed" /\ \A d \in Connections \ {c} : net'[d] = net[d]
    BY <1>t, <2>1, <2>2
  <2>7. \A d \in Connections \ {c} :
          (\E v \in Workers : conn'[v] = d) <=> \E v \in Workers : conn[v] = d
    BY <2>4
  <2>8. \A v \in Workers : conn'[v] # c
    BY <2>2, <2>3, <2>4
  <2> HIDE DEF c
  <2>9. \A d \in Connections : net'[d] = "accepted" <=>
          \/ d = hand \/ d \in Elements(queue) \/ \E v \in Workers : conn'[v] = d
    BY <2>2, <2>3, <2>6, <2>7, <2>8 DEF PlaceInv
  <2>10. \A d \in Connections : net'[d] = "backlog" <=> d \in Elements(backlog)
    BY <2>2, <2>3, <2>6 DEF PlaceInv
  <2> QED
    BY <2>1, <2>4, <2>5, <2>9, <2>10 DEF PlaceInv
<1>14. ASSUME NEW c \in Connections, Connect(c) PROVE PlaceInv'
  <2>1. /\ net[c] = "new" /\ net' = [net EXCEPT ![c] = "backlog"]
        /\ backlog' = Append(backlog, c)
        /\ UNCHANGED <<main, hand, at, conn, queue>>
    BY <1>14 DEF Connect
  <2>2. c \notin Elements(backlog) /\ Distinct(backlog)
    BY <2>1 DEF PlaceInv
  <2>3. Elements(backlog') = Elements(backlog) \cup {c} /\ Distinct(backlog')
    BY <1>t, <2>1, <2>2, AppendElements
  <2> QED
    BY <1>t, <2>1, <2>2, <2>3 DEF PlaceInv
<1> QED
  BY <1>1, <1>2, <1>3, <1>4, <1>5, <1>6, <1>7, <1>8, <1>9, <1>10, <1>11, <1>12, <1>13,
     <1>14
     DEF Next, MainStep, WorkerStep

-----------------------------------------------------------------------------
(* Replies.                                                                *)

\* The connection of a worker that has not replied yet has got no reply.
LEMMA NoReplyYet ==
  ASSUME TypeInv, PlaceInv, ReplyInv, NEW w \in Workers,
         at[w] \in {"read", "execute", "send"}
  PROVE  /\ conn[w] \in Connections /\ net[conn[w]] = "accepted"
         /\ replies[conn[w]] = <<>>
<1>1. conn[w] \in Connections
  BY BusyHasConnection DEF BusyPcs
<1>2. net[conn[w]] = "accepted"
  BY <1>1 DEF PlaceInv
<1>3. \A v \in Workers : conn[v] = conn[w] => v = w
  BY <1>1 DEF PlaceInv
<1>4. ~\E v \in Workers : conn[v] = conn[w] /\ at[v] = "close"
  BY <1>3
<1> QED
  BY <1>1, <1>2, <1>4, Zenon DEF ReplyInv, RepliedIsOver

\* RepliedIsOver lasts while no reply is sent and the closing workers stay there.
LEMMA RepliedIsOverKept ==
  ASSUME RepliedIsOver, replies' = replies,
         \A c \in Connections : net[c] = "closed" => net'[c] = "closed",
         \A w \in Workers : at[w] = "close" => at'[w] = "close" /\ conn'[w] = conn[w]
  PROVE  RepliedIsOver'
<1> SUFFICES ASSUME NEW c \in Connections, replies'[c] # <<>>
             PROVE  net'[c] = "closed" \/ \E w \in Workers : conn'[w] = c /\ at'[w] = "close"
  BY DEF RepliedIsOver
<1>1. replies[c] # <<>>
  OBVIOUS
<1>2. net[c] = "closed" \/ \E w \in Workers : conn[w] = c /\ at[w] = "close"
  BY <1>1, Zenon DEF RepliedIsOver
<1> QED
  BY <1>2

\* A step that sends no reply, takes and closes no connection keeps ReplyInv.
LEMMA RepliesKept ==
  ASSUME TypeInv, PlaceInv, ReplyInv, UNCHANGED <<replies, conn>>, gone \subseteq gone',
         \A c \in Connections : net'[c] = "closed" <=> net[c] = "closed",
         \A c \in Connections : sent[c] # "" => sent'[c] # "",
         \A w \in Workers : at'[w] = "close" <=> at[w] = "close",
         \A w \in Workers : at'[w] \in LatePcs => at[w] \in LatePcs
  PROVE  ReplyInv'
<1>1. \A w \in Workers : at[w] \in LatePcs => conn[w] \in Connections
  BY BusyHasConnection DEF BusyPcs, LatePcs
<1>2. \A w \in Workers : at'[w] = "close" => at'[w] \in LatePcs
  BY DEF LatePcs
<1>3. RepliedIsOver'
  BY RepliedIsOverKept DEF ReplyInv
<1>4. CloserReplied' /\ ClosedGotReply'
  BY Zenon DEF ReplyInv, CloserReplied, ClosedGotReply
<1>5. RequestWasRead'
  BY <1>1 DEF ReplyInv, RequestWasRead
<1> QED
  BY <1>3, <1>4, <1>5 DEF ReplyInv

\* Every step keeps ReplyInv.
LEMMA ReplyNext == TypeInv /\ MainInv /\ PlaceInv /\ ReplyInv /\ [Next]_vars => ReplyInv'
<1> SUFFICES ASSUME TypeInv, MainInv, PlaceInv, ReplyInv, [Next]_vars PROVE ReplyInv'
  OBVIOUS
<1>t. /\ at \in [Workers -> BusyPcs \cup {"unborn", "idle", "exited"}]
      /\ conn \in [Workers -> Connections \cup {NoOne}]
      /\ net \in [Connections -> {"new", "backlog", "accepted", "closed", "reset"}]
      /\ sent \in [Connections -> Requests \cup {""}]
      /\ replies \in [Connections -> Seq(ReplyType)]
      /\ backlog \in Seq(Connections) /\ queue \in Seq(Connections)
  BY DEF TypeInv
<1> USE DEF mainVars, workerVars, clientVars, queueVars, tableVars
<1>1. CASE OpenDb \/ Listen \/ TestStop \/ AcceptError \/ Submit \/ StopPool \/ JoinWorkers
           \/ DestroyDb
  BY <1>1, RepliesKept
     DEF OpenDb, Listen, TestStop, AcceptError, Submit, StopPool, JoinWorkers, DestroyDb
<1>2. CASE StartPool
  <2>1. \A w \in Workers : at[w] \notin LatePcs /\ at'[w] \notin LatePcs
    BY <1>2 DEF StartPool, MainInv, LatePcs
  <2>2. UNCHANGED <<replies, conn, gone, net, sent>>
    BY <1>2 DEF StartPool
  <2>3. \A w \in Workers : at'[w] = "close" <=> at[w] = "close"
    BY <2>1 DEF LatePcs
  <2> QED
    BY <2>1, <2>2, <2>3, RepliesKept
<1>3. CASE Accept
  <2>1. Head(backlog) \in Elements(backlog) /\ Head(backlog) \in Connections
    BY <1>t, <1>3, TailElements DEF Accept, PlaceInv
  <2>2. net[Head(backlog)] = "backlog"
    BY <2>1 DEF PlaceInv
  <2>3. \A c \in Connections : net'[c] = "closed" <=> net[c] = "closed"
    BY <1>t, <1>3, <2>1, <2>2 DEF Accept
  <2> QED
    BY <1>3, <2>3, RepliesKept DEF Accept
<1>4. CASE CloseListener
  <2>1. \A c \in Connections : net'[c] = "closed" <=> net[c] = "closed"
    BY <1>4 DEF CloseListener
  <2> QED
    BY <1>4, <2>1, RepliesKept DEF CloseListener
<1>5. ASSUME NEW t \in Workers \cup {Main}, Signal(t) PROVE ReplyInv'
  BY <1>5, RepliesKept DEF Signal
<1>6. ASSUME NEW w \in Workers, Exit(w) \/ TakeEffect(w) \/ Executed(w) PROVE ReplyInv'
  <2>1. UNCHANGED <<replies, conn, gone, net, sent>>
    BY <1>6 DEF Exit, TakeEffect, Executed
  <2>2. \A v \in Workers : /\ at'[v] = "close" <=> at[v] = "close"
                           /\ at'[v] \in LatePcs => at[v] \in LatePcs
    BY <1>t, <1>6 DEF Exit, TakeEffect, Executed, AfterResult, LatePcs
  <2> QED
    BY <2>1, <2>2, RepliesKept
<1>7. ASSUME NEW c \in Connections, Connect(c) \/ SendRequest(c) \/ Leave(c)
      PROVE  ReplyInv'
  <2>1. UNCHANGED <<replies, conn, at>> /\ gone \subseteq gone'
    BY <1>7 DEF Connect, SendRequest, Leave
  <2>2. \A d \in Connections : net'[d] = "closed" <=> net[d] = "closed"
    BY <1>t, <1>7 DEF Connect, SendRequest, Leave
  <2>3. \A d \in Connections : sent[d] # "" => sent'[d] # ""
    BY <1>t, <1>7 DEF Connect, SendRequest, Leave
  <2> QED
    BY <2>1, <2>2, <2>3, RepliesKept
<1>8. CASE UNCHANGED vars
  BY <1>8, RepliesKept DEF vars
<1>9. ASSUME NEW w \in Workers, Take(w) PROVE ReplyInv'
  <2>1. /\ at[w] = "idle" /\ at'[w] = "read"
        /\ \A v \in Workers \ {w} : at'[v] = at[v] /\ conn'[v] = conn[v]
        /\ UNCHANGED <<replies, gone, net, sent>>
    BY <1>t, <1>9 DEF Take
  <2>2. RepliedIsOver'
    <3>1. \A v \in Workers : at[v] = "close" => at'[v] = "close" /\ conn'[v] = conn[v]
      BY <2>1
    <3> QED
      BY <2>1, <3>1, RepliedIsOverKept DEF ReplyInv
  <2>3. CloserReplied' /\ ClosedGotReply'
    <3>1. \A v \in Workers : at'[v] = "close" => at[v] = "close" /\ conn'[v] = conn[v]
      BY <2>1
    <3> QED
      BY <2>1, <3>1 DEF ReplyInv, CloserReplied, ClosedGotReply
  <2>4. RequestWasRead'
    BY <2>1 DEF ReplyInv, RequestWasRead, LatePcs
  <2> QED
    BY <2>2, <2>3, <2>4 DEF ReplyInv
<1>10. ASSUME NEW w \in Workers, Read(w) PROVE ReplyInv'
  <2>1. /\ at[w] = "read" /\ at'[w] \in {"execute", "send"}
        /\ \A v \in Workers \ {w} : at'[v] = at[v]
        /\ UNCHANGED <<replies, gone, net, sent, conn>>
    BY <1>t, <1>10 DEF Read
  <2>2. sent[conn[w]] # "" \/ conn[w] \in gone
    BY <1>10 DEF Read, Unreadable
  <2>a. \A v \in Workers : at'[v] = "close" <=> at[v] = "close"
    BY <2>1
  <2>3. RepliedIsOver'
    BY <2>1, <2>a, RepliedIsOverKept DEF ReplyInv
  <2>4. CloserReplied' /\ ClosedGotReply'
    BY <2>1, <2>a, Zenon DEF ReplyInv, CloserReplied, ClosedGotReply
  <2>5. RequestWasRead'
    BY <2>1, <2>2 DEF ReplyInv, RequestWasRead, LatePcs
  <2> QED
    BY <2>3, <2>4, <2>5 DEF ReplyInv
<1>11. ASSUME NEW w \in Workers, Reply(w) PROVE ReplyInv'
  <2> DEFINE c == conn[w]
  <2>1. /\ at[w] = "send" /\ at'[w] = "close"
        /\ \A v \in Workers \ {w} : at'[v] = at[v]
        /\ UNCHANGED <<gone, net, sent, conn>>
    BY <1>t, <1>11 DEF Reply
  <2>2. c \in Connections /\ net[c] = "accepted" /\ replies[c] = <<>>
    BY <2>1, NoReplyYet
  <2>3. \A v \in Workers \ {w} : conn[v] # c
    BY <2>2 DEF PlaceInv
  <2>4. \A d \in Connections \ {c} : replies'[d] = replies[d]
    BY <1>t, <1>11 DEF Reply
  <2>5. c \notin gone => Len(replies'[c]) = 1
    <3>1. SUFFICES ASSUME c \notin gone PROVE Len(replies'[c]) = 1
      OBVIOUS
    <3>a. PICK s : replies' = [replies EXCEPT ![c] =
                                 Append(@, [answer[w] EXCEPT !.status = s])]
      BY <1>11, <3>1 DEF Reply
    <3>2. replies'[c] = Append(replies[c], [answer[w] EXCEPT !.status = s])
      BY <1>t, <2>2, <3>a
    <3>3. Len(Append(<<>>, [answer[w] EXCEPT !.status = s])) = 1
      OBVIOUS
    <3> QED
      BY <2>2, <3>2, <3>3
  <2>6. sent[c] # "" \/ c \in gone
    BY <2>1 DEF ReplyInv, RequestWasRead, LatePcs
  <2> HIDE DEF c
  <2>7. conn[w] = c
    BY DEF c
  <2>a. \A v \in Workers : at[v] \in LatePcs => conn[v] \in Connections
    BY BusyHasConnection DEF BusyPcs, LatePcs
  <2>b. RepliedIsOver'
    <3> SUFFICES ASSUME NEW d \in Connections, replies'[d] # <<>>
                 PROVE  net'[d] = "closed" \/ \E v \in Workers : conn'[v] = d /\ at'[v] = "close"
      BY DEF RepliedIsOver
    <3>1. CASE d = c
      BY <2>1, <2>7, <3>1
    <3>2. CASE d # c
      <4>1. net[d] = "closed" \/ \E v \in Workers : conn[v] = d /\ at[v] = "close"
        BY <2>4, <3>2, Zenon DEF ReplyInv, RepliedIsOver
      <4>2. \A v \in Workers : conn[v] = d => v # w
        BY <2>7, <3>2
      <4> QED
        BY <2>1, <4>1, <4>2
    <3> QED
      BY <3>1, <3>2
  <2>c. CloserReplied'
    <3> SUFFICES ASSUME NEW v \in Workers, at'[v] = "close", conn[v] \notin gone
                 PROVE  Len(replies'[conn[v]]) = 1
      BY <2>1 DEF CloserReplied
    <3>1. CASE v = w
      BY <2>5, <2>7, <3>1
    <3>2. CASE v # w
      <4>1. at[v] = "close" /\ conn[v] \in Connections \ {c}
        BY <2>1, <2>3, <2>a, <3>2 DEF LatePcs
      <4>2. replies'[conn[v]] = replies[conn[v]]
        BY <2>4, <4>1
      <4> QED
        BY <4>1, <4>2 DEF ReplyInv, CloserReplied
    <3> QED
      BY <3>1, <3>2
  <2>d. ClosedGotReply'
    <3> SUFFICES ASSUME NEW d \in Connections, net[d] = "closed", d \notin gone
                 PROVE  Len(replies'[d]) = 1
      BY <2>1 DEF ClosedGotReply
    <3>1. replies'[d] = replies[d]
      BY <2>2, <2>4
    <3> QED
      BY <3>1 DEF ReplyInv, ClosedGotReply
  <2>e. RequestWasRead'
    BY <2>1, <2>6, <2>7 DEF ReplyInv, RequestWasRead, LatePcs
  <2> QED
    BY <2>b, <2>c, <2>d, <2>e DEF ReplyInv
<1>12. ASSUME NEW w \in Workers, CloseFd(w) PROVE ReplyInv'
  <2> DEFINE c == conn[w]
  <2>1. /\ at[w] = "close" /\ at'[w] = "idle" /\ conn'[w] = NoOne
        /\ \A v \in Workers \ {w} : at'[v] = at[v] /\ conn'[v] = conn[v]
        /\ UNCHANGED <<gone, sent, replies>>
    BY <1>t, <1>12 DEF CloseFd
  <2>2. c \in Connections
    BY <2>1, BusyHasConnection DEF BusyPcs
  <2>3. net'[c] = "closed" /\ \A d \in Connections \ {c} : net'[d] = net[d]
    BY <1>t, <1>12, <2>2 DEF CloseFd
  <2>4. c \notin gone => Len(replies[c]) = 1
    BY <2>1 DEF ReplyInv, CloserReplied
  <2> HIDE DEF c
  <2>7. conn[w] = c
    BY DEF c
  <2>b. RepliedIsOver'
    <3> SUFFICES ASSUME NEW d \in Connections, d # c, replies[d] # <<>>
                 PROVE  net'[d] = "closed" \/ \E v \in Workers : conn'[v] = d /\ at'[v] = "close"
      BY <2>1, <2>3 DEF RepliedIsOver
    <3>1. net[d] = "closed" \/ \E v \in Workers : conn[v] = d /\ at[v] = "close"
      BY Zenon DEF ReplyInv, RepliedIsOver
    <3>2. \A v \in Workers : conn[v] = d => v # w
      BY <2>7
    <3> QED
      BY <2>1, <2>3, <3>1, <3>2
  <2>c. CloserReplied'
    <3>1. \A v \in Workers : at'[v] = "close" => at[v] = "close" /\ conn'[v] = conn[v]
      BY <2>1
    <3> QED
      BY <2>1, <3>1 DEF ReplyInv, CloserReplied
  <2>d. ClosedGotReply'
    BY <2>1, <2>3, <2>4 DEF ReplyInv, ClosedGotReply
  <2>e. RequestWasRead'
    BY <2>1 DEF ReplyInv, RequestWasRead, LatePcs
  <2> QED
    BY <2>b, <2>c, <2>d, <2>e DEF ReplyInv
<1> QED
  BY <1>1, <1>2, <1>3, <1>4, <1>5, <1>6, <1>7, <1>8, <1>9, <1>10, <1>11, <1>12
     DEF Next, MainStep, WorkerStep

-----------------------------------------------------------------------------
(* Rows and what is said about them.                                       *)

\* The rows of a connection depend on the table alone.
LEMMA SameRows == ASSUME table' = table PROVE \A c : RowsOf(c)' = RowsOf(c)
  BY DEF RowsOf

\* A row that is appended is a row of its connection and of no other.
LEMMA OneMoreRow ==
  ASSUME table \in Seq(Row), NEW r \in Row, table' = Append(table, r)
  PROVE  \A c \in Connections :
           RowsOf(c)' = IF c = r.name THEN RowsOf(c) \cup {Len(table) + 1} ELSE RowsOf(c)
<1> DEFINE n == Len(table)
<1>1. /\ n \in Nat /\ Len(table') = n + 1 /\ table'[n + 1] = r
      /\ \A i \in 1..n : table'[i] = table[i]
  BY AppendProperties, LenProperties
<1> HIDE DEF n
<1>2. \A c : RowsOf(c)' = {i \in 1..n + 1 : table'[i].name = c}
  BY <1>1 DEF RowsOf
<1>3. \A c : RowsOf(c) = {i \in 1..n : table[i].name = c}
  BY DEF RowsOf, n
<1>4. 1..n + 1 = (1..n) \cup {n + 1}
  BY <1>1
<1>5. ASSUME NEW c \in Connections
      PROVE  RowsOf(c)' = IF c = r.name THEN RowsOf(c) \cup {n + 1} ELSE RowsOf(c)
  <2>1. \A i \in 1..n : i \in RowsOf(c)' <=> i \in RowsOf(c)
    BY <1>1, <1>2, <1>3, <1>4
  <2>2. n + 1 \in RowsOf(c)' <=> c = r.name
    BY <1>1, <1>2, <1>4
  <2>3. RowsOf(c)' \subseteq (1..n) \cup {n + 1}
    BY <1>2, <1>4
  <2>4. RowsOf(c) \subseteq 1..n
    BY <1>3
  <2>5. n + 1 \notin 1..n
    BY <1>1
  <2>6. CASE c = r.name
    <3>1. RowsOf(c)' \subseteq RowsOf(c) \cup {n + 1}
      BY <2>1, <2>3
    <3>2. RowsOf(c) \cup {n + 1} \subseteq RowsOf(c)'
      BY <2>1, <2>2, <2>4, <2>6
    <3> QED
      BY <2>6, <3>1, <3>2
  <2>7. CASE c # r.name
    <3>1. RowsOf(c)' \subseteq RowsOf(c)
      BY <2>1, <2>2, <2>3, <2>7
    <3>2. RowsOf(c) \subseteq RowsOf(c)'
      BY <2>1, <2>4
    <3> QED
      BY <2>7, <3>1, <3>2
  <2> QED
    BY <2>6, <2>7
<1> QED
  BY <1>5 DEF n

\* A step that inserts nothing and that no client takes part in keeps RowInv, if
\* late workers stay late until their connection is closed.
LEMMA RowsKept ==
  ASSUME RowInv, UNCHANGED <<table, sent, known, replies>>,
         \A c \in Connections : net[c] = "closed" => net'[c] = "closed",
         \A w \in Workers : at[w] \in LatePcs =>
           \/ at'[w] \in LatePcs /\ conn'[w] = conn[w]
           \/ net'[conn[w]] = "closed"
  PROVE  RowInv'
<1> USE DEF RowInv
<1>1. OneRowEach' /\ KnownAreThere'
  BY SameRows DEF OneRowEach, KnownAreThere
<1>2. RowsComeFromInserts'
  BY SameRows DEF RowsComeFromInserts
<1>3. RepliesAreTruthful'
  BY SameRows DEF RepliesAreTruthful, Truthful, Covers
<1> QED
  BY <1>1, <1>2, <1>3

\* A step that leaves every executing and every sending worker alone keeps
\* WorkerInv.
LEMMA WorkersKept ==
  ASSUME TypeInv, PlaceInv, WorkerInv,
         UNCHANGED <<table, sent, known, request, tphase, effect>>,
         \A w \in Workers : at'[w] \in {"execute", "send"} =>
           at'[w] = at[w] /\ conn'[w] = conn[w] /\ answer'[w] = answer[w]
  PROVE  WorkerInv'
<1> USE DEF WorkerInv
<1>1. StatementsFollow'
  BY SameRows DEF StatementsFollow, Statement, Query, Covers
<1>2. AnswersAreTruthful'
  BY SameRows DEF AnswersAreTruthful, Truthful, Covers
<1> QED
  BY <1>1, <1>2

\* No row exists yet for a connection whose statement is not executed yet.
LEMMA NoRowYet ==
  ASSUME TypeInv, PlaceInv, RowInv, NEW w \in Workers, at[w] = "read"
  PROVE  RowsOf(conn[w]) = {}
<1>1. conn[w] \in Connections
  BY BusyHasConnection DEF BusyPcs
<1>2. net[conn[w]] = "accepted" /\ \A v \in Workers : conn[v] = conn[w] => v = w
  BY <1>1 DEF PlaceInv
<1> QED
  BY <1>1, <1>2 DEF RowInv, RowsComeFromInserts, LatePcs

\* The table that holds a row of every connection in D covers D.
LEMMA TableCovers ==
  ASSUME table \in Seq(Row), NEW D, \A d \in D : RowsOf(d) # {}
  PROVE  Covers(table, D)
<1>1. DOMAIN table = 1..Len(table)
  BY LenProperties
<1> QED
  BY <1>1 DEF Covers, RowsOf

\* The engine's step for a worker keeps RowInv and WorkerInv: an INSERT adds the
\* first and only row of its connection, a SELECT sees every row that was
\* acknowledged before it was sent.
LEMMA EffectKeepsRows ==
  ASSUME TypeInv, TypeInv', PlaceInv, ReplyInv, RowInv, WorkerInv,
         NEW w \in Workers, TakeEffect(w)
  PROVE  RowInv' /\ WorkerInv'
<1>1. /\ at[w] = "execute"
      /\ UNCHANGED <<at, conn, answer, net, sent, gone, known, replies>>
  BY DEF TakeEffect, workerVars, clientVars
<1>e. PICK c \in Connections : c = conn[w]
  BY <1>1, BusyHasConnection DEF BusyPcs
<1>2. c \in Connections /\ net[c] = "accepted" /\ replies[c] = <<>>
  BY <1>1, <1>e, NoReplyYet
<1>3. Statement(w, c)
  BY <1>1, <1>e DEF WorkerInv, StatementsFollow
<1>4. \A v \in Workers \ {w} : conn[v] # c
  BY <1>2, <1>e DEF PlaceInv
<1>5. /\ tphase \in [Workers -> {"idle", "called", "applied", "answered"}]
      /\ DOMAIN effect = Workers /\ table \in Seq(Row)
  BY DEF TypeInv
<1>6. \A v \in Workers : at[v] \in {"execute", "send"} => conn[v] \in Connections
  BY BusyHasConnection DEF BusyPcs
<1>7. CASE Users!Evaluate(w)
  <2>1. /\ tphase[w] = "called" /\ request[w] = [filter |-> "all"]
        /\ tphase' = [tphase EXCEPT ![w] = "answered"]
        /\ effect' = [effect EXCEPT ![w] = table]
        /\ UNCHANGED <<table, request>>
    BY <1>7 DEF Users!Evaluate, Selects, Answer
  <2>2. sent[c] = "select"
    BY <1>2, <1>3, <2>1, StatementsDiffer DEF Statement, Query
  <2>3. Covers(table, known[c])
    BY <1>2, <1>5, TableCovers DEF RowInv, KnownAreThere
  <2>4. RowInv'
    BY <1>1, <2>1, RowsKept
  <2>5. StatementsFollow'
    <3> SUFFICES ASSUME NEW v \in Workers, at[v] = "execute" PROVE Statement(v, conn[v])'
      BY <1>1 DEF StatementsFollow
    <3>1. CASE v = w
      <4>1. tphase'[w] = "answered" /\ effect'[w] = table
        BY <1>5, <2>1
      <4>2. request'[w] = request[w] /\ sent' = sent /\ known' = known /\ conn' = conn
        BY <1>1, <2>1
      <4> QED
        BY <1>3, <1>e, <2>2, <2>3, <3>1, <4>1, <4>2 DEF Statement, Query, Covers
    <3>2. CASE v # w
      <4>1. tphase'[v] = tphase[v] /\ effect'[v] = effect[v] /\ request' = request
        BY <1>5, <2>1, <3>2
      <4>2. Statement(v, conn[v])
        BY DEF WorkerInv, StatementsFollow
      <4> QED
        BY <1>1, <2>1, <4>1, <4>2, SameRows DEF Statement, Query, Covers
    <3> QED
      BY <3>1, <3>2
  <2>6. AnswersAreTruthful'
    BY <1>1, <2>1, SameRows DEF WorkerInv, AnswersAreTruthful, Truthful, Covers
  <2> QED
    BY <2>4, <2>5, <2>6 DEF WorkerInv
<1>8. CASE ~Users!Evaluate(w)
  <2> DEFINE r == effect'[w]
  <2>1. /\ request[w] \in Inserts /\ Users!Apply(w)
        /\ effect' = [effect EXCEPT ![w] =
                        [id |-> Len(table) + 1, name |-> request[w].name, age |-> 0]]
    BY <1>8 DEF TakeEffect
  <2>2. /\ tphase[w] = "called" /\ table' = Append(table, r) /\ request' = request
        /\ tphase' = [tphase EXCEPT ![w] = "applied"]
    BY <2>1 DEF Users!Apply
  <2>3. sent[c] = "insert" /\ request[w] = Insert(c)
    BY <1>2, <1>3, <2>1, StatementsDiffer DEF Statement, Query, Inserts
  <2>4. r \in Row /\ r.name = c
    <3>1. tphase'[w] = "applied"
      BY <1>5, <2>2
    <3>2. r \in Row
      BY <3>1 DEF TypeInv
    <3>3. r.name = request[w].name
      BY <1>5, <2>1
    <3> QED
      BY <2>3, <3>2, <3>3 DEF Insert
  <2> HIDE DEF r
  <2>5. RowsOf(c) = {}
    BY <1>3, <2>2 DEF Statement
  <2>6. \A d \in Connections :
          RowsOf(d)' = IF d = r.name THEN RowsOf(d) \cup {Len(table) + 1} ELSE RowsOf(d)
    BY <1>5, <2>2, <2>4, OneMoreRow
  <2>7. RowsOf(c)' = {Len(table) + 1} /\ \A d \in Connections \ {c} : RowsOf(d)' = RowsOf(d)
    BY <1>2, <2>4, <2>5, <2>6
  <2>8. OneRowEach'
    BY <2>7 DEF RowInv, OneRowEach
  <2>9. RowsComeFromInserts'
    BY <1>1, <1>e, <2>3, <2>7 DEF RowInv, RowsComeFromInserts, LatePcs
  <2>10. KnownAreThere'
    <3> SUFFICES ASSUME NEW d \in Connections, NEW e \in known[d] PROVE RowsOf(e)' # {}
      BY <1>1 DEF KnownAreThere
    <3>1. e \in Connections /\ RowsOf(e) # {}
      BY DEF TypeInv, RowInv, KnownAreThere
    <3> QED
      BY <2>7, <3>1
  <2>11. RepliesAreTruthful'
    <3> SUFFICES ASSUME NEW d \in Connections, NEW i \in DOMAIN replies[d]
                 PROVE  Truthful(d, replies[d][i].status, replies[d][i].rows)'
      BY <1>1 DEF RepliesAreTruthful
    <3>1. DOMAIN replies[c] = {}
      BY <1>2
    <3>2. d # c
      BY <3>1
    <3>3. Truthful(d, replies[d][i].status, replies[d][i].rows)
      BY DEF RowInv, RepliesAreTruthful
    <3> QED
      BY <1>1, <2>7, <3>2, <3>3 DEF Truthful, Covers
  <2>12. StatementsFollow'
    <3> SUFFICES ASSUME NEW v \in Workers, at[v] = "execute" PROVE Statement(v, conn[v])'
      BY <1>1 DEF StatementsFollow
    <3>1. CASE v = w
      <4>1. tphase'[w] = "applied"
        BY <1>5, <2>2
      <4>2. request'[w] = request[w] /\ sent' = sent /\ conn' = conn
        BY <1>1, <2>2
      <4> QED
        BY <1>3, <1>e, <2>3, <2>7, <3>1, <4>1, <4>2 DEF Statement, Query
    <3>2. CASE v # w
      <4>1. tphase'[v] = tphase[v] /\ effect'[v] = effect[v] /\ request' = request
        BY <1>5, <2>1, <2>2, <3>2
      <4>2. Statement(v, conn[v]) /\ conn[v] \in Connections \ {c}
        BY <1>4, <1>6, <3>2 DEF WorkerInv, StatementsFollow
      <4>3. RowsOf(conn[v])' = RowsOf(conn[v])
        BY <1>1, <2>7, <4>2
      <4> QED
        BY <1>1, <4>1, <4>2, <4>3 DEF Statement, Query, Covers
    <3> QED
      BY <3>1, <3>2
  <2>13. AnswersAreTruthful'
    <3> SUFFICES ASSUME NEW v \in Workers, at[v] = "send"
                 PROVE  Truthful(conn[v], answer[v].status, answer[v].rows)'
      BY <1>1 DEF AnswersAreTruthful
    <3>1. v # w
      BY <1>1
    <3>2. /\ Truthful(conn[v], answer[v].status, answer[v].rows)
          /\ conn[v] \in Connections \ {c}
      BY <1>4, <1>6, <3>1 DEF WorkerInv, AnswersAreTruthful
    <3>3. RowsOf(conn[v])' = RowsOf(conn[v])
      BY <1>1, <2>7, <3>2
    <3> QED
      BY <1>1, <3>2, <3>3 DEF Truthful, Covers
  <2> QED
    BY <2>8, <2>9, <2>10, <2>11, <2>12, <2>13 DEF RowInv, WorkerInv
<1> QED
  BY <1>7, <1>8

\* http_read_request and the routing keep RowInv and WorkerInv.
LEMMA ReadKeepsRows ==
  ASSUME TypeInv, PlaceInv, RowInv, WorkerInv, NEW w \in Workers, Read(w)
  PROVE  RowInv' /\ WorkerInv'
<1>t. /\ at \in [Workers -> BusyPcs \cup {"unborn", "idle", "exited"}]
      /\ answer \in [Workers -> ReplyType]
      /\ tphase \in [Workers -> {"idle", "called", "applied", "answered"}]
      /\ request \in [Workers -> Inserts \cup Selects \cup {<<>>}]
      /\ DOMAIN effect = Workers
  BY DEF TypeInv
<1>1. at[w] = "read" /\ UNCHANGED <<conn, net, sent, gone, known, replies>>
  BY DEF Read, clientVars
<1>e. PICK c \in Connections : c = conn[w]
  BY <1>1, BusyHasConnection DEF BusyPcs
<1>2. RowsOf(c) = {}
  BY <1>1, <1>e, NoRowYet
<1>3. table' = table
  BY DEF Read, Users!TableCall, tableVars
<1>4. /\ at'[w] \in {"execute", "send"} /\ \A v \in Workers \ {w} : at'[v] = at[v]
      /\ \A v \in Workers \ {w} : answer'[v] = answer[v]
  BY <1>t DEF Read
<1>5. RowInv'
  <2>1. \A v \in Workers : at[v] \in LatePcs => at'[v] \in LatePcs
    BY <1>1, <1>4 DEF LatePcs
  <2> QED
    BY <1>1, <1>3, <2>1, RowsKept
<1>6. \A v \in Workers \ {w} :
        tphase'[v] = tphase[v] /\ request'[v] = request[v] /\ effect'[v] = effect[v]
  <2>1. CASE Users!TableCall(w)
    BY <1>t, <2>1 DEF Users!TableCall
  <2>2. CASE UNCHANGED tableVars
    BY <2>2 DEF tableVars
  <2> QED
    BY <2>1, <2>2 DEF Read
<1>7. StatementsFollow'
  <2> SUFFICES ASSUME NEW v \in Workers, at'[v] = "execute" PROVE Statement(v, conn[v])'
    BY DEF StatementsFollow
  <2>1. CASE v = w
    <3>1. /\ sent[c] \in {"insert", "select"} /\ request'[w] = Query(c)
          /\ Users!TableCall(w)
      BY <1>t, <1>e, <2>1 DEF Read
    <3>2. tphase'[w] = "called"
      BY <1>t, <3>1 DEF Users!TableCall
    <3> QED
      BY <1>1, <1>e, <1>2, <1>3, <2>1, <3>1, <3>2, SameRows DEF Statement, Query
  <2>2. CASE v # w
    <3>1. Statement(v, conn[v])
      BY <1>4, <2>2 DEF WorkerInv, StatementsFollow
    <3> QED
      BY <1>1, <1>3, <1>6, <2>2, <3>1, SameRows DEF Statement, Query, Covers
  <2> QED
    BY <2>1, <2>2
<1>8. AnswersAreTruthful'
  <2> SUFFICES ASSUME NEW v \in Workers, at'[v] = "send"
               PROVE  Truthful(conn[v], answer[v].status, answer[v].rows)'
    BY DEF AnswersAreTruthful
  <2>1. CASE v = w
    <3>1. \/ sent[c] \notin {"insert", "select"}
          \/ answer'[w] = Status("refused")
      BY <1>t, <1>e, <2>1 DEF Read
    <3>2. answer'[w].status = "refused" \/ sent[c] \notin {"insert", "select"}
      BY <3>1 DEF Status
    <3> QED
      BY <1>1, <1>e, <1>2, <1>3, <2>1, <3>2, SameRows DEF Truthful
  <2>2. CASE v # w
    <3>1. Truthful(conn[v], answer[v].status, answer[v].rows)
      BY <1>4, <2>2 DEF WorkerInv, AnswersAreTruthful
    <3> QED
      BY <1>1, <1>3, <1>4, <2>2, <3>1, SameRows DEF Truthful, Covers
  <2> QED
    BY <2>1, <2>2
<1> QED
  BY <1>5, <1>7, <1>8 DEF WorkerInv

\* The result that comes back from the engine becomes a truthful answer.
LEMMA ResultKeepsRows ==
  ASSUME TypeInv, PlaceInv, RowInv, WorkerInv, NEW w \in Workers, Executed(w)
  PROVE  RowInv' /\ WorkerInv'
<1>t. /\ at \in [Workers -> BusyPcs \cup {"unborn", "idle", "exited"}]
      /\ answer \in [Workers -> ReplyType]
      /\ tphase \in [Workers -> {"idle", "called", "applied", "answered"}]
      /\ DOMAIN effect = Workers
      /\ result \in [Workers -> [ok : BOOLEAN, rows : Seq(Row)]]
  BY DEF TypeInv
<1>1. at[w] = "execute" /\ UNCHANGED <<conn, net, sent, gone, known, replies>>
  BY DEF Executed, clientVars
<1>e. PICK c \in Connections : c = conn[w]
  BY <1>1, BusyHasConnection DEF BusyPcs
<1>2. Statement(w, c)
  BY <1>1, <1>e DEF WorkerInv, StatementsFollow
<1>3. /\ UNCHANGED <<table, request>>
      /\ \A v \in Workers \ {w} : tphase'[v] = tphase[v] /\ effect'[v] = effect[v]
  BY <1>t DEF Executed, Users!Succeed, Users!GiveUp
<1>4. /\ at'[w] = "send" /\ \A v \in Workers \ {w} : at'[v] = at[v]
      /\ \A v \in Workers \ {w} : answer'[v] = answer[v]
      /\ answer'[w] = [status |-> StatusOf(result'[w]), rows |-> result'[w].rows]
  BY <1>t DEF Executed, AfterResult
<1>5. RowInv'
  <2>1. \A v \in Workers : at[v] \in LatePcs => at'[v] \in LatePcs
    BY <1>4 DEF LatePcs
  <2> QED
    BY <1>1, <1>3, <2>1, RowsKept
<1>6. StatementsFollow'
  <2> SUFFICES ASSUME NEW v \in Workers, at'[v] = "execute" PROVE Statement(v, conn[v])'
    BY DEF StatementsFollow
  <2>1. v # w /\ at[v] = "execute"
    BY <1>4
  <2>2. Statement(v, conn[v])
    BY <2>1 DEF WorkerInv, StatementsFollow
  <2> QED
    BY <1>1, <1>3, <2>1, <2>2, SameRows DEF Statement, Query, Covers
<1>7. AnswersAreTruthful'
  <2> SUFFICES ASSUME NEW v \in Workers, at'[v] = "send"
               PROVE  Truthful(conn[v], answer[v].status, answer[v].rows)'
    BY DEF AnswersAreTruthful
  <2>1. CASE v = w
    <3>1. CASE Users!GiveUp(w)
      <4>1. result'[w] = NoReply
        BY <1>t, <3>1 DEF Users!GiveUp
      <4>2. answer'[w].status = "failed"
        BY <1>4, <4>1 DEF StatusOf, NoReply
      <4> QED
        BY <2>1, <4>2 DEF Truthful
    <3>2. CASE Users!Succeed(w)
      <4>1. /\ tphase[w] \in {"applied", "answered"}
            /\ result'[w] = [ok |-> TRUE, rows |-> IF tphase[w] = "applied"
                                                   THEN Inserted(effect[w]) ELSE effect[w]]
        BY <1>t, <3>2 DEF Users!Succeed
      <4>2. answer'[w].status = "ok" /\ (tphase[w] = "answered" => answer'[w].rows = effect[w])
        BY <1>4, <4>1 DEF StatusOf
      <4>3. /\ sent[c] = "insert" => RowsOf(c) # {}
            /\ sent[c] = "select" => Covers(answer'[w].rows, known[c])
        BY <1>2, <4>1, <4>2 DEF Statement
      <4>4. RowsOf(c)' = RowsOf(c)
        BY <1>3, SameRows
      <4> QED
        BY <1>1, <1>e, <2>1, <4>2, <4>3, <4>4 DEF Truthful, Covers
    <3> QED
      BY <3>1, <3>2 DEF Executed
  <2>2. CASE v # w
    <3>1. Truthful(conn[v], answer[v].status, answer[v].rows)
      BY <1>4, <2>2 DEF WorkerInv, AnswersAreTruthful
    <3> QED
      BY <1>1, <1>3, <1>4, <2>2, <3>1, SameRows DEF Truthful, Covers
  <2> QED
    BY <2>1, <2>2
<1> QED
  BY <1>5, <1>6, <1>7 DEF WorkerInv

\* A reply repeats the answer, or says less: it reports an internal error.
LEMMA ReplyKeepsRows ==
  ASSUME TypeInv, PlaceInv, ReplyInv, RowInv, WorkerInv, NEW w \in Workers, Reply(w)
  PROVE  RowInv' /\ WorkerInv'
<1>t. /\ at \in [Workers -> BusyPcs \cup {"unborn", "idle", "exited"}]
      /\ replies \in [Connections -> Seq(ReplyType)]
      /\ answer[w] \in ReplyType
  BY DEF TypeInv
<1>1. /\ at[w] = "send" /\ UNCHANGED <<conn, net, sent, gone, known, answer>>
      /\ UNCHANGED <<table, request, tphase, effect>>
  BY DEF Reply, clientVars, tableVars
<1>2. at'[w] = "close" /\ \A v \in Workers \ {w} : at'[v] = at[v]
  BY <1>t DEF Reply
<1>e. PICK c \in Connections : c = conn[w]
  BY <1>1, BusyHasConnection DEF BusyPcs
<1>3. replies[c] = <<>>
  BY <1>1, <1>e, NoReplyYet
<1>4. WorkerInv'
  <2>1. \A v \in Workers : at'[v] \in {"execute", "send"} => v # w /\ at'[v] = at[v]
    BY <1>2
  <2> QED
    BY <1>1, <2>1, WorkersKept
<1>5. Truthful(c, answer[w].status, answer[w].rows)
  BY <1>1, <1>e DEF WorkerInv, AnswersAreTruthful
<1>6. OneRowEach' /\ KnownAreThere'
  BY <1>1, SameRows DEF RowInv, OneRowEach, KnownAreThere
<1>7. RowsComeFromInserts'
  <2>1. \A v \in Workers : at[v] \in LatePcs => at'[v] \in LatePcs
    BY <1>2 DEF LatePcs
  <2> QED
    BY <1>1, <2>1, SameRows DEF RowInv, RowsComeFromInserts
<1>8. RepliesAreTruthful'
  <2> SUFFICES ASSUME NEW d \in Connections, NEW i \in DOMAIN replies'[d]
               PROVE  Truthful(d, replies[d][i].status, replies[d][i].rows)'
    BY DEF RepliesAreTruthful
  <2>1. CASE replies'[d] = replies[d]
    <3>1. Truthful(d, replies[d][i].status, replies[d][i].rows)
      BY <2>1 DEF RowInv, RepliesAreTruthful
    <3> QED
      BY <1>1, <2>1, <3>1, SameRows DEF Truthful, Covers
  <2>2. CASE replies'[d] # replies[d]
    <3>1. PICK s \in Statuses(answer[w].status) :
            replies' = [replies EXCEPT ![c] = Append(@, [answer[w] EXCEPT !.status = s])]
      BY <1>e, <2>2 DEF Reply
    <3>2. d = c
      BY <1>t, <2>2, <3>1
    <3> DEFINE a == [answer[w] EXCEPT !.status = s]
    <3>3. a.status = s /\ a.rows = answer[w].rows
      BY <1>t DEF ReplyType
    <3>4. replies'[c] = Append(replies[c], a)
      BY <1>t, <3>1
    <3> HIDE DEF a
    <3>5. Append(<<>>, a) = <<a>>
      OBVIOUS
    <3>6. replies'[c] = <<a>>
      BY <1>3, <3>4, <3>5
    <3>7. DOMAIN <<a>> = {1} /\ <<a>>[1] = a
      OBVIOUS
    <3>8. replies'[d][i] = a
      BY <3>2, <3>6, <3>7
    <3>9. s = answer[w].status \/ s = "failed"
      BY DEF Statuses
    <3>10. RowsOf(c)' = RowsOf(c) /\ sent' = sent /\ known' = known
      BY <1>1, SameRows
    <3> QED
      BY <1>5, <3>2, <3>3, <3>8, <3>9, <3>10 DEF Truthful, Covers
  <2> QED
    BY <2>1, <2>2
<1> QED
  BY <1>4, <1>6, <1>7, <1>8 DEF RowInv

\* A client that sends its request has got no reply before, and what it knows to
\* be acknowledged is in the table.
LEMMA SendKeepsRows ==
  ASSUME TypeInv, PlaceInv, ReplyInv, RowInv, WorkerInv,
         NEW c \in Connections, SendRequest(c)
  PROVE  RowInv' /\ WorkerInv'
<1>t. /\ sent \in [Connections -> Requests \cup {""}]
      /\ known \in [Connections -> SUBSET Connections]
  BY DEF TypeInv
<1>1. /\ net[c] \in {"backlog", "accepted"} /\ c \notin gone /\ sent[c] = ""
      /\ UNCHANGED <<at, conn, answer, net, gone, replies>>
      /\ UNCHANGED <<table, request, tphase, effect>>
  BY DEF SendRequest, workerVars, tableVars
<1>2. \A d \in Connections \ {c} : sent'[d] = sent[d] /\ known'[d] = known[d]
  BY <1>t DEF SendRequest
<1>3. known'[c] \subseteq Acknowledged
  BY <1>t DEF SendRequest
<1>4. \A w \in Workers : at[w] \in LatePcs => conn[w] \in Connections \ {c}
  <2>1. \A w \in Workers : at[w] \in LatePcs => conn[w] \in Connections
    BY BusyHasConnection DEF BusyPcs, LatePcs
  <2> QED
    BY <1>1, <2>1 DEF ReplyInv, RequestWasRead
<1>5. replies[c] = <<>>
  BY <1>1, <1>4 DEF ReplyInv, RepliedIsOver, LatePcs
<1>6. RowsOf(c) = {}
  BY <1>1 DEF RowInv, RowsComeFromInserts
<1>7. \A d : RowsOf(d)' = RowsOf(d)
  BY <1>1, SameRows
<1>8. OneRowEach' /\ RowsComeFromInserts'
  <2>1. OneRowEach'
    BY <1>7 DEF RowInv, OneRowEach
  <2>2. ASSUME NEW d \in Connections, RowsOf(d)' # {}
        PROVE  /\ sent'[d] = "insert"
               /\ net'[d] = "closed" \/ \E w \in Workers : conn'[w] = d /\ at'[w] \in LatePcs
    <3>1. RowsOf(d) # {} /\ d # c
      BY <1>6, <1>7, <2>2
    <3>2. /\ sent[d] = "insert"
          /\ net[d] = "closed" \/ \E w \in Workers : conn[w] = d /\ at[w] \in LatePcs
      BY <3>1 DEF RowInv, RowsComeFromInserts
    <3> QED
      BY <1>1, <1>2, <3>1, <3>2
  <2>3. RowsComeFromInserts'
    BY <2>2 DEF RowsComeFromInserts
  <2> QED
    BY <2>1, <2>3
<1>9. KnownAreThere'
  <2>1. \A d \in Acknowledged : RowsOf(d) # {}
    BY DEF Acknowledged, RowInv, RepliesAreTruthful, Truthful
  <2> QED
    BY <1>2, <1>3, <1>7, <2>1 DEF RowInv, KnownAreThere
<1>10. RepliesAreTruthful'
  <2> SUFFICES ASSUME NEW d \in Connections, NEW i \in DOMAIN replies[d]
               PROVE  Truthful(d, replies[d][i].status, replies[d][i].rows)'
    BY <1>1 DEF RepliesAreTruthful
  <2>1. DOMAIN replies[c] = {}
    BY <1>5
  <2>2. d # c
    BY <2>1
  <2>3. Truthful(d, replies[d][i].status, replies[d][i].rows)
    BY DEF RowInv, RepliesAreTruthful
  <2> QED
    BY <1>1, <1>2, <1>7, <2>2, <2>3 DEF Truthful, Covers
<1>11. StatementsFollow'
  <2> SUFFICES ASSUME NEW w \in Workers, at[w] = "execute" PROVE Statement(w, conn[w])'
    BY <1>1 DEF StatementsFollow
  <2>1. Statement(w, conn[w]) /\ conn[w] \in Connections \ {c}
    BY <1>4 DEF WorkerInv, StatementsFollow, LatePcs
  <2> QED
    BY <1>1, <1>2, <1>7, <2>1 DEF Statement, Query, Covers
<1>12. AnswersAreTruthful'
  <2> SUFFICES ASSUME NEW w \in Workers, at[w] = "send"
               PROVE  Truthful(conn[w], answer[w].status, answer[w].rows)'
    BY <1>1 DEF AnswersAreTruthful
  <2>1. /\ Truthful(conn[w], answer[w].status, answer[w].rows)
        /\ conn[w] \in Connections \ {c}
    BY <1>4 DEF WorkerInv, AnswersAreTruthful, LatePcs
  <2> QED
    BY <1>1, <1>2, <1>7, <2>1 DEF Truthful, Covers
<1> QED
  BY <1>8, <1>9, <1>10, <1>11, <1>12 DEF RowInv, WorkerInv

\* Every step keeps RowInv and WorkerInv.
LEMMA RowNext ==
  ServerInv /\ TypeInv' /\ [Next]_vars => RowInv' /\ WorkerInv'
<1> SUFFICES ASSUME ServerInv, TypeInv', [Next]_vars PROVE RowInv' /\ WorkerInv'
  OBVIOUS
<1>i. TypeInv /\ MainInv /\ PlaceInv /\ ReplyInv /\ RowInv /\ WorkerInv
  BY DEF ServerInv
<1>t. /\ at \in [Workers -> BusyPcs \cup {"unborn", "idle", "exited"}]
      /\ conn \in [Workers -> Connections \cup {NoOne}]
      /\ answer \in [Workers -> ReplyType]
      /\ net \in [Connections -> {"new", "backlog", "accepted", "closed", "reset"}]
      /\ backlog \in Seq(Connections)
  BY <1>i DEF TypeInv
<1> USE DEF mainVars, workerVars, clientVars, queueVars, tableVars
<1>1. CASE OpenDb \/ Listen \/ TestStop \/ AcceptError \/ Submit \/ StopPool \/ JoinWorkers
           \/ DestroyDb
  BY <1>i, <1>1, RowsKept, WorkersKept
     DEF OpenDb, Listen, TestStop, AcceptError, Submit, StopPool, JoinWorkers, DestroyDb
<1>2. CASE StartPool
  <2>1. \A w \in Workers : /\ at[w] \notin LatePcs
                           /\ at'[w] \notin {"execute", "send"}
    BY <1>i, <1>2 DEF StartPool, MainInv, LatePcs
  <2> QED
    BY <1>i, <1>2, <2>1, RowsKept, WorkersKept DEF StartPool
<1>3. CASE Accept
  <2>1. Head(backlog) \in Elements(backlog) /\ Head(backlog) \in Connections
    BY <1>i, <1>t, <1>3, TailElements DEF Accept, PlaceInv
  <2>2. net[Head(backlog)] = "backlog"
    BY <1>i, <2>1 DEF PlaceInv
  <2>3. \A c \in Connections : net[c] = "closed" => net'[c] = "closed"
    BY <1>t, <1>3, <2>1, <2>2 DEF Accept
  <2> QED
    BY <1>i, <1>3, <2>3, RowsKept, WorkersKept DEF Accept
<1>4. CASE CloseListener
  <2>1. \A c \in Connections : net[c] = "closed" => net'[c] = "closed"
    BY <1>4 DEF CloseListener
  <2> QED
    BY <1>i, <1>4, <2>1, RowsKept, WorkersKept DEF CloseListener
<1>5. ASSUME NEW t \in Workers \cup {Main}, Signal(t) PROVE RowInv' /\ WorkerInv'
  BY <1>i, <1>5, RowsKept, WorkersKept DEF Signal
<1>6. ASSUME NEW w \in Workers, Take(w) \/ Exit(w) PROVE RowInv' /\ WorkerInv'
  <2>1. UNCHANGED <<table, sent, known, replies, net, request, tphase, effect, answer>>
    BY <1>6 DEF Take, Exit
  <2>2. /\ at[w] = "idle" /\ at'[w] \in {"read", "exited"}
        /\ \A v \in Workers \ {w} : at'[v] = at[v] /\ conn'[v] = conn[v]
    BY <1>t, <1>6 DEF Take, Exit
  <2>3. /\ \A v \in Workers : at[v] \in LatePcs => at'[v] \in LatePcs /\ conn'[v] = conn[v]
        /\ \A v \in Workers : at'[v] \in {"execute", "send"} =>
             at'[v] = at[v] /\ conn'[v] = conn[v]
    BY <2>2 DEF LatePcs
  <2> QED
    BY <1>i, <2>1, <2>3, RowsKept, WorkersKept
<1>7. ASSUME NEW w \in Workers, CloseFd(w) PROVE RowInv' /\ WorkerInv'
  <2>1. UNCHANGED <<table, sent, known, replies, request, tphase, effect>>
    BY <1>7 DEF CloseFd
  <2>2. conn[w] \in Connections
    BY <1>i, <1>7, BusyHasConnection DEF CloseFd, BusyPcs
  <2>3. /\ at[w] = "close" /\ at'[w] = "idle"
        /\ \A v \in Workers \ {w} :
             at'[v] = at[v] /\ conn'[v] = conn[v] /\ answer'[v] = answer[v]
    BY <1>t, <1>7 DEF CloseFd
  <2>4. net'[conn[w]] = "closed" /\ \A c \in Connections : net[c] = "closed" => net'[c] = "closed"
    BY <1>t, <1>7, <2>2 DEF CloseFd
  <2>5. \A v \in Workers : at[v] \in LatePcs =>
          (at'[v] \in LatePcs /\ conn'[v] = conn[v]) \/ net'[conn[v]] = "closed"
    BY <2>3, <2>4
  <2>6. \A v \in Workers : at'[v] \in {"execute", "send"} =>
          at'[v] = at[v] /\ conn'[v] = conn[v] /\ answer'[v] = answer[v]
    BY <2>3
  <2>7. RowInv'
    BY <1>i, <2>1, <2>4, <2>5, RowsKept
  <2> QED
    BY <1>i, <2>1, <2>6, <2>7, WorkersKept
<1>8. ASSUME NEW c \in Connections, Connect(c) \/ Leave(c) PROVE RowInv' /\ WorkerInv'
  <2>1. \A d \in Connections : net[d] = "closed" => net'[d] = "closed"
    BY <1>t, <1>8 DEF Connect, Leave
  <2> QED
    BY <1>i, <1>8, <2>1, RowsKept, WorkersKept DEF Connect, Leave
<1>9. CASE UNCHANGED vars
  BY <1>i, <1>9, RowsKept, WorkersKept DEF vars
<1>10. ASSUME NEW w \in Workers, Read(w) PROVE RowInv' /\ WorkerInv'
  BY <1>i, <1>10, ReadKeepsRows
<1>11. ASSUME NEW w \in Workers, TakeEffect(w) PROVE RowInv' /\ WorkerInv'
  BY <1>i, <1>11, EffectKeepsRows
<1>12. ASSUME NEW w \in Workers, Executed(w) PROVE RowInv' /\ WorkerInv'
  BY <1>i, <1>12, ResultKeepsRows
<1>13. ASSUME NEW w \in Workers, Reply(w) PROVE RowInv' /\ WorkerInv'
  BY <1>i, <1>13, ReplyKeepsRows
<1>14. ASSUME NEW c \in Connections, SendRequest(c) PROVE RowInv' /\ WorkerInv'
  BY <1>i, <1>14, SendKeepsRows
<1> QED
  BY <1>1, <1>2, <1>3, <1>4, <1>5, <1>6, <1>7, <1>8, <1>9, <1>10, <1>11, <1>12, <1>13,
     <1>14
     DEF Next, MainStep, WorkerStep

-----------------------------------------------------------------------------
(* The theorems.                                                           *)

\* The server starts without connections, replies and rows.
LEMMA ServerInit == Init => ServerInv
<1> SUFFICES ASSUME Init PROVE ServerInv
  OBVIOUS
<1>1. TypeInv
  BY TypeInit
<1>2. queue = <<>> /\ table = <<>>
  BY DEF Init, Pool!QueueInit, Users!TableInit
<1>3. MainInv
  BY <1>2 DEF Init, MainInv, Listening
<1>4. PlaceInv
  <2>1. /\ backlog = <<>> /\ hand = NoOne /\ main = "dbinit"
        /\ \A w \in Workers : at[w] = "unborn" /\ conn[w] = NoOne
    BY DEF Init
  <2>2. Elements(queue) = {} /\ Elements(backlog) = {} /\ Distinct(queue) /\ Distinct(backlog)
    BY <1>2, <2>1, EmptyElements
  <2>3. \A c \in Connections : c # NoOne
    OBVIOUS
  <2>4. \A c \in Connections : net[c] # "backlog" /\ net[c] # "accepted"
    <3>1. \A c \in Connections : net[c] = "new"
      BY DEF Init
    <3> QED
      BY <3>1
  <2>5. \A w \in Workers : conn[w] = NoOne /\ at[w] \notin BusyPcs
    BY <2>1 DEF BusyPcs
  <2>6. hand = NoOne /\ main # "submit"
    BY <2>1
  <2> QED
    BY <2>2, <2>3, <2>4, <2>5, <2>6, Zenon DEF PlaceInv
<1>5. /\ \A c \in Connections : replies[c] = <<>> /\ net[c] = "new" /\ known[c] = {}
      /\ \A w \in Workers : at[w] = "unborn"
  BY DEF Init
<1>6. ReplyInv
  BY <1>5 DEF ReplyInv, RepliedIsOver, CloserReplied, ClosedGotReply, RequestWasRead, LatePcs
<1>7. \A c \in Connections : RowsOf(c) = {}
  BY <1>2 DEF RowsOf
<1>8. RepliesAreTruthful
  BY <1>5 DEF RepliesAreTruthful
<1>9. RowInv
  BY <1>5, <1>7, <1>8 DEF RowInv, OneRowEach, RowsComeFromInserts, KnownAreThere
<1>10. WorkerInv
  BY <1>5 DEF WorkerInv, StatementsFollow, AnswersAreTruthful
<1> QED
  BY <1>1, <1>3, <1>4, <1>6, <1>9, <1>10 DEF ServerInv

\* Every step of the server keeps the whole invariant.
LEMMA ServerNext == ServerInv /\ [Next]_vars => ServerInv'
<1> SUFFICES ASSUME ServerInv, [Next]_vars PROVE ServerInv'
  OBVIOUS
<1>1. TypeInv' /\ MainInv' /\ PlaceInv' /\ ReplyInv'
  BY TypeNext, MainNext, PlaceNext, ReplyNext DEF ServerInv
<1>2. RowInv' /\ WorkerInv'
  BY <1>1, RowNext
<1> QED
  BY <1>1, <1>2 DEF ServerInv

\* The inductive invariant of the server holds in every reachable state, for any
\* number of workers and connections and any queue capacity.
THEOREM ServerInvariant == Spec => []ServerInv
  BY ServerInit, ServerNext, PTL DEF Spec

\* No worker is inside the engine before db_init has succeeded or after
\* db_destroy, whichever part of server_run failed and whenever the signal came.
THEOREM EngineIsThere == Spec => []EngineOutlivesWorkers
<1>1. ServerInv => EngineOutlivesWorkers
  BY DEF ServerInv, MainInv, EngineOutlivesWorkers
<1> QED
  BY <1>1, ServerInvariant, PTL

\* A 200 to an INSERT means one row and a refusal means none, and no statement
\* is ever executed twice, whatever the client does after it has connected.
THEOREM RepliesCanBeTrusted == Spec => []RepliesTellTheTruth
<1>1. ASSUME ServerInv PROVE RepliesTellTheTruth
  <2> SUFFICES ASSUME NEW c \in Connections
               PROVE  /\ Cardinality(RowsOf(c)) <= 1
                      /\ \A i \in DOMAIN replies[c] :
                           /\ replies[c][i].status = "ok" /\ sent[c] = "insert"
                                => RowsOf(c) # {}
                           /\ replies[c][i].status = "refused" => RowsOf(c) = {}
    BY DEF RepliesTellTheTruth
  <2>1. Cardinality(RowsOf(c)) <= 1
    <3>1. CASE RowsOf(c) = {}
      BY <3>1, FS_EmptySet
    <3>2. CASE RowsOf(c) # {}
      <4>1. PICK i \in RowsOf(c) : TRUE
        BY <3>2
      <4>2. RowsOf(c) = {i}
        BY <1>1, <4>1 DEF ServerInv, RowInv, OneRowEach
      <4>3. Cardinality({i}) = 1
        BY FS_Singleton
      <4> QED
        BY <4>2, <4>3
    <3> QED
      BY <3>1, <3>2
  <2>2. \A i \in DOMAIN replies[c] : Truthful(c, replies[c][i].status, replies[c][i].rows)
    BY <1>1 DEF ServerInv, RowInv, RepliesAreTruthful
  <2> QED
    BY <2>1, <2>2 DEF Truthful
<1> QED
  BY <1>1, ServerInvariant, PTL

\* A SELECT that is sent after the reply to an INSERT was received returns its
\* row, on whatever connections and workers the two were.
THEOREM AcknowledgedIsSeen == Spec => []SelectSeesAcknowledged
<1>1. ASSUME ServerInv PROVE SelectSeesAcknowledged
  <2>1. \A c \in Connections : \A i \in DOMAIN replies[c] :
          Truthful(c, replies[c][i].status, replies[c][i].rows)
    BY <1>1 DEF ServerInv, RowInv, RepliesAreTruthful
  <2> QED
    BY <2>1 DEF SelectSeesAcknowledged, Truthful, Covers
<1> QED
  BY <1>1, ServerInvariant, PTL

\* When server_run has returned, every connection that was accepted is closed,
\* and its client has got exactly one reply unless it left before.
THEOREM EndIsOrderly == Spec => []AcceptedAreAnswered
<1>1. ASSUME ServerInv PROVE AcceptedAreAnswered
  <2> SUFFICES ASSUME main = "done", NEW c \in Connections
               PROVE  /\ net[c] \in {"new", "closed", "reset"}
                      /\ net[c] = "closed" /\ c \notin gone => Len(replies[c]) = 1
    BY DEF AcceptedAreAnswered
  <2> USE <1>1 DEF ServerInv
  <2>1. queue = <<>> /\ backlog = <<>>
        /\ \A w \in Workers : at[w] \in {"unborn", "exited"}
    BY DEF MainInv, Listening
  <2>2. Elements(queue) = {} /\ Elements(backlog) = {}
    BY <2>1, EmptyElements
  <2>3. hand = NoOne /\ \A w \in Workers : conn[w] = NoOne
    BY <2>1 DEF PlaceInv, BusyPcs
  <2>4. net[c] # "backlog" /\ net[c] # "accepted"
    BY <2>2, <2>3 DEF PlaceInv
  <2>5. net[c] \in {"new", "backlog", "accepted", "closed", "reset"}
    BY DEF TypeInv
  <2>6. net[c] = "closed" /\ c \notin gone => Len(replies[c]) = 1
    BY DEF ReplyInv, ClosedGotReply
  <2> QED
    BY <2>4, <2>5, <2>6
<1> QED
  BY <1>1, ServerInvariant, PTL
=============================================================================
