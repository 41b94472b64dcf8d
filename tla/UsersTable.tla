----------------------------- MODULE UsersTable -----------------------------
(***************************************************************************)
(* What the storage engine promises to the threads that execute SQL: a     *)
(* table of users that survives crashes, on which every request takes      *)
(* effect at one instant between its call and its reply.                   *)
(*                                                                         *)
(*  - An INSERT appends one row with an id that no other row has.  A reply *)
(*    of success means that the row was appended, once.  A reply of failure*)
(*    leaves open whether it was (it may have failed after the append).    *)
(*  - A SELECT answers from one state of the table, never a mixture.       *)
(*  - A crash ends the requests under way and keeps the table.             *)
(*                                                                         *)
(* Threads, Inserts, Selects and Answer are parameters; DbEngine.tla       *)
(* implements this specification.                                          *)
(***************************************************************************)
EXTENDS Naturals, Sequences

CONSTANTS
  Threads, Inserts, Selects,
  InitialTables,    \* the tables the engine may find at its first start
  Answer(_, _),     \* the rows a SELECT returns from a given table
  Inserted(_),      \* the rows a successful INSERT of a row returns
  NoReply

VARIABLES
  table,    \* the rows, in the order they were inserted
  phase,    \* of each thread: "idle", "called", "applied" or "answered"
  request,  \* what it was called with
  effect,   \* the row it inserted, or the answer it determined
  result    \* the reply to its last request

tvars == <<table, phase, request, effect, result>>

TableInit ==
  /\ table \in InitialTables
  /\ phase = [t \in Threads |-> "idle"]
  /\ request = [t \in Threads |-> <<>>]
  /\ effect = [t \in Threads |-> <<>>]
  /\ result = [t \in Threads |-> NoReply]

TableCall(t) ==
  /\ phase[t] = "idle"
  /\ phase' = [phase EXCEPT ![t] = "called"]
  /\ \E q \in Inserts \cup Selects : request' = [request EXCEPT ![t] = q]
  /\ effect' = [effect EXCEPT ![t] = <<>>]
  /\ UNCHANGED <<table, result>>

\* The row is new: no row has its id, and it has the name and the age that were
\* asked for, and the id if one was.
Apply(t) ==
  /\ phase[t] = "called"
  /\ request[t] \in Inserts
  /\ phase' = [phase EXCEPT ![t] = "applied"]
  /\ LET r == effect'[t]
     IN  /\ \A i \in 1..Len(table) : table[i].id # r.id
         /\ r.id > 0
         /\ request[t].hasId => r.id = request[t].id
         /\ r.name = request[t].name /\ r.age = request[t].age
         /\ table' = Append(table, r)
  /\ \A u \in Threads \ {t} : effect'[u] = effect[u]
  /\ UNCHANGED <<request, result>>

Evaluate(t) ==
  /\ phase[t] = "called"
  /\ request[t] \in Selects
  /\ phase' = [phase EXCEPT ![t] = "answered"]
  /\ effect' = [effect EXCEPT ![t] = Answer(request[t], table)]
  /\ UNCHANGED <<table, request, result>>

Succeed(t) ==
  /\ phase[t] \in {"applied", "answered"}
  /\ phase' = [phase EXCEPT ![t] = "idle"]
  /\ result' = [result EXCEPT ![t] =
       [ok |-> TRUE, rows |-> IF phase[t] = "applied" THEN Inserted(effect[t])
                              ELSE effect[t]]]
  /\ effect' = [effect EXCEPT ![t] = <<>>]
  /\ UNCHANGED <<table, request>>

GiveUp(t) ==
  /\ phase[t] # "idle"
  /\ phase' = [phase EXCEPT ![t] = "idle"]
  /\ result' = [result EXCEPT ![t] = NoReply]
  /\ effect' = [effect EXCEPT ![t] = <<>>]
  /\ UNCHANGED <<table, request>>

\* The process ends, by a crash or in an orderly way, and starts over.
Restart ==
  /\ phase' = [t \in Threads |-> "idle"]
  /\ request' = [t \in Threads |-> <<>>]
  /\ effect' = [t \in Threads |-> <<>>]
  /\ result' = [t \in Threads |-> NoReply]
  /\ UNCHANGED table

TableNext ==
  \/ \E t \in Threads : TableCall(t) \/ Apply(t) \/ Evaluate(t) \/ Succeed(t) \/ GiveUp(t)
  \/ Restart

TableSpec == TableInit /\ [][TableNext]_tvars
=============================================================================
