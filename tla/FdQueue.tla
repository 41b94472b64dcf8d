------------------------------ MODULE FdQueue -------------------------------
(***************************************************************************)
(* What the worker pool promises to the accept loop: a bounded FIFO queue  *)
(* of client descriptors.  Each descriptor that is accepted into the queue *)
(* is served exactly once, in the order of the submissions, and the pool   *)
(* can be retired only after everything that was queued has been served.   *)
(* ThreadPool.tla implements this specification.                           *)
(***************************************************************************)
EXTENDS Naturals, Sequences

CONSTANTS Fds, Capacity

VARIABLES
  queue,    \* the descriptors waiting for a worker, oldest first
  serving,  \* the descriptors some worker is serving
  phase     \* "open", "closing" (no new descriptor) or "retired"

qvars == <<queue, serving, phase>>

QueueInit ==
  /\ queue = <<>>
  /\ serving = {}
  /\ phase = "open"

Enqueue(fd) ==
  /\ phase = "open"
  /\ Len(queue) < Capacity
  /\ fd \notin serving
  /\ \A i \in 1..Len(queue) : queue[i] # fd
  /\ queue' = Append(queue, fd)
  /\ UNCHANGED <<serving, phase>>

Dequeue ==
  /\ phase # "retired"
  /\ queue # <<>>
  /\ serving' = serving \cup {Head(queue)}
  /\ queue' = Tail(queue)
  /\ UNCHANGED phase

Finish(fd) ==
  /\ phase # "retired"
  /\ fd \in serving
  /\ serving' = serving \ {fd}
  /\ UNCHANGED <<queue, phase>>

Close ==
  /\ phase = "open"
  /\ phase' = "closing"
  /\ UNCHANGED <<queue, serving>>

Retire ==
  /\ queue = <<>>
  /\ serving = {}
  /\ phase' = "retired"
  /\ UNCHANGED <<queue, serving>>

QueueNext ==
  \/ \E fd \in Fds : Enqueue(fd) \/ Finish(fd)
  \/ Dequeue
  \/ Close
  \/ Retire

QueueSpec == QueueInit /\ [][QueueNext]_qvars
=============================================================================
