------------------------------ MODULE MCServer ------------------------------
(***************************************************************************)
(* Small instances of Server for TLC: two workers behind a queue of one    *)
(* slot, and three connections, so that one of them waits in the queue and *)
(* the main thread can be held in thread_pool_submit.                      *)
(***************************************************************************)
EXTENDS Server

CONSTANTS c1, c2, c3

MCSays(c) ==
  CASE c = c1 -> {"insert"}
    [] c = c2 -> {"insert", "select"}
    [] c = c3 -> {"health", "refused"}
=============================================================================
