---------------------------- MODULE MCThreadPool ----------------------------
(***************************************************************************)
(* The instance of ThreadPool for TLC: more workers than slots and more    *)
(* descriptors than workers.  No symmetry, because liveness is checked.    *)
(***************************************************************************)
EXTENDS ThreadPool
=============================================================================
