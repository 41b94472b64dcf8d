---------------------------- MODULE MCBPlusTree -----------------------------
(***************************************************************************)
(* Small instances of BPlusTree for TLC: nodes of two keys instead of 31,  *)
(* so that a handful of insertions split leaves, inner nodes and the root. *)
(* Every key has a value of its own, the first one a second value that     *)
(* replaces it.                                                            *)
(***************************************************************************)
EXTENDS BPlusTree

EntriesUpTo(n) == {<<k, k>> : k \in 1..n} \cup {<<1, 0>>}

FourKeys == EntriesUpTo(4)
SixKeys == EntriesUpTo(6)
=============================================================================
