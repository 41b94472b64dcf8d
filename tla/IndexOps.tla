------------------------------ MODULE IndexOps ------------------------------
(***************************************************************************)
(* The id index as src/db.c sees it: a finite map from ids to positions in *)
(* the records array, and what one bptree_insert may do to it.  The B+     *)
(* tree itself is in BPlusTree.tla, and its insertion is proved to have    *)
(* no outcome beyond the ones listed here (InsertionsHaveOutcomes).        *)
(***************************************************************************)
EXTENDS Integers

\* The map m with k mapped to v.
Put(m, k, v) == [x \in DOMAIN m \cup {k} |-> IF x = k THEN v ELSE m[x]]

\* The map m without the keys in L.
Without(m, L) == [x \in DOMAIN m \ L |-> m[x]]

\* bptree_insert when no allocation fails.
InsertOutcome(m, k, v) == [map |-> Put(m, k, v), ok |-> TRUE]

\* bptree_insert of a new key when an allocation fails: the keys of one node
\* (the new one included) drop out of the tree, and the call reports success
\* or failure.  Replacing the value of a known key allocates nothing.
FailedInsertOutcomes(m, k, v) ==
  IF k \in DOMAIN m THEN {}
  ELSE LET full == Put(m, k, v)
       IN  {[map |-> Without(full, p[1]..p[2]), ok |-> b] :
              p \in {q \in (DOMAIN full) \X (DOMAIN full) : q[1] <= q[2]},
              b \in BOOLEAN}
=============================================================================
