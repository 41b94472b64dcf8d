----------------------------- MODULE BPlusTree ------------------------------
(***************************************************************************)
(* The B+ tree of src/bptree.c, which maps user ids to positions in the    *)
(* records array.  heap holds the nodes in the order of their allocation   *)
(* and a pointer is a number in it, 0 for NULL.  The links between leaves  *)
(* are left out: the program writes them and never reads them.             *)
(*                                                                         *)
(* Calls exclude each other (the engine's lock).  A step of the model is   *)
(* one level of a descent, one activation of leaf_insert or node_insert on *)
(* the way back, or the end of a call.                                     *)
(***************************************************************************)
EXTENDS IndexOps, SequencesExt

CONSTANTS
  MaxKeys,   \* BPTREE_MAX_KEYS
  IntMax,    \* the largest int
  Entries,   \* the pairs <<key, value>> that are inserted
  MaxFails   \* bound on the allocations that fail

ASSUME MaxKeysAssumption == MaxKeys \in Nat \ {0, 1}
ASSUME IntMaxAssumption == IntMax \in Nat
ASSUME EntriesAssumption == Entries \subseteq (-IntMax - 1..IntMax) \X Nat
ASSUME MaxFailsAssumption == MaxFails \in Nat

VARIABLES
  heap,        \* the nodes allocated so far
  root, size,  \* the BPlusTree
  pc,          \* "idle", or the phase of a call: "insert", "return", "search"
  key, value,  \* the arguments of the call
  node,        \* the node that the call is at
  frames,      \* the activations of node_insert above it, each with its child_idx
  result,      \* the InsertResult being returned
  ok,          \* what the last bptree_insert returned
  map,         \* history: the entries in the leaves of the tree
  span,        \* history: the nodes of the tree, their key range [low, high), height
  fails,       \* history: allocations that failed
  before       \* history: map and fails when the insertion was called

tree == <<heap, root, size>>
locals == <<key, value, node, frames, result, before>>
vars == <<tree, pc, locals, ok, map, span, fails>>

NULL == 0

Keys == {e[1] : e \in Entries}

Leaf(keys, vals) == [leaf |-> TRUE, keys |-> keys, vals |-> vals, kids |-> <<>>]

Inner(keys, kids) == [leaf |-> FALSE, keys |-> keys, vals |-> <<>>, kids |-> kids]

\* The address of the node that is allocated next.
New == Len(heap) + 1

Unsplit(new) == [split |-> FALSE, key |-> 0, right |-> NULL, new |-> new]

\* leaf_find_position: the number of leading keys below k.
LeafFindPosition(keys, k) ==
  CHOOSE n \in 0..Len(keys) :
    /\ \A i \in 1..n : keys[i] < k
    /\ n < Len(keys) => keys[n + 1] >= k

\* Faulty variant: a key equal to a separator is looked for on its left.
ChildIndexLeftBiased(keys, k) ==
  CHOOSE n \in 0..Len(keys) :
    /\ \A i \in 1..n : k > keys[i]
    /\ n < Len(keys) => k <= keys[n + 1]

\* child_index_for_key: the number of leading separators that k reaches.
ChildIndexForKey(keys, k) ==
  CHOOSE n \in 0..Len(keys) :
    /\ \A i \in 1..n : k >= keys[i]
    /\ n < Len(keys) => k < keys[n + 1]

\* The history of a node's range: a new root, a division at key k, and the loss
\* of the nodes between k and h, after which their left neighbours extend to h.
Whole(height) == [low |-> -IntMax - 1, high |-> IntMax + 1, height |-> height]

Divided(a, k) ==
  [b \in DOMAIN span \cup {New} |->
     IF b = New THEN [span[a] EXCEPT !.low = k]
     ELSE IF b = a THEN [span[a] EXCEPT !.high = k]
     ELSE span[b]]

Lost(k, h, height) ==
  {b \in DOMAIN span : span[b].low >= k /\ span[b].high <= h /\ span[b].height <= height}

Closed(k, h, height) ==
  [b \in DOMAIN span \ Lost(k, h, height) |->
     IF span[b].high = k THEN [span[b] EXCEPT !.high = h] ELSE span[b]]

-----------------------------------------------------------------------------
Reset ==
  /\ key' = 0 /\ value' = 0 /\ node' = NULL /\ frames' = <<>>
  /\ result' = Unsplit(FALSE) /\ before' = [map |-> [k \in {} |-> 0], fails |-> 0]

Init ==
  /\ heap = <<>> /\ root = NULL /\ size = 0
  /\ pc = "idle" /\ ok = TRUE
  /\ key = 0 /\ value = 0 /\ node = NULL /\ frames = <<>>
  /\ result = Unsplit(FALSE) /\ before = [map |-> [k \in {} |-> 0], fails |-> 0]
  /\ map = [k \in {} |-> 0] /\ span = [a \in {} |-> Whole(0)]
  /\ fails = 0

\* Return from bptree_insert.
Return(b) == pc' = "idle" /\ ok' = b /\ Reset

AllocationFails == fails < MaxFails /\ fails' = fails + 1

\* bptree_insert is called; an empty tree gets a leaf first.
InsertCall(k, v) ==
  /\ pc = "idle" /\ pc' = "insert"
  /\ key' = k /\ value' = v /\ node' = root
  /\ before' = [map |-> map, fails |-> fails]
  /\ UNCHANGED <<tree, frames, result, ok, map, span, fails>>

MakeRoot ==
  /\ pc = "insert" /\ node = NULL
  /\ heap' = Append(heap, Leaf(<<>>, <<>>))
  /\ root' = New /\ node' = New
  /\ span' = [a \in {New} |-> Whole(0)]
  /\ UNCHANGED <<size, pc, key, value, frames, result, before, ok, map, fails>>

MakeRootFail ==
  /\ pc = "insert" /\ node = NULL
  /\ AllocationFails
  /\ Return(FALSE)
  /\ UNCHANGED <<tree, map, span>>

\* node_insert calls itself for the child that covers the key.
Descend ==
  LET idx == ChildIndexForKey(heap[node].keys, key)
  IN  /\ pc = "insert" /\ node # NULL /\ ~heap[node].leaf
      /\ frames' = Append(frames, [node |-> node, idx |-> idx])
      /\ node' = heap[node].kids[idx + 1]
      /\ UNCHANGED <<tree, pc, key, value, result, before, ok, map, span, fails>>

-----------------------------------------------------------------------------
(* leaf_insert.                                                            *)

Position == LeafFindPosition(heap[node].keys, key)

Present == Position < Len(heap[node].keys) /\ heap[node].keys[Position + 1] = key

InsertingAtLeaf == pc = "insert" /\ node # NULL /\ heap[node].leaf

LeafReturn(res) ==
  /\ pc' = "return"
  /\ result' = res
  /\ UNCHANGED <<root, size, key, value, node, frames, before, ok>>

Replace ==
  /\ InsertingAtLeaf /\ Present
  /\ heap' = [heap EXCEPT ![node].vals[Position + 1] = value]
  /\ map' = Put(map, key, value)
  /\ LeafReturn(Unsplit(FALSE))
  /\ UNCHANGED <<span, fails>>

LongKeys == InsertAt(heap[node].keys, Position + 1, key)
LongVals == InsertAt(heap[node].vals, Position + 1, value)

AddToLeaf ==
  /\ InsertingAtLeaf /\ ~Present /\ Len(heap[node].keys) < MaxKeys
  /\ heap' = [heap EXCEPT ![node] = Leaf(LongKeys, LongVals)]
  /\ map' = Put(map, key, value)
  /\ LeafReturn(Unsplit(TRUE))
  /\ UNCHANGED <<span, fails>>

\* Faulty variant: only one entry moves to the right.
LeftAllButOne == MaxKeys

\* How many of MaxKeys + 1 entries or keys stay on the left of a split.
LeftCount == (MaxKeys + 1) \div 2

\* Faulty variant: the separator of a split leaf is the last key on the left.
LastLeft(keys) == keys[LeftCount]

\* The key that goes up.
FirstRight(keys) == keys[LeftCount + 1]

SplitLeaf ==
  /\ InsertingAtLeaf /\ ~Present /\ Len(heap[node].keys) >= MaxKeys
  /\ heap' = Append([heap EXCEPT ![node] = Leaf(SubSeq(LongKeys, 1, LeftCount),
                                                SubSeq(LongVals, 1, LeftCount))],
                    Leaf(SubSeq(LongKeys, LeftCount + 1, MaxKeys + 1),
                         SubSeq(LongVals, LeftCount + 1, MaxKeys + 1)))
  /\ map' = Put(map, key, value)
  /\ span' = Divided(node, FirstRight(LongKeys))
  /\ LeafReturn([split |-> TRUE, key |-> FirstRight(LongKeys), right |-> New, new |-> TRUE])
  /\ UNCHANGED fails

SplitLeafFail ==
  /\ InsertingAtLeaf /\ ~Present /\ Len(heap[node].keys) >= MaxKeys
  /\ AllocationFails
  /\ LeafReturn(Unsplit(FALSE))
  /\ UNCHANGED <<heap, map, span>>

-----------------------------------------------------------------------------
(* node_insert after the child's return.  An unsplit result goes through   *)
(* all activations as it is.                                               *)

Caller == Last(frames)
LongerKeys == InsertAt(heap[Caller.node].keys, Caller.idx + 1, result.key)
LongerKids == InsertAt(heap[Caller.node].kids, Caller.idx + 2, result.right)

CallerHasSplitChild == pc = "return" /\ result.split /\ frames # <<>>

InnerReturn(res) ==
  /\ result' = res
  /\ node' = Caller.node
  /\ frames' = Front(frames)
  /\ UNCHANGED <<root, size, pc, key, value, before, ok>>

AddToInner ==
  /\ CallerHasSplitChild /\ Len(heap[Caller.node].keys) < MaxKeys
  /\ InnerReturn(Unsplit(result.new))
  /\ heap' = [heap EXCEPT ![Caller.node] = Inner(LongerKeys, LongerKids)]
  /\ UNCHANGED <<map, span, fails>>

\* The middle key moves up.
SplitInner ==
  /\ CallerHasSplitChild /\ Len(heap[Caller.node].keys) >= MaxKeys
  /\ InnerReturn([split |-> TRUE, key |-> FirstRight(LongerKeys), right |-> New,
                  new |-> result.new])
  /\ heap' = Append([heap EXCEPT ![Caller.node] =
                       Inner(SubSeq(LongerKeys, 1, LeftCount),
                             SubSeq(LongerKids, 1, LeftCount + 1))],
                    Inner(SubSeq(LongerKeys, LeftCount + 2, MaxKeys + 1),
                          SubSeq(LongerKids, LeftCount + 2, MaxKeys + 2)))
  /\ span' = Divided(Caller.node, FirstRight(LongerKeys))
  /\ UNCHANGED <<map, fails>>

\* The child has been cut down already and its right half is linked nowhere.
LoseRight ==
  LET high == span[result.right].high
  IN  /\ map' = Without(map, result.key..high - 1)
      /\ span' = Closed(result.key, high, span[result.right].height)

SplitInnerFail ==
  /\ CallerHasSplitChild /\ Len(heap[Caller.node].keys) >= MaxKeys
  /\ InnerReturn(Unsplit(FALSE))
  /\ AllocationFails
  /\ LoseRight
  /\ UNCHANGED heap

-----------------------------------------------------------------------------
(* The end of bptree_insert.                                               *)

Grown == IF result.new THEN size + 1 ELSE size

Finish ==
  /\ pc = "return" /\ ~result.split
  /\ size' = Grown
  /\ Return(TRUE)
  /\ UNCHANGED <<heap, root, map, span, fails>>

GrowRoot ==
  /\ pc = "return" /\ result.split /\ frames = <<>>
  /\ heap' = Append(heap, Inner(<<result.key>>, <<root, result.right>>))
  /\ root' = New
  /\ size' = Grown
  /\ span' = [a \in DOMAIN span \cup {New} |->
                IF a = New THEN Whole(span[root].height + 1) ELSE span[a]]
  /\ Return(TRUE)
  /\ UNCHANGED <<map, fails>>

GrowRootFail ==
  /\ pc = "return" /\ result.split /\ frames = <<>>
  /\ AllocationFails
  /\ LoseRight
  /\ size' = Grown
  /\ Return(FALSE)
  /\ UNCHANGED <<heap, root>>

-----------------------------------------------------------------------------
(* bptree_search and bptree_destroy.                                       *)

SearchCall(k) ==
  /\ pc = "idle" /\ pc' = "search"
  /\ key' = k /\ node' = root
  /\ UNCHANGED <<tree, value, frames, result, before, ok, map, span, fails>>

SearchDescend ==
  /\ pc = "search" /\ node # NULL /\ ~heap[node].leaf
  /\ node' = heap[node].kids[ChildIndexForKey(heap[node].keys, key) + 1]
  /\ UNCHANGED <<tree, pc, key, value, frames, result, before, ok, map, span, fails>>

SearchIsOver == pc = "search" /\ (node # NULL => heap[node].leaf)

\* The value that the search returns, if it finds one.
Found == IF node # NULL /\ Present THEN {heap[node].vals[Position + 1]} ELSE {}

SearchEnd ==
  /\ SearchIsOver
  /\ pc' = "idle" /\ Reset
  /\ UNCHANGED <<tree, ok, map, span, fails>>

\* All nodes of the tree are freed; what was lost before is not, and not seen again.
Destroy ==
  /\ pc = "idle" /\ root # NULL
  /\ heap' = <<>> /\ root' = NULL /\ size' = 0
  /\ map' = [k \in {} |-> 0] /\ span' = [a \in {} |-> Whole(0)]
  /\ UNCHANGED <<pc, locals, ok, fails>>

InsertStep ==
  \/ MakeRoot \/ MakeRootFail \/ Descend
  \/ Replace \/ AddToLeaf \/ SplitLeaf \/ SplitLeafFail
  \/ AddToInner \/ SplitInner \/ SplitInnerFail
  \/ Finish \/ GrowRoot \/ GrowRootFail

Next ==
  \/ \E e \in Entries : InsertCall(e[1], e[2])
  \/ InsertStep
  \/ \E k \in Keys : SearchCall(k)
  \/ SearchDescend \/ SearchEnd
  \/ Destroy

Spec == Init /\ [][Next]_vars

-----------------------------------------------------------------------------
(* Properties.                                                             *)

Nodes == DOMAIN span
InnerNodes == {a \in Nodes : ~heap[a].leaf}
NoInsertion == pc \in {"idle", "search"}

\* The tree is a map, whatever the order of the insertions, however often nodes were
\* split and whichever were lost: a search finds the latest value of every key in
\* the tree and no other, and without a failed allocation size counts each key once.
SearchMatchesMap ==
  /\ SearchIsOver => Found = IF key \in DOMAIN map THEN {map[key]} ELSE {}
  /\ NoInsertion /\ fails = 0 => size = Cardinality(DOMAIN map)

\* Nodes fit their arrays and have a child on each side of a key, also after a
\* failed allocation, and all leaves are at one depth.  Without a failure the tree is
\* shallow, so that a lookup touches few nodes: every node but the root is at least
\* almost half full.
Balanced ==
  /\ \A a \in Nodes :
       LET n == heap[a]
       IN  /\ n.leaf <=> span[a].height = 0
           /\ Len(n.keys) <= MaxKeys
           /\ IF n.leaf THEN Len(n.vals) = Len(n.keys) ELSE Len(n.kids) = Len(n.keys) + 1
           /\ NoInsertion /\ a # root /\ fails = 0 =>
                Len(n.keys) >= IF n.leaf THEN (MaxKeys + 1) \div 2 ELSE MaxKeys \div 2
  /\ \A a \in InnerNodes : \A i \in 1..Len(heap[a].kids) :
       /\ heap[a].kids[i] \in Nodes
       /\ span[heap[a].kids[i]].height = span[a].height - 1

\* The search order survives every insertion, also one that ran out of memory half
\* way and lost nodes: keys ascend, each subtree has the range between the
\* separators around it and the root all ints; and each node has one parent.
Ordered ==
  NoInsertion =>
    /\ root # NULL => root \in Nodes /\ span[root] = Whole(span[root].height)
    /\ \A a \in Nodes :
         LET keys == heap[a].keys
         IN  /\ \A i \in 1..Len(keys) : span[a].low <= keys[i] /\ keys[i] < span[a].high
             /\ \A i \in 1..Len(keys) - 1 : keys[i] < keys[i + 1]
    /\ \A a \in InnerNodes : \A i \in 1..Len(heap[a].kids) :
         LET keys == heap[a].keys
             kid == span[heap[a].kids[i]]
         IN  /\ kid.low = IF i = 1 THEN span[a].low ELSE keys[i - 1]
             /\ kid.high = IF i = Len(keys) + 1 THEN span[a].high ELSE keys[i]
    /\ \A b \in Nodes \ {root} :
         Cardinality({p \in InnerNodes \X (1..MaxKeys + 1) :
                        p[2] <= Len(heap[p[1]].kids) /\ heap[p[1]].kids[p[2]] = b}) = 1

\* Every insertion changes the contents in one of the ways that the storage
\* engine's model allows for its index (IndexOps): the exact one when memory is
\* at hand, one that loses neighbouring keys when it is not.
InsertWithinOutcomes ==
  [][pc # "search" /\ pc # "idle" /\ pc' = "idle" =>
       [map |-> map', ok |-> ok'] \in
         IF fails' = before.fails THEN {InsertOutcome(before.map, key, value)}
         ELSE FailedInsertOutcomes(before.map, key, value)]_vars

\* bptree_insert returns 1 only when the key was inserted.
SuccessMeansFound ==
  [][pc = "return" /\ pc' = "idle" /\ ok' => key \in DOMAIN map' /\ map'[key] = value]_vars
=============================================================================
