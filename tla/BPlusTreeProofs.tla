-------------------------- MODULE BPlusTreeProofs ---------------------------
(***************************************************************************)
(* Proofs about BPlusTree, for every number of keys in a node, every set   *)
(* of entries and so every height of the tree, with any number of failing  *)
(* allocations: each step keeps IndexInv, and the properties follow.       *)
(***************************************************************************)
EXTENDS BPlusTreeLemmas

\* What the types say of the nodes of the tree and of the next allocation.
LEMMA StateFacts ==
  ASSUME TypeInv
  PROVE  /\ span \in [Nodes -> SpanOf] /\ Len(heap) \in Nat
         /\ \A b \in Nodes : heap[b] \in Node /\ b \in 1..Len(heap) /\ b \in Nat /\ b # NULL
         /\ New \in Nat /\ New \notin Nodes /\ New # NULL
         /\ key \in Int /\ key \in Number /\ key < IntMax + 1 /\ -IntMax - 1 <= key
         /\ value \in Address
<1>1. heap \in Seq(Node) /\ span \in [Nodes -> SpanOf] /\ Nodes \subseteq 1..Len(heap)
      /\ key \in Ints /\ value \in Nat
  BY DEF TypeInv
<1>2. Len(heap) \in Nat /\ \A b \in 1..Len(heap) : heap[b] \in Node
  BY ONLY <1>1, LenProperties, ElementOfSeq
<1>3. key \in Int /\ key \in Number /\ key < IntMax + 1 /\ -IntMax - 1 <= key
  BY <1>1, IntMaxAssumption DEF Ints, Number, IntMaxAssumption
<1> QED
  BY <1>1, <1>2, <1>3 DEF New, NULL, Address

\* The children of an inner node divide its range: the one that child_index_for_key
\* picks covers the key.
LEMMA ChildStep ==
  ASSUME NEW D, NEW s \in [D -> SpanOf], NEW h, NEW rt, Sound(h, rt, s),
         NEW a \in D, h[a] \in Node, ~h[a].leaf,
         NEW k \in Number, s[a].low <= k, k < s[a].high,
         NEW idx, idx = ChildIndexForKey(h[a].keys, k), NEW c, c = h[a].kids[idx + 1]
  PROVE  /\ idx \in Nat /\ idx \in 0..Len(h[a].keys) /\ c \in D
         /\ s[c].height = s[a].height - 1 /\ s[c].height \in Nat
         /\ s[c].low <= k /\ k < s[c].high
<1>1. Fits(h[a], s, s[a])
  BY DEF Sound, Shape
<1>2. s[a] \in SpanOf
  OBVIOUS
<1>3. /\ idx \in 0..Len(h[a].keys) /\ idx + 1 \in 1..Len(h[a].kids)
      /\ SegLow(h[a], s[a], idx + 1) <= k /\ k < SegHigh(h[a], s[a], idx + 1)
  BY <1>1, <1>2, Tiles
<1>4. \A i \in 1..Len(h[a].kids) :
        /\ h[a].kids[i] \in DOMAIN s
        /\ s[h[a].kids[i]] = [low |-> SegLow(h[a], s[a], i), high |-> SegHigh(h[a], s[a], i),
                              height |-> s[a].height - 1]
  BY <1>1 DEF Fits
<1> DEFINE low == SegLow(h[a], s[a], idx + 1)  high == SegHigh(h[a], s[a], idx + 1)
<1>5. c \in D /\ s[c] = [low |-> low, high |-> high, height |-> s[a].height - 1]
  BY <1>3, <1>4
<1>6. low <= k /\ k < high
  BY <1>3
<1> HIDE DEF low, high
<1>7. c \in D /\ s[c].low <= k /\ k < s[c].high /\ s[c].height = s[a].height - 1
  BY ONLY <1>5, <1>6
<1>8. s[c].height \in Nat
  <2>1. s[c] \in SpanOf
    BY <1>7
  <2> QED
    BY <2>1, SpanFields
<1> QED
  BY <1>3, <1>7, <1>8

\* What a sound tree says of its root and of each node.
LEMMA SoundFacts ==
  ASSUME NEW D, NEW s \in [D -> SpanOf], NEW h, NEW rt, Sound(h, rt, s)
  PROVE  /\ rt = NULL => D = {}
         /\ rt # NULL => rt \in D /\ s[rt].low = -IntMax - 1 /\ s[rt].high = IntMax + 1
         /\ \A b \in D : Fits(h[b], s, s[b]) /\ s[b].low < s[b].high /\ (h[b].leaf <=> s[b].height = 0)
<1>1. \A b \in D : Fits(h[b], s, s[b])
  BY DEF Sound, Shape
<1>2. \A b \in D : s[b].low < s[b].high /\ (h[b].leaf <=> s[b].height = 0)
  BY <1>1 DEF Fits
<1> QED
  BY <1>1, <1>2 DEF Sound, Rooted, Whole

\* A step that changes neither the nodes nor the contents keeps the tree.
LEMMA TreeKept ==
  ASSUME IndexInv, UNCHANGED <<heap, root, span, map, fails>>, ~Pending, ~Pending',
         \A a \in Nodes :
           Inhabited(span[a], map) \/ (a = node' /\ Len(heap[a].keys) = 0 /\ heap[a].leaf /\ pc' = "insert")
  PROVE  TreeInv' /\ ContentInv' /\ FillInv'
<1>1. TreeInv'
  BY DEF IndexInv, TreeInv
<1>2. ContentInv'
  BY DEF IndexInv, ContentInv, Nodes
<1>3. FillInv'
  BY DEF IndexInv, FillInv, Nodes
<1> QED
  BY <1>1, <1>2, <1>3

\* Between calls every node covers a key.
LEMMA AllInhabited ==
  ASSUME IndexInv, pc # "insert"
  PROVE  \A a \in Nodes : Inhabited(span[a], map)
  BY DEF IndexInv, ContentInv

\* Init.
LEMMA InitIndex == Init => IndexInv
<1> SUFFICES ASSUME Init PROVE IndexInv
  OBVIOUS
<1> USE DEF Init
<1>1. TypeInv
  <2>1. /\ heap \in Seq(Node) /\ frames \in Seq(Frame) /\ Len(heap) = 0
        /\ DOMAIN map = {} /\ Nodes = {}
    BY EmptySeq DEF Nodes
  <2>2. IsFiniteSet(DOMAIN map)
    BY <2>1, FS_EmptySet
  <2>3. key \in Ints /\ result \in Result
    BY IntMaxAssumption DEF Ints, Result, Unsplit, NULL, IntMaxAssumption
  <2>4. map \in [DOMAIN map -> Nat] /\ DOMAIN map \subseteq Ints /\ span \in [Nodes -> SpanOf]
        /\ Nodes \subseteq 1..Len(heap)
    BY <2>1
  <2> QED
    BY <2>1, <2>2, <2>3, <2>4 DEF TypeInv, NULL
<1>2. Nodes = {} /\ DOMAIN map = {} /\ DOMAIN span = {}
  BY DEF Nodes
<1>3. TreeInv
  <2>1. Sound(heap, root, span)
    BY <1>2 DEF Sound, Shape, Nested, Rooted
  <2> QED
    BY <2>1 DEF TreeInv, Pending
<1>4. CallInv
  BY DEF CallInv
<1>5. ContentInv
  BY <1>2 DEF ContentInv, Contents
<1>6. OutcomeInv
  BY <1>2, FS_EmptySet DEF OutcomeInv, Pending
<1>7. FillInv
  BY <1>2 DEF FillInv
<1> QED
  BY <1>1, <1>3, <1>4, <1>5, <1>6, <1>7 DEF IndexInv

-----------------------------------------------------------------------------
(* The steps that leave the tree as it is.                                 *)

\* A call begins at the root, which covers every key.
LEMMA RootCovers ==
  ASSUME IndexInv, pc = "idle", NEW k \in Ints, root # NULL
  PROVE  root \in Nodes /\ span[root].low <= k /\ k < span[root].high
<1>1. Sound(heap, root, span) /\ span \in [Nodes -> SpanOf]
  BY DEF IndexInv, TreeInv, Pending, TypeInv
<1>2. root \in Nodes /\ span[root].low = -IntMax - 1 /\ span[root].high = IntMax + 1
  BY <1>1, SoundFacts
<1>3. -IntMax - 1 <= k /\ k < IntMax + 1
  BY IntMaxAssumption DEF Ints, IntMaxAssumption
<1> QED
  BY <1>2, <1>3

\* bptree_insert begins at the root.
LEMMA InsertCallKeeps ==
  ASSUME IndexInv, NEW e \in Entries, InsertCall(e[1], e[2])
  PROVE  IndexInv'
<1> USE DEF InsertCall, tree
<1>e. e[1] \in Ints /\ e[2] \in Nat
  BY EntriesAssumption DEF EntriesAssumption, Ints
<1>1. TypeInv'
  BY <1>e DEF IndexInv, TypeInv, Nodes
<1>2. TreeInv' /\ ContentInv' /\ FillInv'
  <2>1. \A a \in Nodes : Inhabited(span[a], map)
    BY AllInhabited
  <2>2. ~Pending /\ ~Pending'
    BY DEF Pending
  <2> QED
    BY <2>1, <2>2, TreeKept
<1>3. CallInv'
  <2>1. frames = <<>> /\ root \in Nat
    BY DEF IndexInv, CallInv, TypeInv
  <2>2. root # NULL => root \in Nodes /\ span[root].low <= e[1] /\ e[1] < span[root].high
    <3>1. IndexInv /\ pc = "idle"
      OBVIOUS
    <3> QED
      BY ONLY <1>e, <3>1, RootCovers
  <2>3. Path(heap, span, root, <<>>, root)
    BY DEF Path
  <2> QED
    BY <2>1, <2>2, <2>3 DEF CallInv, Nodes, Covers
<1>4. OutcomeInv'
  BY DEF IndexInv, OutcomeInv, Pending
<1> QED
  BY <1>1, <1>2, <1>3, <1>4 DEF IndexInv

\* So does bptree_search.
LEMMA SearchCallKeeps ==
  ASSUME IndexInv, NEW k \in Keys, SearchCall(k)
  PROVE  IndexInv'
<1> USE DEF SearchCall, tree
<1>e. k \in Ints
  BY EntriesAssumption DEF EntriesAssumption, Ints, Keys
<1>1. TypeInv'
  BY <1>e DEF IndexInv, TypeInv, Nodes
<1>2. TreeInv' /\ ContentInv' /\ FillInv'
  <2>1. \A a \in Nodes : Inhabited(span[a], map)
    BY AllInhabited
  <2>2. ~Pending /\ ~Pending'
    BY DEF Pending
  <2> QED
    BY <2>1, <2>2, TreeKept
<1>3. CallInv'
  <2>1. frames = <<>> /\ root \in Nat
    BY DEF IndexInv, CallInv, TypeInv
  <2>2. root # NULL => root \in Nodes /\ span[root].low <= k /\ k < span[root].high
    <3>1. IndexInv /\ pc = "idle"
      OBVIOUS
    <3> QED
      BY ONLY <1>e, <3>1, RootCovers
  <2> QED
    BY <2>1, <2>2 DEF CallInv, Nodes, Covers
<1>4. OutcomeInv'
  BY DEF IndexInv, OutcomeInv, Pending
<1> QED
  BY <1>1, <1>2, <1>3, <1>4 DEF IndexInv

\* The child that a descent goes to.
LEMMA Below ==
  ASSUME IndexInv, pc \in {"insert", "search"}, node # NULL, ~heap[node].leaf,
         NEW idx, idx = ChildIndexForKey(heap[node].keys, key), NEW c, c = heap[node].kids[idx + 1]
  PROVE  /\ idx \in Nat /\ idx \in 0..Len(heap[node].keys) /\ c \in Nodes /\ c \in Nat /\ c # NULL
         /\ span[c].height = span[node].height - 1 /\ span[c].height \in Nat
         /\ span[c].low <= key /\ key < span[c].high
         /\ \A a \in Nodes : Inhabited(span[a], map)
<1>1. Sound(heap, root, span)
  BY DEF IndexInv, TreeInv, Pending
<1>2. node \in Nodes /\ span[node].low <= key /\ key < span[node].high
  BY DEF IndexInv, CallInv, Covers
<1>3. span \in [Nodes -> SpanOf] /\ heap[node] \in Node /\ key \in Number
  BY <1>2, StateFacts DEF IndexInv
<1>4. \A b \in Nodes : Inhabited(span[b], map) /\ b \in Nat /\ b # NULL
  BY StateFacts DEF IndexInv, ContentInv
<1>5. /\ idx \in Nat /\ idx \in 0..Len(heap[node].keys) /\ c \in Nodes
      /\ span[c].height = span[node].height - 1 /\ span[c].height \in Nat
      /\ span[c].low <= key /\ key < span[c].high
  BY <1>1, <1>2, <1>3, ChildStep
<1> QED
  BY <1>4, <1>5

\* node_insert goes to the child that covers the key.
LEMMA DescendKeeps ==
  ASSUME IndexInv, Descend
  PROVE  IndexInv'
<1> DEFINE idx == ChildIndexForKey(heap[node].keys, key)  c == heap[node].kids[idx + 1]
<1>a. /\ pc = "insert" /\ node # NULL /\ ~heap[node].leaf
      /\ frames' = Append(frames, [node |-> node, idx |-> idx]) /\ node' = c
      /\ UNCHANGED <<heap, root, size, pc, key, value, result, before, ok, map, span, fails>>
  BY DEF Descend, tree
<1>b. /\ idx \in Nat /\ idx \in 0..Len(heap[node].keys) /\ c \in Nodes /\ c \in Nat /\ c # NULL
      /\ span[c].height = span[node].height - 1 /\ span[c].height \in Nat
      /\ span[c].low <= key /\ key < span[c].high
      /\ \A a \in Nodes : Inhabited(span[a], map)
  BY <1>a, Below
<1>c. c = heap[node].kids[idx + 1]
  OBVIOUS
<1> HIDE DEF idx, c
<1>d. /\ node \in Nodes /\ Path(heap, span, root, frames, node)
      /\ node \in Nat /\ frames \in Seq(Frame) /\ span \in [Nodes -> SpanOf]
  BY <1>a DEF IndexInv, CallInv, TypeInv
<1>p. frames' \in Seq(Frame) /\ Path(heap, span, root, frames', c)
  BY <1>a, <1>b, <1>c, <1>d, PathDown
<1>1. TypeInv'
  BY <1>a, <1>b, <1>p DEF IndexInv, TypeInv, Nodes
<1>2. TreeInv' /\ ContentInv' /\ FillInv'
  <2>1. ~Pending /\ ~Pending'
    BY <1>a DEF Pending
  <2> QED
    BY <1>a, <1>b, <2>1, TreeKept
<1>3. CallInv'
  BY <1>a, <1>b, <1>p DEF CallInv, Nodes, Covers
<1>4. OutcomeInv'
  BY <1>a DEF IndexInv, OutcomeInv, Pending
<1> QED
  BY <1>1, <1>2, <1>3, <1>4 DEF IndexInv

\* So does the loop of bptree_search.
LEMMA SearchDescendKeeps ==
  ASSUME IndexInv, SearchDescend
  PROVE  IndexInv'
<1> DEFINE idx == ChildIndexForKey(heap[node].keys, key)  c == heap[node].kids[idx + 1]
<1>a. /\ pc = "search" /\ node # NULL /\ ~heap[node].leaf /\ node' = c
      /\ UNCHANGED <<heap, root, size, pc, key, value, frames, result, before, ok, map, span, fails>>
  BY DEF SearchDescend, tree
<1>b. /\ c \in Nodes /\ c \in Nat /\ c # NULL /\ span[c].low <= key /\ key < span[c].high
      /\ \A a \in Nodes : Inhabited(span[a], map)
  BY <1>a, Below
<1> HIDE DEF idx, c
<1>1. TypeInv'
  BY <1>a, <1>b DEF IndexInv, TypeInv, Nodes
<1>2. TreeInv' /\ ContentInv' /\ FillInv'
  <2>1. ~Pending /\ ~Pending'
    BY <1>a DEF Pending
  <2> QED
    BY <1>a, <1>b, <2>1, TreeKept
<1>3. CallInv'
  BY <1>a, <1>b DEF IndexInv, CallInv, Nodes, Covers
<1>4. OutcomeInv'
  BY <1>a DEF IndexInv, OutcomeInv, Pending
<1> QED
  BY <1>1, <1>2, <1>3, <1>4 DEF IndexInv

\* The locals after a call.
LEMMA ResetTypes ==
  ASSUME Reset, TypeInv
  PROVE  /\ key' \in Ints /\ value' \in Nat /\ node' \in Nat /\ frames' \in Seq(Frame) /\ frames' = <<>>
         /\ result' \in Result
<1>1. 0 \in Ints
  BY IntMaxAssumption DEF Ints, IntMaxAssumption
<1>2. frames' \in Seq(Frame) /\ frames' = <<>>
  BY EmptySeq DEF Reset
<1> QED
  BY <1>1, <1>2 DEF Reset, Result, Unsplit, NULL

\* The end of a search changes nothing of the tree.
LEMMA SearchEndKeeps ==
  ASSUME IndexInv, SearchEnd
  PROVE  IndexInv'
<1> USE DEF SearchEnd, SearchIsOver, tree
<1>0. IndexInv /\ TypeInv
  BY DEF IndexInv
<1>1. TypeInv'
  BY <1>0, ResetTypes DEF TypeInv, Nodes
<1>2. TreeInv' /\ ContentInv' /\ FillInv'
  <2>1. \A a \in Nodes : Inhabited(span[a], map)
    BY AllInhabited
  <2>2. ~Pending /\ ~Pending'
    BY DEF Pending
  <2> QED
    BY <2>1, <2>2, TreeKept
<1>3. CallInv'
  BY <1>0, ResetTypes DEF CallInv
<1>4. OutcomeInv'
  BY DEF IndexInv, OutcomeInv, Pending
<1> QED
  BY <1>1, <1>2, <1>3, <1>4 DEF IndexInv

\* The end of an insertion leaves the tree as it is when no right half waits.
LEMMA FinishKeeps ==
  ASSUME IndexInv, Finish
  PROVE  IndexInv'
<1> USE DEF Finish, Return
<1>0. IndexInv /\ TypeInv
  BY DEF IndexInv
<1>s. size \in Nat /\ Grown \in Nat
  BY DEF IndexInv, TypeInv, Grown
<1>1. TypeInv'
  BY <1>0, <1>s, ResetTypes DEF TypeInv, Nodes
<1>2. TreeInv' /\ ContentInv' /\ FillInv'
  <2>1. \A a \in Nodes : Inhabited(span[a], map)
    BY AllInhabited
  <2>2. ~Pending /\ ~Pending'
    BY DEF Pending
  <2> QED
    BY <2>1, <2>2, TreeKept
<1>3. CallInv'
  BY <1>0, ResetTypes DEF CallInv
<1>4. OutcomeInv'
  <2>1. fails = 0 => Cardinality(DOMAIN map) = Grown + 0
    BY <1>s DEF IndexInv, OutcomeInv, Grown, TypeInv
  <2> QED
    BY <2>1 DEF OutcomeInv, Pending
<1> QED
  BY <1>1, <1>2, <1>3, <1>4 DEF IndexInv

\* The tree stays empty.
LEMMA MakeRootFailKeeps ==
  ASSUME IndexInv, MakeRootFail
  PROVE  IndexInv'
<1> USE DEF MakeRootFail, Return, AllocationFails, tree
<1>0. IndexInv /\ TypeInv /\ fails \in Nat
  BY DEF IndexInv, TypeInv
<1>e. Nodes = {} /\ root = NULL /\ Sound(heap, root, span) /\ ~Pending /\ ~Pending' /\ fails' # 0
  <2>1. root = NULL /\ Sound(heap, root, span) /\ span \in [Nodes -> SpanOf]
    BY DEF IndexInv, CallInv, TreeInv, Pending, TypeInv
  <2>2. Nodes = {}
    BY <2>1, SoundFacts
  <2> QED
    BY <1>0, <2>1, <2>2 DEF Pending
<1>1. TypeInv'
  <2>1. fails' \in Nat
    BY <1>0
  <2> QED
    BY <1>0, <2>1, ResetTypes DEF TypeInv, Nodes
<1>2. TreeInv'
  BY <1>e DEF TreeInv
<1>3. CallInv'
  BY <1>0, <1>e, ResetTypes DEF CallInv
<1>4. ContentInv'
  BY <1>e DEF IndexInv, ContentInv, Nodes
<1>5. OutcomeInv'
  BY <1>e DEF OutcomeInv, Pending
<1>6. FillInv'
  BY <1>e DEF FillInv, Nodes
<1> QED
  BY <1>1, <1>2, <1>3, <1>4, <1>5, <1>6 DEF IndexInv

\* The first node of an empty tree.
LEMMA MakeRootKeeps ==
  ASSUME IndexInv, MakeRoot
  PROVE  IndexInv'
<1> USE DEF MakeRoot
<1> DEFINE n == Leaf(<<>>, <<>>)
<1>e. /\ Nodes = {} /\ root = NULL /\ frames = <<>> /\ DOMAIN map = {} /\ IndexInv /\ TypeInv
      /\ heap \in Seq(Node) /\ New \in Nat /\ New # NULL /\ New = Len(heap) + 1 /\ Len(heap) \in Nat
  <2>1. /\ root = NULL /\ frames = <<>> /\ Sound(heap, root, span) /\ span \in [Nodes -> SpanOf]
        /\ heap \in Seq(Node) /\ TypeInv
    BY DEF IndexInv, CallInv, TreeInv, Pending, TypeInv
  <2>2. Nodes = {}
    BY <2>1, SoundFacts
  <2>3. DOMAIN map = {}
    BY <2>2 DEF IndexInv, ContentInv, Contents, Nodes
  <2> QED
    BY <2>1, <2>2, <2>3, StateFacts DEF New
<1>n. /\ n \in Node /\ n.leaf /\ n.keys = <<>> /\ n.vals = <<>> /\ Len(n.keys) = 0 /\ Len(n.vals) = 0
  BY DEF Leaf, Node
<1> HIDE DEF n
<1>h. /\ heap' \in Seq(Node) /\ Len(heap') = New /\ heap'[New] = n
  <2>1. heap' = Append(heap, n)
    BY DEF n
  <2> QED
    BY <1>e, <1>n, <2>1, Allocated
<1>s. /\ DOMAIN span' = {New} /\ Nodes' = {New} /\ span'[New] = Whole(0)
      /\ span' \in [{New} -> SpanOf] /\ root' = New /\ node' = New
      /\ Whole(0).low = -IntMax - 1 /\ Whole(0).high = IntMax + 1 /\ Whole(0).height = 0
      /\ -IntMax - 1 < IntMax + 1 /\ -IntMax - 1 <= -IntMax - 1 /\ IntMax + 1 <= IntMax + 1
  BY IntMaxAssumption DEF IntMaxAssumption, Whole, SpanOf, Nodes
<1>1. TypeInv'
  <2>1. Nodes' \subseteq 1..Len(heap')
    BY <1>e, <1>h, <1>s
  <2> QED
    BY <1>e, <1>h, <1>s, <2>1 DEF TypeInv
<1>2. TreeInv'
  <2>1. Fits(n, span', Whole(0))
    BY <1>n, <1>s DEF Fits, Ascends, Within
  <2>2. Sound(heap', root', span')
    <3>1. Shape(heap', span', span')
      BY <1>h, <1>s, <2>1 DEF Shape
    <3>2. Nested(span')
      BY <1>s DEF Nested
    <3>3. Rooted(root', span', span')
      BY <1>e, <1>s DEF Rooted
    <3> QED
      BY <1>s, <3>1, <3>2, <3>3 DEF Sound
  <2> QED
    BY <2>2 DEF TreeInv, Pending
<1>3. CallInv'
  <2>1. Path(heap', span', New, <<>>, New)
    BY DEF Path
  <2>2. span'[New].low <= key /\ key < span'[New].high
    BY <1>e, <1>s, StateFacts
  <2> QED
    BY <1>e, <1>s, <2>1, <2>2 DEF CallInv, Covers
<1>4. ContentInv'
  BY <1>e, <1>h, <1>n, <1>s DEF ContentInv, Contents
<1>5. OutcomeInv'
  BY DEF IndexInv, OutcomeInv, Pending
<1>6. FillInv'
  <2>1. 0 <= MaxKeys
    BY MaxKeysAssumption DEF MaxKeysAssumption
  <2> QED
    BY <1>h, <1>n, <1>s, <2>1 DEF FillInv, Pending
<1> QED
  BY <1>1, <1>2, <1>3, <1>4, <1>5, <1>6 DEF IndexInv

-----------------------------------------------------------------------------
(* leaf_insert.                                                            *)

\* The leaf that leaf_insert is at.
LEMMA AtLeaf ==
  ASSUME IndexInv, InsertingAtLeaf
  PROVE  /\ TypeInv /\ Sound(heap, root, span) /\ Contents(heap, span, map) /\ ~Pending
         /\ span \in [Nodes -> SpanOf] /\ \A b \in Nodes : heap[b] \in Node
         /\ node \in Nodes /\ heap[node] \in Node /\ heap[node].leaf
         /\ Fits(heap[node], span, span[node])
         /\ key \in Number /\ span[node].low <= key /\ key < span[node].high /\ value \in Address
         /\ Path(heap, span, root, frames, node) /\ before.map = map /\ before.fails = fails
<1>1. /\ TypeInv /\ Sound(heap, root, span) /\ Contents(heap, span, map) /\ ~Pending
      /\ node \in Nodes /\ heap[node].leaf /\ span[node].low <= key /\ key < span[node].high
      /\ Path(heap, span, root, frames, node) /\ before.map = map /\ before.fails = fails
  BY DEF IndexInv, InsertingAtLeaf, CallInv, Covers, TreeInv, Pending, ContentInv, OutcomeInv
<1>2. /\ span \in [Nodes -> SpanOf] /\ \A b \in Nodes : heap[b] \in Node
      /\ key \in Number /\ value \in Address
  BY <1>1, StateFacts
<1>3. Fits(heap[node], span, span[node])
  BY <1>1, <1>2, SoundFacts
<1> QED
  BY <1>1, <1>2, <1>3

\* leaf_insert finds the key exactly when the tree has it.
LEMMA PresentIsKnown ==
  ASSUME IndexInv, InsertingAtLeaf
  PROVE  Present <=> key \in DOMAIN map
<1>1. /\ Sound(heap, root, span) /\ Contents(heap, span, map)
      /\ span \in [Nodes -> SpanOf] /\ \A b \in Nodes : heap[b] \in Node
      /\ node \in Nodes /\ heap[node].leaf
      /\ key \in Number /\ span[node].low <= key /\ key < span[node].high
  BY AtLeaf
<1>2. key \in DOMAIN map <=> Position < Len(heap[node].keys) /\ heap[node].keys[Position + 1] = key
  BY ONLY <1>1, LeafHasKey DEF Position
<1> QED
  BY <1>2 DEF Present

\* The new entry in its leaf, which may be too long for it for now.
LEMMA LongLeaf ==
  ASSUME IndexInv, InsertingAtLeaf, ~Present,
         NEW m, m = Leaf(LongKeys, LongVals),
         NEW g, g[node] = m, \A b \in Nodes : b # node => g[b] = heap[b]
  PROVE  /\ m \in Node /\ m.leaf /\ Len(m.keys) = Len(heap[node].keys) + 1
         /\ Fits(m, span, span[node])
         /\ Sound(g, root, span) /\ Contents(g, span, Put(map, key, value))
<1> DEFINE n == heap[node]
<1>1. /\ Sound(heap, root, span) /\ Contents(heap, span, map)
      /\ span \in [Nodes -> SpanOf] /\ \A b \in Nodes : heap[b] \in Node
      /\ node \in Nodes /\ n.leaf /\ n \in Node /\ span[node] \in SpanOf
      /\ Fits(n, span, span[node])
      /\ key \in Number /\ span[node].low <= key /\ key < span[node].high /\ value \in Address
  BY AtLeaf
<1>2. /\ Position = LeafFindPosition(n.keys, key)
      /\ ~(Position < Len(n.keys) /\ n.keys[Position + 1] = key)
      /\ m = Leaf(InsertAt(n.keys, Position + 1, key), InsertAt(n.vals, Position + 1, value))
  BY DEF Position, Present, LongKeys, LongVals
<1> HIDE DEF n
<1>3. /\ m \in Node /\ m.leaf /\ Len(m.keys) = Len(n.keys) + 1
      /\ Fits(m, span, span[node])
      /\ \A i \in 1..Len(m.keys) :
           \/ m.keys[i] = key /\ m.vals[i] = value
           \/ \E j \in 1..Len(n.keys) : m.keys[i] = n.keys[j] /\ m.vals[i] = n.vals[j]
      /\ \A j \in 1..Len(n.keys) :
           n.keys[j] # key /\ \E i \in 1..Len(m.keys) : m.keys[i] = n.keys[j]
      /\ \E i \in 1..Len(m.keys) : m.keys[i] = key
  <2>1. PICK pos, p : pos = Position /\ p = span[node]
    OBVIOUS
  <2>2. /\ n \in Node /\ n.leaf /\ p \in SpanOf /\ Fits(n, span, p)
        /\ key \in Number /\ p.low <= key /\ key < p.high /\ value \in Address
    BY ONLY <1>1, <2>1
  <2>3. /\ pos = LeafFindPosition(n.keys, key)
        /\ ~(pos < Len(n.keys) /\ n.keys[pos + 1] = key)
        /\ m = Leaf(InsertAt(n.keys, pos + 1, key), InsertAt(n.vals, pos + 1, value))
    BY ONLY <1>2, <2>1
  <2> QED
    BY ONLY <2>1, <2>2, <2>3, LeafAdd
<1>4. heap[node] = n /\ g[node] = m /\ \A b \in Nodes : b # node => g[b] = heap[b]
  BY DEF n
<1>5. Sound(g, root, span)
  <2>1. heap[node].leaf /\ g[node].leaf /\ Fits(g[node], span, span[node])
    BY <1>1, <1>3, <1>4
  <2> QED
    BY <1>1, <1>4, <2>1, WriteLeaf
<1>6. Contents(g, span, Put(map, key, value))
  <2>1. ASSUME NEW i \in 1..Len(m.keys), ~(m.keys[i] = key /\ m.vals[i] = value)
        PROVE  /\ m.keys[i] # key
               /\ \E j \in 1..Len(n.keys) : m.keys[i] = n.keys[j] /\ m.vals[i] = n.vals[j]
    <3>1. PICK j \in 1..Len(n.keys) : m.keys[i] = n.keys[j] /\ m.vals[i] = n.vals[j]
      BY ONLY <1>3, <2>1
    <3>2. n.keys[j] # key
      BY ONLY <1>3, <3>1
    <3> QED
      BY <3>1, <3>2
  <2>2. Puts(n, m, key, value)
    BY ONLY <1>1, <1>3, <2>1 DEF Puts
  <2>3. Puts(heap[node], g[node], key, value)
    BY <1>4, <2>2
  <2> QED
    BY <1>1, <1>4, <2>3, PutInLeaf
<1> QED
  BY <1>3, <1>5, <1>6 DEF n

\* What leaf_insert's success says of the contents and of the result.
LEMMA PutOutcome ==
  ASSUME IndexInv, InsertingAtLeaf, NEW res \in Result, LeafReturn(res),
         map' = Put(map, key, value), fails' = fails,
         res.new <=> ~Present, res.split => res.new
  PROVE  /\ OutcomeInv'
         /\ map' \in [DOMAIN map' -> Nat] /\ DOMAIN map' \subseteq Ints /\ IsFiniteSet(DOMAIN map')
<1> USE DEF LeafReturn
<1>1. /\ map \in [DOMAIN map -> Nat] /\ DOMAIN map \subseteq Ints /\ IsFiniteSet(DOMAIN map)
      /\ key \in Ints /\ value \in Nat /\ size \in Nat
  BY DEF IndexInv, TypeInv
<1>2. /\ pc = "insert" /\ before.map = map /\ before.fails = fails
      /\ fails = 0 => Cardinality(DOMAIN map) = size
  BY <1>1 DEF InsertingAtLeaf, IndexInv, OutcomeInv
<1>3. res.new <=> key \notin DOMAIN map
  BY PresentIsKnown
<1>4. /\ IsFiniteSet(DOMAIN map') /\ DOMAIN map' = DOMAIN map \cup {key}
      /\ Cardinality(DOMAIN map') =
           IF key \in DOMAIN map THEN Cardinality(DOMAIN map) ELSE Cardinality(DOMAIN map) + 1
  BY <1>1, CardinalityPut
<1>5. map' \in [DOMAIN map' -> Nat] /\ DOMAIN map' \subseteq Ints
  BY <1>1, <1>4 DEF Put
<1>6. fails' = 0 => Cardinality(DOMAIN map') = size' + IF pc' = "return" /\ result'.new THEN 1 ELSE 0
  BY <1>1, <1>2, <1>3, <1>4
<1>7. OutcomeInv'
  BY <1>2, <1>3, <1>6 DEF OutcomeInv, Pending
<1> QED
  BY <1>4, <1>5, <1>7

\* The nodes stay inhabited, and the leaf is now.
LEMMA StillInhabited ==
  ASSUME NEW m, NEW k, NEW v, NEW p, Inhabited(p, m) \/ (p.low <= k /\ k < p.high)
  PROVE  Inhabited(p, Put(m, k, v))
<1>1. DOMAIN Put(m, k, v) = DOMAIN m \cup {k}
  BY DEF Put
<1> QED
  BY <1>1 DEF Inhabited

\* The activations above a leaf do not notice what happens to it.
LEMMA LeafCall ==
  ASSUME IndexInv, InsertingAtLeaf, NEW res, LeafReturn(res), Nodes \subseteq Nodes',
         \A b \in Nodes : b # node => heap'[b] = heap[b],
         \A b \in Nodes : span'[b].height = span[b].height
  PROVE  CallInv'
<1>1. /\ span \in [Nodes -> SpanOf] /\ node \in Nodes /\ frames \in Seq(Frame)
      /\ Path(heap, span, root, frames, node)
  BY AtLeaf DEF TypeInv
<1>2. span[node].height \in Nat
  BY <1>1, SpanFields
<1>3. \A b \in Nodes : span[b].height > span[node].height =>
        b \in DOMAIN span' /\ heap'[b] = heap[b] /\ span'[b].height = span[b].height
  BY <1>2 DEF Nodes
<1>4. Path(heap', span', root, frames, node)
  BY <1>1, <1>3, PathSame
<1> QED
  BY <1>1, <1>4 DEF CallInv, LeafReturn

\* A leaf with other values.
LEMMA OtherVals ==
  ASSUME NEW n \in Node, NEW w \in Seq(Address), NEW x, x = [n EXCEPT !.vals = w]
  PROVE  x \in Node /\ x.leaf = n.leaf /\ x.keys = n.keys /\ x.vals = w
BY DEF Node

\* A value is replaced.
LEMMA ReplaceKeeps ==
  ASSUME IndexInv, Replace
  PROVE  IndexInv'
<1> DEFINE n == heap[node]  p == Position + 1
           x == [n EXCEPT !.vals = [n.vals EXCEPT ![p] = value]]
<1>a. /\ InsertingAtLeaf /\ Present /\ heap' = [heap EXCEPT ![node] = x]
      /\ map' = Put(map, key, value) /\ LeafReturn(Unsplit(FALSE)) /\ UNCHANGED <<span, fails>>
      /\ UNCHANGED <<root, size, key, value, node, frames, before, ok>>
      /\ pc' = "return" /\ result' = Unsplit(FALSE)
  BY DEF Replace, LeafReturn
<1>b. /\ TypeInv /\ Sound(heap, root, span) /\ Contents(heap, span, map) /\ ~Pending
      /\ span \in [Nodes -> SpanOf] /\ \A b \in Nodes : heap[b] \in Node
      /\ node \in Nodes /\ n \in Node /\ n.leaf /\ Fits(n, span, span[node])
      /\ key \in Number /\ span[node].low <= key /\ key < span[node].high /\ value \in Address
  BY <1>a, AtLeaf
<1>c. n.keys[p] = key /\ p \in 1..Len(n.keys) /\ Len(n.keys) \in Nat
      /\ Len(n.vals) = Len(n.keys) /\ Ascends(n.keys)
  <2>1. Position \in 0..Len(n.keys)
    BY <1>b, LeafHasKey DEF Position
  <2>2. Position < Len(n.keys) /\ n.keys[Position + 1] = key
    BY <1>a DEF Present
  <2>3. Len(n.keys) \in Nat /\ Len(n.vals) = Len(n.keys) /\ Ascends(n.keys)
    BY <1>b, LenProperties DEF Fits, Node
  <2> QED
    BY <2>1, <2>2, <2>3
<1>d. n.keys \in Seq(Number) /\ n.vals \in Seq(Address) /\ n.kids \in Seq(Address)
  BY <1>b DEF Node
<1> HIDE DEF p
<1>x. /\ x \in Node /\ x.leaf /\ x.leaf = n.leaf /\ x.keys = n.keys /\ Len(x.vals) = Len(n.vals)
      /\ x.vals[p] = value /\ \A i \in 1..Len(n.keys) : i # p => x.vals[i] = n.vals[i]
  <2> DEFINE w == [n.vals EXCEPT ![p] = value]
  <2>1. /\ w \in Seq(Address) /\ Len(w) = Len(n.vals) /\ w[p] = value
        /\ \A i \in 1..Len(n.vals) : i # p => w[i] = n.vals[i]
    BY <1>b, <1>c, <1>d, Written
  <2>2. x = [n EXCEPT !.vals = w]
    OBVIOUS
  <2> HIDE DEF w, x, n
  <2>3. x \in Node /\ x.leaf = n.leaf /\ x.keys = n.keys /\ x.vals = w
    <3>1. n \in Node /\ w \in Seq(Address)
      BY <1>b, <2>1
    <3> QED
      BY ONLY <2>2, <3>1, OtherVals
  <2> QED
    BY <1>b, <1>c, <2>1, <2>3
<1> HIDE DEF x, n
<1>h. /\ heap' \in Seq(Node) /\ Len(heap') = Len(heap) /\ heap'[node] = x
      /\ \A b \in Nodes : b # node => heap'[b] = heap[b]
  <2>1. heap \in Seq(Node) /\ Nodes \subseteq 1..Len(heap) /\ node \in 1..Len(heap)
    BY <1>b DEF TypeInv
  <2> QED
    BY <1>a, <1>x, <2>1, Written
<1>p. OutcomeInv' /\ map' \in [DOMAIN map' -> Nat] /\ DOMAIN map' \subseteq Ints /\ IsFiniteSet(DOMAIN map')
  <2>1. Unsplit(FALSE) \in Result /\ Unsplit(FALSE).new = FALSE /\ Unsplit(FALSE).split = FALSE
    BY DEF Unsplit, Result, NULL
  <2> QED
    BY <1>a, <2>1, PutOutcome
<1>n. Nodes' = Nodes /\ DOMAIN span = Nodes /\ ~Pending'
  BY <1>a DEF Nodes, Pending, Unsplit
<1>1. TypeInv'
  <2>1. result' \in Result
    BY <1>a DEF Unsplit, Result, NULL
  <2> QED
    BY <1>a, <1>b, <1>h, <1>n, <1>p, <2>1 DEF TypeInv
<1>2. TreeInv'
  <2>1. Fits(x, span, span[node])
    BY <1>b, <1>c, <1>x DEF Fits
  <2>2. Sound(heap', root, span)
    <3>1. heap[node].leaf /\ heap'[node].leaf /\ Fits(heap'[node], span, span[node])
      BY <1>b, <1>h, <1>x, <2>1 DEF n
    <3> QED
      BY <1>b, <1>h, <3>1, WriteLeaf
  <2> QED
    BY <1>a, <1>n, <2>2 DEF TreeInv
<1>3. CallInv'
  BY <1>a, <1>h, <1>n, LeafCall
<1>4. ContentInv'
  <2>1. Contents(heap', span, map')
    <3>1. ASSUME NEW i \in 1..Len(x.keys), ~(x.keys[i] = key /\ x.vals[i] = value)
          PROVE  /\ x.keys[i] # key
                 /\ \E j \in 1..Len(n.keys) : x.keys[i] = n.keys[j] /\ x.vals[i] = n.vals[j]
      <4>1. i # p /\ i \in 1..Len(n.keys)
        BY <1>c, <1>x, <3>1
      <4>2. n.keys[i] # n.keys[p]
        BY <1>c, <1>d, <4>1, ElementOfSeq DEF Ascends, Number
      <4> QED
        BY <1>c, <1>x, <4>1, <4>2
    <3>2. Puts(n, x, key, value)
      BY <1>b, <1>c, <1>x, <3>1 DEF Puts
    <3>3. Puts(heap[node], heap'[node], key, value)
      BY <1>h, <3>2 DEF n
    <3>4. Contents(heap', span, Put(map, key, value))
      BY ONLY <1>b, <1>h, <3>3, PutInLeaf
    <3> QED
      BY <1>a, <3>4
  <2>2. \A b \in Nodes : Inhabited(span[b], map) \/ (span[b].low <= key /\ key < span[b].high)
    BY <1>b DEF IndexInv, ContentInv
  <2>3. \A b \in Nodes : Inhabited(span[b], map')
    BY <1>a, <2>2, StillInhabited
  <2> QED
    BY <1>a, <1>n, <2>1, <2>3 DEF ContentInv
<1>6. FillInv'
  <2>1. \A b \in Nodes : heap'[b].leaf = heap[b].leaf /\ Len(heap'[b].keys) = Len(heap[b].keys)
    <3>1. heap'[node].leaf = heap[node].leaf /\ Len(heap'[node].keys) = Len(heap[node].keys)
      <4>1. heap'[node] = x /\ heap[node] = n
        BY <1>h DEF n
      <4> QED
        BY <1>x, <4>1
    <3> QED
      BY <1>h, <3>1
  <2> QED
    BY <1>a, <1>b, <1>n, <2>1 DEF FillInv, IndexInv
<1> QED
  BY <1>1, <1>2, <1>3, <1>4, <1>p, <1>6 DEF IndexInv

\* An entry is added to a leaf with room.
LEMMA AddToLeafKeeps ==
  ASSUME IndexInv, AddToLeaf
  PROVE  IndexInv'
<1> DEFINE m == Leaf(LongKeys, LongVals)
<1>a. /\ InsertingAtLeaf /\ ~Present /\ heap' = [heap EXCEPT ![node] = m]
      /\ Len(heap[node].keys) < MaxKeys
      /\ map' = Put(map, key, value) /\ LeafReturn(Unsplit(TRUE)) /\ UNCHANGED <<span, fails>>
      /\ UNCHANGED <<root, size, key, value, node, frames, before, ok>>
      /\ pc' = "return" /\ result' = Unsplit(TRUE)
  BY DEF AddToLeaf, LeafReturn
<1>m. m = Leaf(LongKeys, LongVals)
  OBVIOUS
<1> HIDE DEF m
<1>b. /\ TypeInv /\ Sound(heap, root, span) /\ ~Pending
      /\ span \in [Nodes -> SpanOf] /\ \A b \in Nodes : heap[b] \in Node
      /\ node \in Nodes /\ heap[node] \in Node /\ heap[node].leaf
      /\ span[node].low <= key /\ key < span[node].high
  BY <1>a, AtLeaf
<1>c. /\ m \in Node /\ m.leaf /\ Len(m.keys) = Len(heap[node].keys) + 1
  <2> DEFINE g == [b \in Nodes |-> IF b = node THEN m ELSE heap[b]]
  <2>1. g[node] = m /\ \A b \in Nodes : b # node => g[b] = heap[b]
    BY <1>b
  <2> HIDE DEF g
  <2> QED
    BY <1>a, <1>m, <2>1, LongLeaf
<1>h. /\ heap' \in Seq(Node) /\ Len(heap') = Len(heap) /\ heap'[node] = m
      /\ \A b \in Nodes : b # node => heap'[b] = heap[b]
  <2>1. heap \in Seq(Node) /\ Nodes \subseteq 1..Len(heap) /\ node \in 1..Len(heap)
    BY <1>b DEF TypeInv
  <2> QED
    BY <1>a, <1>c, <2>1, Written
<1>s. Sound(heap', root, span) /\ Contents(heap', span, map')
  <2>1. heap'[node] = m /\ \A b \in Nodes : b # node => heap'[b] = heap[b]
    BY <1>h
  <2>2. Sound(heap', root, span) /\ Contents(heap', span, Put(map, key, value))
    BY <1>a, <1>m, <2>1, LongLeaf
  <2> QED
    BY <1>a, <2>2
<1>p. OutcomeInv' /\ map' \in [DOMAIN map' -> Nat] /\ DOMAIN map' \subseteq Ints /\ IsFiniteSet(DOMAIN map')
  <2>1. Unsplit(TRUE) \in Result /\ Unsplit(TRUE).new = TRUE /\ Unsplit(TRUE).split = FALSE
    BY DEF Unsplit, Result, NULL
  <2> QED
    BY <1>a, <2>1, PutOutcome
<1>n. Nodes' = Nodes /\ DOMAIN span = Nodes /\ ~Pending'
  BY <1>a DEF Nodes, Pending, Unsplit
<1>1. TypeInv'
  <2>1. result' \in Result
    BY <1>a DEF Unsplit, Result, NULL
  <2> QED
    BY <1>a, <1>b, <1>h, <1>n, <1>p, <2>1 DEF TypeInv
<1>2. TreeInv'
  BY <1>a, <1>n, <1>s DEF TreeInv
<1>3. CallInv'
  BY <1>a, <1>h, <1>n, LeafCall
<1>4. ContentInv'
  <2>2. \A b \in Nodes : Inhabited(span[b], map) \/ (span[b].low <= key /\ key < span[b].high)
    BY <1>b DEF IndexInv, ContentInv
  <2>3. \A b \in Nodes : Inhabited(span[b], map')
    BY <1>a, <2>2, StillInhabited
  <2> QED
    BY <1>a, <1>n, <1>s, <2>3 DEF ContentInv
<1>6. FillInv'
  <2>1. heap[node].leaf = heap'[node].leaf
    BY <1>b, <1>c, <1>h, Zenon DEF Node
  <2>2. Len(heap[node].keys) \in Nat /\ Len(heap'[node].keys) = Len(heap[node].keys) + 1
    BY <1>b, <1>c, <1>h, LenProperties DEF Node
  <2>3. LeftCount \in Nat /\ MaxKeys \in Nat
    BY Halves, MaxKeysAssumption DEF MaxKeysAssumption
  <2>4. FillInv
    BY DEF IndexInv
  <2>5. ASSUME NEW b \in Nodes
        PROVE  /\ Len(heap'[b].keys) <= MaxKeys
               /\ fails = 0 /\ b # root =>
                    Len(heap'[b].keys) >= IF heap'[b].leaf THEN LeftCount ELSE MaxKeys \div 2
    <3>1. CASE b # node
      BY <1>h, <2>4, <3>1 DEF FillInv
    <3>2. CASE b = node
      BY <1>a, <1>b, <1>c, <1>h, <2>2, <2>3, <2>4, <3>2 DEF FillInv
    <3> QED
      BY <3>1, <3>2
  <2> QED
    BY <1>a, <1>n, <2>5 DEF FillInv
<1> QED
  BY <1>1, <1>2, <1>3, <1>4, <1>p, <1>6 DEF IndexInv

\* The leaf is full and its right half cannot be allocated: nothing changes.
LEMMA SplitLeafFailKeeps ==
  ASSUME IndexInv, SplitLeafFail
  PROVE  IndexInv'
<1>a. /\ InsertingAtLeaf /\ ~Present /\ Len(heap[node].keys) >= MaxKeys
      /\ LeafReturn(Unsplit(FALSE)) /\ UNCHANGED <<heap, map, span>> /\ fails' = fails + 1
      /\ UNCHANGED <<root, size, key, value, node, frames, before, ok>>
      /\ pc' = "return" /\ result' = Unsplit(FALSE) /\ pc = "insert"
  BY DEF SplitLeafFail, LeafReturn, AllocationFails, InsertingAtLeaf
<1>b. /\ TypeInv /\ Sound(heap, root, span) /\ Contents(heap, span, map) /\ ~Pending
      /\ span \in [Nodes -> SpanOf] /\ node \in Nodes /\ heap[node] \in Node
      /\ before.map = map /\ before.fails = fails
  BY <1>a, AtLeaf
<1>n. Nodes' = Nodes /\ DOMAIN span = Nodes /\ ~Pending' /\ fails \in Nat /\ fails' \in Nat
      /\ fails' # 0 /\ fails' # before.fails /\ before.fails < fails'
  BY <1>a, <1>b DEF Nodes, Pending, Unsplit, TypeInv
<1>1. TypeInv'
  <2>1. result' \in Result
    BY <1>a DEF Unsplit, Result, NULL
  <2> QED
    BY <1>a, <1>b, <1>n, <2>1 DEF TypeInv
<1>2. TreeInv'
  BY <1>a, <1>b, <1>n DEF TreeInv
<1>3. CallInv'
  BY <1>a, <1>n, LeafCall
<1>4. ContentInv'
  <2>1. Len(heap[node].keys) # 0
    BY <1>a, <1>b, LenProperties, MaxKeysAssumption DEF Node, MaxKeysAssumption
  <2>2. \A b \in Nodes : Inhabited(span[b], map)
    BY <2>1 DEF IndexInv, ContentInv
  <2> QED
    BY <1>a, <1>b, <1>n, <2>2 DEF ContentInv
<1>5. OutcomeInv'
  <2>1. [map |-> map, ok |-> TRUE] \in FailedInsertOutcomes(map, key, value)
    <3>1. map = [k \in DOMAIN map |-> map[k]] /\ DOMAIN map \subseteq Ints /\ key \in Ints
      BY <1>b DEF TypeInv
    <3>2. key \notin DOMAIN map
      BY <1>a, PresentIsKnown
    <3> QED
      BY <3>1, <3>2, NothingInserted
  <2> QED
    BY <1>a, <1>b, <1>n, <2>1 DEF OutcomeInv, Unsplit
<1>6. FillInv'
  BY <1>a, <1>n DEF FillInv, IndexInv
<1> QED
  BY <1>1, <1>2, <1>3, <1>4, <1>5, <1>6 DEF IndexInv

\* The heap after a split: the left half in place of the node, the right half new.
LEMMA SplitHeap ==
  ASSUME NEW h \in Seq(Node), NEW a \in 1..Len(h), NEW l \in Node, NEW r \in Node,
         NEW g, g = Append([h EXCEPT ![a] = l], r)
  PROVE  /\ g \in Seq(Node) /\ Len(g) = Len(h) + 1 /\ g[a] = l /\ g[Len(h) + 1] = r
         /\ \A b \in 1..Len(h) : b # a => g[b] = h[b]
<1> DEFINE w == [h EXCEPT ![a] = l]
<1>1. w \in Seq(Node) /\ Len(w) = Len(h) /\ w[a] = l /\ \A b \in 1..Len(h) : b # a => w[b] = h[b]
  BY Written
<1>2. g = Append(w, r)
  OBVIOUS
<1> HIDE DEF w
<1>3. g \in Seq(Node) /\ Len(g) = Len(w) + 1 /\ g[Len(w) + 1] = r /\ \A b \in 1..Len(w) : g[b] = w[b]
  BY ONLY <1>1, <1>2, r \in Node, Allocated
<1> QED
  BY <1>1, <1>3

\* The ranges after a split keep all but one end.
LEMMA DividedFields ==
  ASSUME NEW D, NEW s \in [D -> SpanOf], NEW a \in D, NEW new, new \notin D, NEW k \in Int,
         NEW t, t = DividedOf(s, a, new, k)
  PROVE  /\ DOMAIN t = More(D, new)
         /\ \A b \in D : b # a => t[b] = s[b]
         /\ \A b \in D : t[b].height = s[b].height
<1>1. /\ DOMAIN t = More(D, new) /\ t[a] = [s[a] EXCEPT !.high = k]
      /\ \A b \in D : b # a => t[b] = s[b]
  BY DEF DividedOf, More
<1>2. t[a].height = s[a].height
  <2>1. s[a] \in SpanOf
    OBVIOUS
  <2> QED
    BY <1>1, <2>1 DEF SpanOf
<1> QED
  BY <1>1, <1>2

\* A full leaf is divided; the right half waits for a parent.
LEMMA SplitLeafKeeps ==
  ASSUME IndexInv, SplitLeaf
  PROVE  IndexInv'
<1> DEFINE m == Leaf(LongKeys, LongVals)  k == FirstRight(LongKeys)
           l == Leaf(SubSeq(LongKeys, 1, LeftCount), SubSeq(LongVals, 1, LeftCount))
           r == Leaf(SubSeq(LongKeys, LeftCount + 1, MaxKeys + 1),
                     SubSeq(LongVals, LeftCount + 1, MaxKeys + 1))
           res == [split |-> TRUE, key |-> k, right |-> New, new |-> TRUE]
           g == [b \in Nodes |-> IF b = node THEN m ELSE heap[b]]
<1>a. /\ InsertingAtLeaf /\ ~Present /\ Len(heap[node].keys) >= MaxKeys
      /\ heap' = Append([heap EXCEPT ![node] = l], r)
      /\ map' = Put(map, key, value) /\ span' = Divided(node, k) /\ LeafReturn(res) /\ fails' = fails
      /\ UNCHANGED <<root, size, key, value, node, frames, before, ok>>
      /\ pc' = "return" /\ result' = res
  BY DEF SplitLeaf, LeafReturn
<1>b. /\ TypeInv /\ Sound(heap, root, span) /\ ~Pending
      /\ span \in [Nodes -> SpanOf] /\ \A b \in Nodes : heap[b] \in Node
      /\ node \in Nodes /\ heap[node] \in Node /\ heap[node].leaf
      /\ span[node].low <= key /\ key < span[node].high
  BY <1>a, AtLeaf
<1>g. g[node] = m /\ \A b \in Nodes : b # node => g[b] = heap[b]
  BY <1>b
<1>m. m = Leaf(LongKeys, LongVals) /\ m.keys = LongKeys /\ m.vals = LongVals
  BY DEF Leaf
<1>l. /\ k = FirstRight(m.keys)
      /\ l = Leaf(SubSeq(m.keys, 1, LeftCount), SubSeq(m.vals, 1, LeftCount))
      /\ r = Leaf(SubSeq(m.keys, LeftCount + 1, MaxKeys + 1), SubSeq(m.vals, LeftCount + 1, MaxKeys + 1))
  BY <1>m
<1>r. res.split = TRUE /\ res.key = k /\ res.right = New /\ res.new = TRUE
      /\ res = [split |-> TRUE, key |-> k, right |-> New, new |-> TRUE]
  OBVIOUS
<1> HIDE DEF m, k, l, r, res, g
<1>c. /\ m \in Node /\ m.leaf /\ Len(m.keys) = Len(heap[node].keys) + 1
      /\ Fits(m, span, span[node])
      /\ Sound(g, root, span) /\ Contents(g, span, map')
  BY <1>a, <1>g, <1>m, LongLeaf
<1>d. Len(m.keys) = MaxKeys + 1
  <2>1. Len(heap[node].keys) <= MaxKeys /\ MaxKeys \in Nat
    BY <1>b, MaxKeysAssumption DEF IndexInv, FillInv, MaxKeysAssumption
  <2>2. Len(heap[node].keys) \in Nat
    BY <1>b, LenProperties DEF Node
  <2> QED
    BY <1>a, <1>c, <2>1, <2>2
<1>f. span[node] \in SpanOf /\ New \notin Nodes /\ New \in Nat /\ New = Len(heap) + 1
      /\ DOMAIN span = Nodes
  BY <1>b, StateFacts DEF New
<1>e. /\ l \in Node /\ l.leaf /\ r \in Node /\ r.leaf
      /\ Len(l.keys) = LeftCount /\ Len(r.keys) = MaxKeys + 1 - LeftCount
      /\ k \in Int /\ span[node].low < k /\ k < span[node].high
      /\ Fits(l, span, [span[node] EXCEPT !.high = k]) /\ Fits(r, span, [span[node] EXCEPT !.low = k])
      /\ \A i \in 1..LeftCount : l.keys[i] = m.keys[i] /\ l.vals[i] = m.vals[i]
      /\ \A i \in 1..MaxKeys + 1 - LeftCount :
           r.keys[i] = m.keys[LeftCount + i] /\ r.vals[i] = m.vals[LeftCount + i]
  <2>1. PICK p : p = span[node]
    OBVIOUS
  <2>2. /\ m \in Node /\ m.leaf /\ p \in SpanOf /\ Fits(m, span, p)
        /\ Len(m.keys) = MaxKeys + 1
    BY ONLY <1>c, <1>d, <1>f, <2>1
  <2> QED
    BY ONLY <1>l, <2>1, <2>2, LeafHalves
<1>h. /\ heap' \in Seq(Node) /\ Len(heap') = Len(heap) + 1 /\ heap'[node] = l /\ heap'[New] = r
      /\ \A b \in Nodes : b # node => heap'[b] = heap[b]
  <2>1. heap \in Seq(Node) /\ Nodes \subseteq 1..Len(heap) /\ node \in 1..Len(heap)
    BY <1>b DEF TypeInv
  <2> QED
    BY <1>a, <1>e, <1>f, <2>1, SplitHeap
<1>s. /\ span' = DividedOf(span, node, New, k)
      /\ DOMAIN span' = More(Nodes, New) /\ span'[node] = [span[node] EXCEPT !.high = k]
      /\ span'[New] = [span[node] EXCEPT !.low = k]
      /\ \A b \in Nodes : b # node => span'[b] = span[b]
      /\ \A b \in Nodes : span'[b].height = span[b].height
  <2>1. span' = DividedOf(span, node, New, k)
    BY <1>a DEF Divided, DividedOf
  <2>2. k \in Int /\ node \in Nodes /\ New \notin Nodes /\ span \in [Nodes -> SpanOf]
    BY <1>b, <1>e, <1>f
  <2>3. /\ DOMAIN span' = More(Nodes, New) /\ \A b \in Nodes : b # node => span'[b] = span[b]
        /\ \A b \in Nodes : span'[b].height = span[b].height
    BY ONLY <2>1, <2>2, DividedFields
  <2>4. span'[node] = [span[node] EXCEPT !.high = k] /\ span'[New] = [span[node] EXCEPT !.low = k]
    BY <1>f, <2>1, <2>2 DEF DividedOf
  <2> QED
    BY <2>1, <2>3, <2>4
<1>t. Parted(heap', root, span', node, New, k) /\ span' \in [More(Nodes, New) -> SpanOf]
  <2>1. g[node] = m /\ heap'[node] = l /\ heap'[New] = r
    BY <1>g, <1>h
  <2>2. l.leaf = m.leaf /\ r.leaf = m.leaf
    BY <1>c, <1>e, Zenon DEF Node
  <2>3. Halved(m, span, span[node], k, l, r)
    BY ONLY <1>c, <1>e, <2>2 DEF Halved
  <2>4. g[node] \in Node /\ Halved(g[node], span, span[node], k, heap'[node], heap'[New])
    BY <1>c, <2>1, <2>3
  <2>5. \A b \in Nodes : b # node => heap'[b] = g[b]
    BY <1>g, <1>h
  <2>6. /\ node \in Nodes /\ New \notin Nodes /\ k \in Int /\ span[node].low < k /\ k < span[node].high
        /\ span \in [Nodes -> SpanOf] /\ Sound(g, root, span) /\ span' = DividedOf(span, node, New, k)
    BY <1>b, <1>c, <1>e, <1>f, <1>s
  <2> QED
    BY ONLY <2>4, <2>5, <2>6, DivideNode
<1>u. Contents(heap', span', map')
  <2>1. /\ Contents(g, span, map') /\ Nodes = DOMAIN span /\ node \in Nodes /\ New \notin Nodes
        /\ DOMAIN span' = More(Nodes, New)
    BY <1>b, <1>c, <1>f, <1>s
  <2>2. /\ g[node] = m /\ heap'[node] = l /\ heap'[New] = r
        /\ \A b \in Nodes : b # node => heap'[b] = g[b]
    BY <1>g, <1>h
  <2> DEFINE B == MaxKeys + 1 - LeftCount
  <2>3. /\ LeftCount \in Nat /\ B \in Nat /\ Len(m.keys) = LeftCount + B
        /\ Len(l.keys) = LeftCount /\ Len(r.keys) = B
    BY <1>d, <1>e, Halves, MaxKeysAssumption DEF MaxKeysAssumption
  <2>4. /\ \A i \in 1..LeftCount : l.keys[i] = m.keys[i] /\ l.vals[i] = m.vals[i]
        /\ \A i \in 1..B : r.keys[i] = m.keys[LeftCount + i] /\ r.vals[i] = m.vals[LeftCount + i]
    BY <1>e
  <2> HIDE DEF B
  <2>5. Shared(m, LeftCount, B, l, r)
    BY <1>c, <1>e, <2>3, <2>4 DEF Shared
  <2>6. Shared(g[node], LeftCount, B, heap'[node], heap'[New])
    BY <2>2, <2>5
  <2>7. LeftCount \in Nat /\ B \in Nat
    BY <2>3
  <2>8. \A b \in Nodes : b # node => heap'[b] = g[b]
    BY <2>2
  <2> QED
    BY ONLY <2>1, <2>6, <2>7, <2>8, ContentsHalves
<1>n. Nodes' = More(Nodes, New) /\ Pending' /\ res \in Result
  BY <1>a, <1>e, <1>f, <1>r, <1>s DEF Nodes, Pending, Result
<1>p. OutcomeInv' /\ map' \in [DOMAIN map' -> Nat] /\ DOMAIN map' \subseteq Ints /\ IsFiniteSet(DOMAIN map')
  BY <1>a, <1>n, <1>r, PutOutcome
<1>1. TypeInv'
  <2>1. Nodes' \subseteq 1..Len(heap')
    BY <1>b, <1>f, <1>h, <1>n DEF TypeInv, More
  <2> QED
    BY <1>a, <1>b, <1>h, <1>n, <1>p, <1>t, <2>1 DEF TypeInv
<1>2. TreeInv'
  BY <1>a, <1>n, <1>r, <1>t DEF TreeInv
<1>3. CallInv'
  BY <1>a, <1>h, <1>n, <1>s, LeafCall DEF More
<1>4. ContentInv'
  <2>1. \A b \in Nodes \ {node} : Inhabited(span[b], map)
    BY <1>b DEF IndexInv, ContentInv
  <2>2. \A b \in Nodes \ {node} : Inhabited(span'[b], map')
    BY <1>a, <1>s, <2>1, StillInhabited
  <2>3. Inhabited(span'[node], map')
    <3>1. node \in DOMAIN span' /\ heap'[node].leaf /\ Len(heap'[node].keys) \in Nat
          /\ Len(heap'[node].keys) > 0 /\ Fits(heap'[node], span, span'[node])
      BY <1>b, <1>e, <1>h, <1>s, Halves DEF More
    <3> QED
      BY <1>u, <3>1, LeafInhabited
  <2>4. Inhabited(span'[New], map')
    <3>1. New \in DOMAIN span' /\ heap'[New].leaf /\ Len(heap'[New].keys) \in Nat
          /\ Len(heap'[New].keys) > 0 /\ Fits(heap'[New], span, span'[New])
      BY <1>e, <1>h, <1>s, Halves, MaxKeysAssumption DEF MaxKeysAssumption, More
    <3> QED
      BY <1>u, <3>1, LeafInhabited
  <2> QED
    BY <1>n, <1>u, <2>2, <2>3, <2>4 DEF ContentInv, More
<1>6. FillInv'
  <2>1. FillInv /\ ~Pending
    BY <1>b DEF IndexInv
  <2>2. LeftCount \in Nat /\ LeftCount <= MaxKeys /\ MaxKeys + 1 - LeftCount \in Nat
        /\ MaxKeys + 1 - LeftCount <= MaxKeys /\ MaxKeys + 1 - LeftCount >= LeftCount
    BY Halves, MaxKeysAssumption DEF MaxKeysAssumption
  <2>3. ASSUME NEW b \in Nodes'
        PROVE  /\ Len(heap'[b].keys) <= MaxKeys
               /\ fails' = 0 /\ (b # root' \/ (Pending' /\ b = node')) =>
                    Len(heap'[b].keys) >= IF heap'[b].leaf THEN LeftCount ELSE MaxKeys \div 2
    <3>1. CASE b = node
      BY <1>e, <1>h, <2>2, <3>1
    <3>2. CASE b = New
      BY <1>e, <1>h, <2>2, <3>2
    <3>3. CASE b \in Nodes /\ b # node
      BY <1>a, <1>h, <2>1, <3>3 DEF FillInv
    <3> QED
      BY <1>n, <3>1, <3>2, <3>3 DEF More
  <2> QED
    BY <2>3 DEF FillInv
<1> QED
  BY <1>1, <1>2, <1>3, <1>4, <1>p, <1>6 DEF IndexInv

-----------------------------------------------------------------------------
(* node_insert after the child's return.                                   *)

\* A tree whose divided node waits for its parent.
LEMMA AtSplit ==
  ASSUME IndexInv, pc = "return", result.split
  PROVE  /\ TypeInv /\ Parted(heap, root, span, node, result.right, result.key) /\ Pending
         /\ span \in [Nodes -> SpanOf] /\ \A b \in Nodes : heap[b] \in Node
         /\ node \in Nodes /\ Path(heap, span, root, frames, node) /\ frames \in Seq(Frame)
         /\ result.right \in Address /\ result.new
         /\ Contents(heap, span, map) /\ \A b \in Nodes : Inhabited(span[b], map)
<1>1. TypeInv /\ Pending
  BY DEF IndexInv, Pending
<1>2. /\ Parted(heap, root, span, node, result.right, result.key) /\ node \in Nodes
      /\ Path(heap, span, root, frames, node) /\ result.new
      /\ Contents(heap, span, map) /\ \A b \in Nodes : Inhabited(span[b], map)
  BY <1>1 DEF IndexInv, TreeInv, CallInv, OutcomeInv, ContentInv
<1>3. span \in [Nodes -> SpanOf] /\ \A b \in Nodes : heap[b] \in Node
  BY <1>1, StateFacts
<1>4. result.right \in Address /\ frames \in Seq(Frame)
  BY <1>1 DEF TypeInv, Result, Address
<1> QED
  BY <1>1, <1>2, <1>3, <1>4

\* The caller of the activation that returned is its node's parent.
LEMMA AtCaller ==
  ASSUME IndexInv, CallerHasSplitChild
  PROVE  /\ Front(frames) \in Seq(Frame) /\ Path(heap, span, root, Front(frames), Caller.node)
         /\ Caller.node \in Nodes /\ ~heap[Caller.node].leaf /\ Caller.node \in Nat
         /\ Caller.idx \in 0..Len(heap[Caller.node].keys)
         /\ heap[Caller.node].kids[Caller.idx + 1] = node
         /\ span[Caller.node].height = span[node].height + 1
         /\ span[node].height \in Nat /\ Caller.node # node
<1>1. /\ span \in [Nodes -> SpanOf] /\ node \in Nodes /\ Path(heap, span, root, frames, node)
      /\ frames \in Seq(Frame) /\ frames # <<>> /\ TypeInv
  BY AtSplit DEF CallerHasSplitChild
<1>2. /\ Front(frames) \in Seq(Frame) /\ Last(frames) \in Frame
      /\ Path(heap, span, root, Front(frames), Last(frames).node)
      /\ Last(frames).node \in Nodes /\ ~heap[Last(frames).node].leaf
      /\ Last(frames).idx \in 0..Len(heap[Last(frames).node].keys)
      /\ heap[Last(frames).node].kids[Last(frames).idx + 1] = node
      /\ span[Last(frames).node].height = span[node].height + 1
  BY ONLY <1>1, PathUp
<1>3. span[node].height \in Nat
  BY <1>1, SpanFields
<1>4. Last(frames).node \in Nat
  BY <1>1, <1>2, StateFacts
<1> QED
  BY <1>2, <1>3, <1>4 DEF Caller

\* The caller's node with the new key and child, which may be too long for it for now.
LEMMA LongInner ==
  ASSUME IndexInv, CallerHasSplitChild,
         NEW m, m = Inner(LongerKeys, LongerKids),
         NEW g, g[Caller.node] = m, \A b \in Nodes : b # Caller.node => g[b] = heap[b]
  PROVE  /\ m \in Node /\ ~m.leaf /\ Len(m.keys) = Len(heap[Caller.node].keys) + 1
         /\ Sound(g, root, span)
<1>1. /\ Parted(heap, root, span, node, result.right, result.key)
      /\ span \in [Nodes -> SpanOf] /\ result.right \in Address
      /\ \A b \in Nodes : heap[b] \in Node
  BY AtSplit DEF CallerHasSplitChild
<1>2. Caller.node \in Nodes /\ ~heap[Caller.node].leaf /\ ChildAt(heap[Caller.node], Caller.idx, node)
  BY AtCaller DEF ChildAt
<1>3. m = Longer(heap[Caller.node], Caller.idx, result.key, result.right)
  BY DEF Longer, LongerKeys, LongerKids
<1> DEFINE D == Nodes  k == result.key  r == result.right  a == Caller.node  idx == Caller.idx
<1>4. Adopted(D, heap, g, a, idx, k, r, node)
  BY <1>1, <1>2, <1>3 DEF Adopted, SameBut
<1>5. span \in [D -> SpanOf] /\ Parted(heap, root, span, node, r, k) /\ r \in Address
  BY ONLY <1>1
<1> HIDE DEF D, k, r, a, idx
<1>6. Sound(g, root, span) /\ g[a] \in Node /\ ~g[a].leaf /\ Len(g[a].keys) = Len(heap[a].keys) + 1
  BY ONLY <1>4, <1>5, AdoptRight
<1> QED
  BY <1>6 DEF a

\* The activations above the caller do not notice what happens to its node.
LEMMA InnerCall ==
  ASSUME IndexInv, CallerHasSplitChild, NEW res, InnerReturn(res),
         Caller.node \in Nodes', span'[Caller.node].height = span[Caller.node].height,
         \A b \in Nodes : span[b].height > span[Caller.node].height =>
           b \in Nodes' /\ heap'[b] = heap[b] /\ span'[b].height = span[b].height
  PROVE  CallInv' /\ frames' \in Seq(Frame)
<1>1. /\ Front(frames) \in Seq(Frame) /\ Path(heap, span, root, Front(frames), Caller.node)
      /\ Caller.node \in Nodes /\ span \in [Nodes -> SpanOf]
  BY AtCaller, AtSplit DEF CallerHasSplitChild
<1>2. \A b \in Nodes : span[b].height > span[Caller.node].height =>
        b \in DOMAIN span' /\ heap'[b] = heap[b] /\ span'[b].height = span[b].height
  BY DEF Nodes
<1>3. Path(heap', span', root, Front(frames), Caller.node)
  BY <1>1, <1>2, PathSame
<1> QED
  BY <1>1, <1>3 DEF CallInv, InnerReturn, CallerHasSplitChild

\* What a step on the way up that keeps the contents says of the outcome.
LEMMA SameOutcome ==
  ASSUME IndexInv, pc = "return", result.split, pc' = "return",
         UNCHANGED <<map, key, value, before, fails, size>>, result'.new = result.new
  PROVE  OutcomeInv'
<1>1. /\ fails = before.fails /\ map = Put(before.map, key, value)
      /\ result.new <=> key \notin DOMAIN before.map
      /\ result.new
      /\ fails = 0 => Cardinality(DOMAIN map) = size + IF pc = "return" /\ result.new THEN 1 ELSE 0
  BY DEF IndexInv, OutcomeInv, Pending
<1> QED
  BY <1>1 DEF OutcomeInv, Pending

\* The right half gets its parent.
LEMMA AddToInnerKeeps ==
  ASSUME IndexInv, AddToInner
  PROVE  IndexInv'
<1> DEFINE m == Inner(LongerKeys, LongerKids)  a == Caller.node
<1>a. /\ CallerHasSplitChild /\ pc = "return" /\ result.split /\ Len(heap[a].keys) < MaxKeys
      /\ heap' = [heap EXCEPT ![a] = m] /\ UNCHANGED <<map, span, fails>>
      /\ InnerReturn(Unsplit(result.new))
      /\ UNCHANGED <<root, size, pc, key, value, before, ok>>
      /\ result' = Unsplit(result.new) /\ node' = a
  BY DEF AddToInner, InnerReturn, CallerHasSplitChild
<1>b. /\ TypeInv /\ span \in [Nodes -> SpanOf] /\ \A b \in Nodes : heap[b] \in Node
      /\ Contents(heap, span, map) /\ \A b \in Nodes : Inhabited(span[b], map)
  BY <1>a, AtSplit
<1>c. /\ a \in Nodes /\ ~heap[a].leaf /\ span[a].height \in Nat /\ a \in Nat
  BY <1>a, <1>b, AtCaller, SpanFields
<1>m. m = Inner(LongerKeys, LongerKids) /\ a = Caller.node
  OBVIOUS
<1> HIDE DEF m, a
<1>d. /\ m \in Node /\ ~m.leaf /\ Len(m.keys) = Len(heap[a].keys) + 1
  <2> DEFINE g == [b \in Nodes |-> IF b = a THEN m ELSE heap[b]]
  <2>1. g[a] = m /\ \A b \in Nodes : b # a => g[b] = heap[b]
    BY <1>c
  <2> HIDE DEF g
  <2> QED
    BY <1>a, <1>m, <2>1, LongInner
<1>h. /\ heap' \in Seq(Node) /\ Len(heap') = Len(heap) /\ heap'[a] = m
      /\ \A b \in Nodes : b # a => heap'[b] = heap[b]
  <2>1. heap \in Seq(Node) /\ Nodes \subseteq 1..Len(heap) /\ a \in 1..Len(heap)
    BY <1>b, <1>c DEF TypeInv
  <2> QED
    BY <1>a, <1>d, <2>1, Written
<1>s. Sound(heap', root, span)
  <2>1. heap'[a] = m /\ \A b \in Nodes : b # a => heap'[b] = heap[b]
    BY <1>h
  <2> QED
    BY <1>a, <1>m, <2>1, LongInner
<1>n. /\ Nodes' = Nodes /\ DOMAIN span = Nodes /\ ~Pending'
      /\ result' \in Result /\ result'.new = result.new
  BY <1>a, <1>b DEF Nodes, Pending, Unsplit, TypeInv, Result, NULL
<1>3. CallInv' /\ frames' \in Seq(Frame)
  <2>1. \A b \in Nodes : span[b].height > span[a].height =>
          b \in Nodes' /\ heap'[b] = heap[b] /\ span'[b].height = span[b].height
    BY <1>a, <1>c, <1>h, <1>n
  <2>2. a \in Nodes' /\ span'[a].height = span[a].height
    BY <1>a, <1>c, <1>n
  <2> QED
    BY <1>a, <1>m, <2>1, <2>2, InnerCall
<1>1. TypeInv'
  BY <1>3, <1>a, <1>b, <1>c, <1>h, <1>n DEF TypeInv
<1>2. TreeInv'
  BY <1>a, <1>n, <1>s DEF TreeInv
<1>4. ContentInv'
  <2>1. \A b \in Nodes : heap[b].leaf => heap'[b] = heap[b]
    BY <1>c, <1>h
  <2>2. \A b \in Nodes : heap'[b].leaf => b \in Nodes /\ heap[b].leaf /\ heap'[b] = heap[b]
    BY <1>d, <1>h
  <2>3. Contents(heap', span, map)
    BY <1>b, <1>n, <2>1, <2>2, ContentsInner
  <2> QED
    BY <1>a, <1>b, <1>n, <2>3 DEF ContentInv
<1>5. OutcomeInv'
  BY <1>a, <1>n, SameOutcome
<1>6. FillInv'
  <2>1. FillInv
    BY DEF IndexInv
  <2>2. heap[a].leaf = heap'[a].leaf
    BY <1>c, <1>d, <1>b, <1>h, Zenon DEF Node
  <2>3. Len(heap[a].keys) \in Nat /\ Len(heap'[a].keys) = Len(heap[a].keys) + 1
    BY <1>b, <1>c, <1>d, <1>h, LenProperties DEF Node
  <2>4. LeftCount \in Nat /\ MaxKeys \in Nat /\ MaxKeys \div 2 \in Nat
    BY Halves, MaxKeysAssumption DEF MaxKeysAssumption
  <2>5. ASSUME NEW b \in Nodes
        PROVE  /\ Len(heap'[b].keys) <= MaxKeys
               /\ fails = 0 /\ b # root =>
                    Len(heap'[b].keys) >= IF heap'[b].leaf THEN LeftCount ELSE MaxKeys \div 2
    <3>1. CASE b # a
      BY <1>h, <2>1, <3>1 DEF FillInv
    <3>2. CASE b = a
      BY <1>a, <1>c, <2>1, <2>2, <2>3, <2>4, <3>2 DEF FillInv
    <3> QED
      BY <3>1, <3>2
  <2> QED
    BY <1>a, <1>n, <2>5 DEF FillInv
<1> QED
  BY <1>1, <1>2, <1>3, <1>4, <1>5, <1>6 DEF IndexInv

\* The parent is divided in turn, and one of its halves adopts the right half.
LEMMA SplitInnerKeeps ==
  ASSUME IndexInv, SplitInner
  PROVE  IndexInv'
<1> DEFINE m == Inner(LongerKeys, LongerKids)  a == Caller.node  k == FirstRight(LongerKeys)
           l == Inner(SubSeq(LongerKeys, 1, LeftCount), SubSeq(LongerKids, 1, LeftCount + 1))
           r == Inner(SubSeq(LongerKeys, LeftCount + 2, MaxKeys + 1),
                      SubSeq(LongerKids, LeftCount + 2, MaxKeys + 2))
           res == [split |-> TRUE, key |-> k, right |-> New, new |-> result.new]
           g == [b \in Nodes |-> IF b = a THEN m ELSE heap[b]]
<1>a. /\ CallerHasSplitChild /\ pc = "return" /\ result.split /\ Len(heap[a].keys) >= MaxKeys
      /\ heap' = Append([heap EXCEPT ![a] = l], r)
      /\ span' = Divided(a, k) /\ InnerReturn(res) /\ UNCHANGED <<map, fails>>
      /\ UNCHANGED <<root, size, pc, key, value, before, ok>>
      /\ result' = res /\ node' = a
  BY DEF SplitInner, InnerReturn, CallerHasSplitChild
<1>b. /\ TypeInv /\ span \in [Nodes -> SpanOf] /\ \A b \in Nodes : heap[b] \in Node
      /\ Contents(heap, span, map) /\ \A b \in Nodes : Inhabited(span[b], map)
      /\ result.new
  BY <1>a, AtSplit
<1>c. /\ a \in Nodes /\ ~heap[a].leaf /\ span[a].height \in Nat /\ a \in Nat
  BY <1>a, <1>b, AtCaller, SpanFields
<1>g. g[a] = m /\ \A b \in Nodes : b # a => g[b] = heap[b]
  BY <1>c
<1>m. m = Inner(LongerKeys, LongerKids) /\ a = Caller.node
      /\ m.keys = LongerKeys /\ m.kids = LongerKids
  BY DEF Inner
<1>l. /\ k = FirstRight(m.keys)
      /\ l = Inner(SubSeq(m.keys, 1, LeftCount), SubSeq(m.kids, 1, LeftCount + 1))
      /\ r = Inner(SubSeq(m.keys, LeftCount + 2, MaxKeys + 1), SubSeq(m.kids, LeftCount + 2, MaxKeys + 2))
  BY <1>m
<1>r. res.split = TRUE /\ res.key = k /\ res.right = New /\ res.new = result.new
      /\ res = [split |-> TRUE, key |-> k, right |-> New, new |-> result.new]
  OBVIOUS
<1> HIDE DEF m, a, k, l, r, res, g
<1>d. /\ m \in Node /\ ~m.leaf /\ Len(m.keys) = Len(heap[a].keys) + 1
      /\ Sound(g, root, span) /\ Fits(m, span, span[a])
  <2>1. /\ m \in Node /\ ~m.leaf /\ Len(m.keys) = Len(heap[a].keys) + 1
        /\ Sound(g, root, span)
    BY <1>a, <1>g, <1>m, LongInner
  <2>2. Fits(g[a], span, span[a])
    BY <1>b, <1>c, <2>1, SoundFacts
  <2> QED
    BY <1>g, <2>1, <2>2
<1>i. Len(m.keys) = MaxKeys + 1 /\ Len(m.kids) = MaxKeys + 2
  <2>1. Len(heap[a].keys) <= MaxKeys /\ MaxKeys \in Nat
    BY <1>c, MaxKeysAssumption DEF IndexInv, FillInv, MaxKeysAssumption
  <2>2. Len(heap[a].keys) \in Nat
    BY <1>b, <1>c, LenProperties DEF Node
  <2>3. Len(m.kids) = Len(m.keys) + 1
    BY <1>d DEF Fits
  <2> QED
    BY <1>a, <1>d, <2>1, <2>2, <2>3
<1>f. span[a] \in SpanOf /\ New \notin Nodes /\ New \in Nat /\ New = Len(heap) + 1
      /\ DOMAIN span = Nodes
  BY <1>b, <1>c, StateFacts DEF New
<1>e. /\ l \in Node /\ ~l.leaf /\ r \in Node /\ ~r.leaf
      /\ Len(l.keys) = LeftCount /\ Len(r.keys) = MaxKeys - LeftCount
      /\ k \in Int /\ span[a].low < k /\ k < span[a].high
      /\ Fits(l, span, [span[a] EXCEPT !.high = k]) /\ Fits(r, span, [span[a] EXCEPT !.low = k])
      /\ Len(l.kids) = LeftCount + 1 /\ Len(r.kids) = MaxKeys - LeftCount + 1
      /\ \A i \in 1..LeftCount + 1 : l.kids[i] = m.kids[i]
      /\ \A i \in 1..MaxKeys - LeftCount + 1 : r.kids[i] = m.kids[LeftCount + 1 + i]
      /\ \A i \in 1..Len(m.kids) : SegHigh(m, span[a], i) <= k \/ k <= SegLow(m, span[a], i)
  <2>1. PICK p : p = span[a]
    OBVIOUS
  <2>2. /\ m \in Node /\ ~m.leaf /\ p \in SpanOf /\ Fits(m, span, p) /\ Len(m.keys) = MaxKeys + 1
        /\ k = FirstRight(m.keys)
        /\ l = Inner(SubSeq(m.keys, 1, LeftCount), SubSeq(m.kids, 1, LeftCount + 1))
        /\ r = Inner(SubSeq(m.keys, LeftCount + 2, MaxKeys + 1), SubSeq(m.kids, LeftCount + 2, MaxKeys + 2))
    BY ONLY <1>d, <1>i, <1>f, <1>l, <2>1
  <2> QED
    BY ONLY <2>1, <2>2, InnerHalves
<1>h. /\ heap' \in Seq(Node) /\ Len(heap') = Len(heap) + 1 /\ heap'[a] = l /\ heap'[New] = r
      /\ \A b \in Nodes : b # a => heap'[b] = heap[b]
  <2>1. heap \in Seq(Node) /\ Nodes \subseteq 1..Len(heap) /\ a \in 1..Len(heap)
    BY <1>b, <1>c DEF TypeInv
  <2> QED
    BY <1>a, <1>e, <1>f, <2>1, SplitHeap
<1>s. /\ span' = DividedOf(span, a, New, k)
      /\ DOMAIN span' = More(Nodes, New) /\ span'[a] = [span[a] EXCEPT !.high = k]
      /\ span'[New] = [span[a] EXCEPT !.low = k]
      /\ \A b \in Nodes : b # a => span'[b] = span[b]
      /\ \A b \in Nodes : span'[b].height = span[b].height
  <2>1. span' = DividedOf(span, a, New, k)
    BY <1>a DEF Divided, DividedOf
  <2>2. k \in Int /\ a \in Nodes /\ New \notin Nodes /\ span \in [Nodes -> SpanOf]
    BY <1>b, <1>c, <1>e, <1>f
  <2>3. /\ DOMAIN span' = More(Nodes, New) /\ \A b \in Nodes : b # a => span'[b] = span[b]
        /\ \A b \in Nodes : span'[b].height = span[b].height
    BY ONLY <2>1, <2>2, DividedFields
  <2>4. span'[a] = [span[a] EXCEPT !.high = k] /\ span'[New] = [span[a] EXCEPT !.low = k]
    BY <1>f, <2>1, <2>2 DEF DividedOf
  <2> QED
    BY <2>1, <2>3, <2>4
<1>t. Parted(heap', root, span', a, New, k) /\ span' \in [More(Nodes, New) -> SpanOf]
  <2>1. g[a] = m /\ heap'[a] = l /\ heap'[New] = r
    BY <1>g, <1>h
  <2>2. l.leaf = m.leaf /\ r.leaf = m.leaf
    BY <1>d, <1>e, Zenon DEF Node
  <2>3. Halved(m, span, span[a], k, l, r)
    <3>1. ASSUME NEW i \in 1..Len(m.kids)
          PROVE  \/ \E j \in 1..Len(l.kids) : l.kids[j] = m.kids[i]
                 \/ \E j \in 1..Len(r.kids) : r.kids[j] = m.kids[i]
      <4>1. LeftCount \in Nat /\ MaxKeys - LeftCount \in Nat /\ MaxKeys \in Nat
        BY Halves, MaxKeysAssumption DEF MaxKeysAssumption
      <4>2. CASE i <= LeftCount + 1
        <5>1. i \in 1..LeftCount + 1
          BY <3>1, <4>1, <4>2, <1>i
        <5>2. l.kids[i] = m.kids[i] /\ i \in 1..Len(l.kids)
          BY <1>e, <5>1
        <5> QED
          BY <5>2
      <4>3. CASE ~(i <= LeftCount + 1)
        <5> DEFINE j == i - (LeftCount + 1)
        <5>1. j \in 1..MaxKeys - LeftCount + 1 /\ LeftCount + 1 + j = i
          BY <3>1, <4>1, <4>3, <1>i
        <5> HIDE DEF j
        <5>2. r.kids[j] = m.kids[i] /\ j \in 1..Len(r.kids)
          BY <1>e, <5>1
        <5> QED
          BY <5>2
      <4> QED
        BY <4>2, <4>3
    <3> QED
      BY ONLY <1>d, <1>e, <2>2, <3>1 DEF Halved
  <2>4. g[a] \in Node /\ Halved(g[a], span, span[a], k, heap'[a], heap'[New])
    BY <1>d, <2>1, <2>3
  <2>5. \A b \in Nodes : b # a => heap'[b] = g[b]
    BY <1>g, <1>h
  <2>6. /\ a \in Nodes /\ New \notin Nodes /\ k \in Int /\ span[a].low < k /\ k < span[a].high
        /\ span \in [Nodes -> SpanOf] /\ Sound(g, root, span) /\ span' = DividedOf(span, a, New, k)
    BY <1>b, <1>c, <1>d, <1>e, <1>f, <1>s
  <2>7. PICK n, c : n = a /\ c = k
    OBVIOUS
  <2>8. /\ n \in Nodes /\ New \notin Nodes /\ c \in Int /\ span[n].low < c /\ c < span[n].high
        /\ span \in [Nodes -> SpanOf] /\ Sound(g, root, span) /\ span' = DividedOf(span, n, New, c)
    BY ONLY <2>6, <2>7
  <2>9. g[n] \in Node /\ Halved(g[n], span, span[n], c, heap'[n], heap'[New])
    BY ONLY <2>4, <2>7
  <2>10. \A b \in Nodes : b # n => heap'[b] = g[b]
    BY ONLY <2>5, <2>7
  <2>11. Parted(heap', root, span', n, New, c) /\ span' \in [More(Nodes, New) -> SpanOf]
    BY ONLY <2>8, <2>9, <2>10, DivideNode
  <2> QED
    BY ONLY <2>7, <2>11
<1>u. Contents(heap', span', map)
  <2>1. \A b \in DOMAIN span : heap[b].leaf => heap'[b] = heap[b]
    BY <1>c, <1>f, <1>h
  <2>2. \A b \in DOMAIN span' : heap'[b].leaf => b \in DOMAIN span /\ heap[b].leaf /\ heap'[b] = heap[b]
    BY <1>e, <1>f, <1>h, <1>s DEF More
  <2>3. DOMAIN span \subseteq DOMAIN span'
    BY <1>f, <1>s DEF More
  <2> QED
    BY <1>b, <2>1, <2>2, <2>3, ContentsInner
<1>n. Nodes' = More(Nodes, New) /\ Pending' /\ res \in Result /\ result'.new = result.new
  BY <1>a, <1>b, <1>e, <1>f, <1>r, <1>s DEF Nodes, Pending, Result
<1>3. CallInv' /\ frames' \in Seq(Frame)
  <2>1. \A b \in Nodes : span[b].height > span[a].height =>
          b \in Nodes' /\ heap'[b] = heap[b] /\ span'[b].height = span[b].height
    BY <1>c, <1>h, <1>n, <1>s DEF More
  <2>2. a \in Nodes' /\ span'[a].height = span[a].height
    BY <1>c, <1>n, <1>s DEF More
  <2> QED
    BY <1>a, <1>m, <2>1, <2>2, InnerCall
<1>1. TypeInv'
  <2>1. Nodes' \subseteq 1..Len(heap')
    BY <1>b, <1>f, <1>h, <1>n DEF TypeInv, More
  <2> QED
    BY <1>3, <1>a, <1>b, <1>c, <1>h, <1>n, <1>t, <2>1 DEF TypeInv
<1>2. TreeInv'
  BY <1>a, <1>n, <1>r, <1>t DEF TreeInv
<1>4. ContentInv'
  <2>1. DOMAIN map \subseteq Int
    BY <1>b DEF TypeInv, Ints
  <2>2. span'[a] \in SpanOf /\ span'[New] \in SpanOf
    BY <1>c, <1>t DEF More
  <2>3. Fits(l, span, span'[a]) /\ Fits(r, span, span'[New])
    BY <1>e, <1>s
  <2>4. Inhabited(span'[a], map)
    BY <1>b, <1>e, <2>1, <2>2, <2>3, InnerInhabited
  <2>5. Inhabited(span'[New], map)
    BY <1>b, <1>e, <2>1, <2>2, <2>3, InnerInhabited
  <2>6. \A b \in Nodes' : Inhabited(span'[b], map)
    BY <1>b, <1>n, <1>s, <2>4, <2>5 DEF More
  <2> QED
    BY <1>a, <1>u, <2>6 DEF ContentInv
<1>5. OutcomeInv'
  BY <1>a, <1>n, SameOutcome
<1>6. FillInv'
  <2>1. FillInv
    BY DEF IndexInv
  <2>2. LeftCount \in Nat /\ LeftCount <= MaxKeys /\ MaxKeys - LeftCount \in Nat
        /\ MaxKeys - LeftCount <= MaxKeys /\ LeftCount >= MaxKeys \div 2
        /\ MaxKeys - LeftCount >= MaxKeys \div 2
    BY Halves, MaxKeysAssumption DEF MaxKeysAssumption
  <2>3. ASSUME NEW b \in Nodes'
        PROVE  /\ Len(heap'[b].keys) <= MaxKeys
               /\ fails' = 0 /\ (b # root' \/ (Pending' /\ b = node')) =>
                    Len(heap'[b].keys) >= IF heap'[b].leaf THEN LeftCount ELSE MaxKeys \div 2
    <3>1. CASE b = a
      BY <1>e, <1>h, <2>2, <3>1
    <3>2. CASE b = New
      BY <1>e, <1>h, <2>2, <3>2
    <3>3. CASE b \in Nodes /\ b # a
      BY <1>a, <1>h, <2>1, <3>3 DEF FillInv
    <3> QED
      BY <1>n, <3>1, <3>2, <3>3 DEF More
  <2> QED
    BY <2>3 DEF FillInv
<1> QED
  BY <1>1, <1>2, <1>3, <1>4, <1>5, <1>6 DEF IndexInv

\* LoseRight leaves a sound tree, in which every node covers a key, and what is lost
\* is what the storage engine's model allows.
LEMMA AfterLoss ==
  ASSUME IndexInv, pc = "return", result.split, LoseRight, heap' = heap, root' = root,
         fails' = fails + 1
  PROVE  /\ Sound(heap', root', span') /\ span' \in [Nodes' -> SpanOf]
         /\ \A b \in Nodes' : b \in Nodes /\ span'[b].height = span[b].height
         /\ \A b \in Nodes : span[b].height > span[node].height => b \in Nodes'
         /\ Contents(heap', span', map') /\ \A b \in Nodes' : Inhabited(span'[b], map')
         /\ map' \in [DOMAIN map' -> Nat] /\ DOMAIN map' \subseteq Ints /\ IsFiniteSet(DOMAIN map')
         /\ \A c \in BOOLEAN : [map |-> map', ok |-> c] \in FailedInsertOutcomes(before.map, key, value)
         /\ fails' \in Nat /\ fails' # 0 /\ before.fails < fails' /\ fails' # before.fails
<1> DEFINE r == result.right  k == result.key  high == span[r].high
<1>a. /\ map' = Without(map, k..high - 1) /\ span' = Closed(k, high, span[r].height)
  BY DEF LoseRight
<1>b. /\ TypeInv /\ Parted(heap, root, span, node, r, k) /\ Pending
      /\ span \in [Nodes -> SpanOf] /\ \A b \in Nodes : heap[b] \in Node
      /\ Contents(heap, span, map) /\ \A b \in Nodes : Inhabited(span[b], map)
      /\ result.new
  BY AtSplit
<1>o. /\ fails = before.fails /\ map = Put(before.map, key, value) /\ key \notin DOMAIN before.map
  BY <1>b DEF IndexInv, OutcomeInv, Pending
<1>m. /\ map \in [DOMAIN map -> Nat] /\ DOMAIN map \subseteq Ints /\ IsFiniteSet(DOMAIN map)
      /\ key \in Ints /\ fails \in Nat
  BY <1>b DEF TypeInv
<1> HIDE DEF r, k, high
<1>p. /\ r \in Nodes /\ span[r].low = k /\ k \in Int /\ span[r].high = high /\ high \in Int
      /\ DOMAIN span = Nodes
  <2>1. r \in Nodes /\ span[r].low = k /\ k \in Int /\ span[r].high \in Int
    BY ONLY <1>b, PartedFacts
  <2> QED
    BY <1>b, <2>1 DEF high
<1>c. span' = ClosedOf(span, r)
  <2>1. Lost(k, high, span[r].height) = Gone(span, r)
    BY <1>p DEF Lost, Gone
  <2> QED
    BY <1>a, <1>p, <2>1 DEF Closed, ClosedOf
<1>1. /\ Sound(heap, root, span') /\ DOMAIN span' = Kept(span, r) /\ span' \in [Kept(span, r) -> SpanOf]
      /\ \A x \in Kept(span, r) : x \in Nodes /\ span'[x].height = span[x].height
      /\ \A x \in Nodes : span[x].height > span[node].height => x \in Kept(span, r)
  BY ONLY <1>b, <1>c, LoseHalf
<1>2. Nodes' = Kept(span, r)
  BY <1>1 DEF Nodes
<1>3. /\ Contents(heap, span', Without(map, k..span[r].high - 1))
      /\ \A b \in Nodes \ Gone(span, r) : Inhabited(span'[b], Without(map, k..span[r].high - 1))
  <2>1. DOMAIN map \subseteq Int
    BY <1>m DEF Ints
  <2> QED
    BY ONLY <1>b, <1>c, <2>1, ContentsLose
<1>4. Contents(heap, span', map') /\ \A b \in Nodes' : Inhabited(span'[b], map')
  BY <1>2, <1>3, <1>a, <1>p DEF Kept
<1>5. map' \in [DOMAIN map' -> Nat] /\ DOMAIN map' \subseteq DOMAIN map
  BY <1>a, <1>m DEF Without
<1>6. IsFiniteSet(DOMAIN map')
  BY <1>5, <1>m, FS_Subset
<1>7. ASSUME NEW c \in BOOLEAN
      PROVE [map |-> map', ok |-> c] \in FailedInsertOutcomes(before.map, key, value)
  <2>1. DOMAIN map = DOMAIN before.map \cup {key}
    BY <1>o DEF Put
  <2>2. PICK x \in DOMAIN map : span[r].low <= x /\ x < span[r].high
    BY <1>b, <1>p DEF Inhabited
  <2>3. map' = Without(Put(before.map, key, value), k..high - 1)
    BY <1>a, <1>o
  <2>4. /\ key \notin DOMAIN before.map /\ DOMAIN before.map \cup {key} \subseteq Ints
        /\ k \in Int /\ high \in Int /\ x \in DOMAIN before.map \cup {key} /\ k <= x /\ x < high
    BY <1>o, <1>m, <1>p, <2>1, <2>2
  <2>5. PICK bm : bm = before.map
    OBVIOUS
  <2>6. [map |-> Without(Put(bm, key, value), k..high - 1), ok |-> c] \in FailedInsertOutcomes(bm, key, value)
    BY ONLY <2>4, <2>5, <1>7, LossOutcome
  <2> QED
    BY <2>3, <2>5, <2>6
<1>8. fails' \in Nat /\ fails' # 0 /\ before.fails < fails' /\ fails' # before.fails
  BY <1>m, <1>o
<1> QED
  BY <1>1, <1>2, <1>4, <1>5, <1>6, <1>7, <1>8, <1>m

\* The parent cannot be divided, and the right half is lost.
LEMMA SplitInnerFailKeeps ==
  ASSUME IndexInv, SplitInnerFail
  PROVE  IndexInv'
<1> DEFINE a == Caller.node
<1>a. /\ CallerHasSplitChild /\ pc = "return" /\ result.split
      /\ heap' = heap /\ LoseRight /\ InnerReturn(Unsplit(FALSE)) /\ fails' = fails + 1
      /\ root' = root /\ UNCHANGED <<size, pc, key, value, before, ok>>
      /\ result' = Unsplit(FALSE) /\ node' = a
  BY DEF SplitInnerFail, InnerReturn, CallerHasSplitChild, AllocationFails
<1>b. /\ Sound(heap', root', span') /\ span' \in [Nodes' -> SpanOf]
      /\ \A b \in Nodes' : b \in Nodes /\ span'[b].height = span[b].height
      /\ \A b \in Nodes : span[b].height > span[node].height => b \in Nodes'
      /\ Contents(heap', span', map') /\ \A b \in Nodes' : Inhabited(span'[b], map')
      /\ map' \in [DOMAIN map' -> Nat] /\ DOMAIN map' \subseteq Ints /\ IsFiniteSet(DOMAIN map')
      /\ \A c \in BOOLEAN : [map |-> map', ok |-> c] \in FailedInsertOutcomes(before.map, key, value)
      /\ fails' \in Nat /\ fails' # 0 /\ before.fails < fails' /\ fails' # before.fails
  BY <1>a, AfterLoss
<1>c. /\ a \in Nodes /\ span[a].height = span[node].height + 1 /\ span[node].height \in Nat
      /\ a \in Nat
  BY <1>a, AtCaller
<1>t. TypeInv /\ span \in [Nodes -> SpanOf]
  BY <1>a, AtSplit
<1>m. a = Caller.node
  OBVIOUS
<1> HIDE DEF a
<1>n. ~Pending' /\ result' \in Result /\ pc' = "return" /\ result'.split = FALSE
  BY <1>a DEF Pending, Unsplit, Result, NULL
<1>3. CallInv' /\ frames' \in Seq(Frame)
  <2>1. a \in Nodes' /\ span'[a].height = span[a].height
    BY <1>b, <1>c
  <2>2. \A b \in Nodes : span[b].height > span[a].height =>
          b \in Nodes' /\ heap'[b] = heap[b] /\ span'[b].height = span[b].height
    <3>1. ASSUME NEW b \in Nodes, span[b].height > span[a].height
          PROVE  b \in Nodes' /\ heap'[b] = heap[b] /\ span'[b].height = span[b].height
      <4>1. span[b].height \in Nat
        BY <1>t, SpanFields
      <4>2. b \in Nodes'
        BY <1>b, <1>c, <3>1, <4>1
      <4> QED
        BY <1>a, <1>b, <4>2
    <3> QED
      BY <3>1
  <2> QED
    BY <1>a, <1>m, <2>1, <2>2, InnerCall
<1>1. TypeInv'
  <2>1. Nodes' \subseteq 1..Len(heap')
    BY <1>a, <1>b, <1>t DEF TypeInv
  <2> QED
    BY <1>3, <1>a, <1>b, <1>c, <1>n, <1>t, <2>1 DEF TypeInv
<1>2. TreeInv'
  BY <1>b, <1>n DEF TreeInv
<1>4. ContentInv'
  BY <1>b DEF ContentInv
<1>5. OutcomeInv'
  BY <1>a, <1>b, <1>n DEF OutcomeInv
<1>6. FillInv'
  BY <1>a, <1>b DEF FillInv, IndexInv
<1> QED
  BY <1>1, <1>2, <1>3, <1>4, <1>5, <1>6 DEF IndexInv

-----------------------------------------------------------------------------
(* The end of bptree_insert with a divided root, and bptree_destroy.       *)

\* There is no new root, and the right half is lost.
LEMMA GrowRootFailKeeps ==
  ASSUME IndexInv, GrowRootFail
  PROVE  IndexInv'
<1>a. /\ pc = "return" /\ result.split /\ heap' = heap /\ root' = root
      /\ LoseRight /\ fails' = fails + 1 /\ size' = Grown
      /\ pc' = "idle" /\ ok' = FALSE /\ Reset
  BY DEF GrowRootFail, AllocationFails, Return
<1>b. /\ Sound(heap', root', span') /\ span' \in [Nodes' -> SpanOf]
      /\ \A b \in Nodes' : b \in Nodes /\ span'[b].height = span[b].height
      /\ Contents(heap', span', map') /\ \A b \in Nodes' : Inhabited(span'[b], map')
      /\ map' \in [DOMAIN map' -> Nat] /\ DOMAIN map' \subseteq Ints /\ IsFiniteSet(DOMAIN map')
      /\ fails' \in Nat /\ fails' # 0
  BY <1>a, AfterLoss
<1>t. TypeInv
  BY DEF IndexInv
<1>r. /\ key' \in Ints /\ value' \in Nat /\ node' \in Nat /\ frames' \in Seq(Frame) /\ frames' = <<>>
      /\ result' \in Result
  BY <1>a, <1>t, ResetTypes
<1>1. TypeInv'
  <2>1. Nodes' \subseteq 1..Len(heap')
    BY <1>a, <1>b, <1>t DEF TypeInv
  <2>2. size' \in Nat
    BY <1>a, <1>t DEF TypeInv, Grown
  <2> QED
    BY <1>a, <1>b, <1>r, <1>t, <2>1, <2>2 DEF TypeInv
<1>2. TreeInv'
  BY <1>a, <1>b DEF TreeInv, Pending
<1>3. CallInv'
  BY <1>a, <1>r DEF CallInv
<1>4. ContentInv'
  BY <1>b DEF ContentInv
<1>5. OutcomeInv'
  BY <1>a, <1>b DEF OutcomeInv, Pending
<1>6. FillInv'
  BY <1>a, <1>b DEF FillInv, IndexInv
<1> QED
  BY <1>1, <1>2, <1>3, <1>4, <1>5, <1>6 DEF IndexInv

\* The tree grows by a level.
LEMMA GrowRootKeeps ==
  ASSUME IndexInv, GrowRoot
  PROVE  IndexInv'
<1> DEFINE k == result.key  r == result.right  m == Inner(<<k>>, <<root, r>>)
<1>a. /\ pc = "return" /\ result.split /\ frames = <<>>
      /\ heap' = Append(heap, m) /\ root' = New /\ size' = Grown
      /\ span' = [b \in DOMAIN span \cup {New} |->
                    IF b = New THEN Whole(span[root].height + 1) ELSE span[b]]
      /\ pc' = "idle" /\ Reset /\ UNCHANGED <<map, fails>> /\ ok' = TRUE
  BY DEF GrowRoot, Return
<1>b. /\ TypeInv /\ Parted(heap, root, span, node, r, k) /\ Pending
      /\ span \in [Nodes -> SpanOf] /\ \A b \in Nodes : heap[b] \in Node
      /\ node \in Nodes /\ Path(heap, span, root, frames, node) /\ r \in Address /\ result.new
      /\ Contents(heap, span, map) /\ \A b \in Nodes : Inhabited(span[b], map)
  BY <1>a, AtSplit
<1>m. m = Inner(<<k>>, <<root, r>>) /\ ~m.leaf /\ m.keys = <<k>>
  BY DEF Inner
<1> HIDE DEF k, r, m
<1>c. root = node /\ root \in Address
  BY <1>a, <1>b DEF Path, TypeInv, Address
<1>f. New \notin Nodes /\ New \in Nat /\ New # NULL /\ New = Len(heap) + 1 /\ DOMAIN span = Nodes
      /\ Len(heap) \in Nat
  BY <1>b, StateFacts DEF New
<1>g. heap'[New] = m /\ \A b \in Nodes : heap'[b] = heap[b]
  <2>1. heap \in Seq(Node) /\ Nodes \subseteq 1..Len(heap)
    BY <1>b DEF TypeInv
  <2> QED
    BY <1>a, <1>f, <2>1
<1>s. /\ span' = GrownOf(span, root, New) /\ Nodes' = More(Nodes, New)
      /\ \A b \in Nodes : span'[b] = span[b]
      /\ span'[New] = Whole(span[root].height + 1)
  BY <1>a, <1>f DEF GrownOf, More, Nodes
<1>t. Sound(heap', New, span') /\ m \in Node /\ span' \in [Nodes' -> SpanOf]
  <2>1. /\ Parted(heap, root, span, root, r, k) /\ heap'[New] = Inner(<<k>>, <<root, r>>)
    BY <1>b, <1>c, <1>g, <1>m
  <2>2. Sound(heap', New, span') /\ heap'[New] \in Node /\ span' \in [More(Nodes, New) -> SpanOf]
    <3>1. PICK w : w = root
      OBVIOUS
    <3>2. /\ span \in [Nodes -> SpanOf] /\ w \in Address /\ r \in Address
          /\ Parted(heap, w, span, w, r, k) /\ heap'[New] = Inner(<<k>>, <<w, r>>)
          /\ New \notin Nodes /\ New # NULL /\ span' = GrownOf(span, w, New)
      BY <1>b, <1>c, <1>f, <1>s, <2>1, <3>1
    <3>3. \A b \in Nodes : heap[b] \in Node
      BY <1>b
    <3>4. \A b \in Nodes : heap'[b] = heap[b]
      BY <1>g
    <3> QED
      BY ONLY <3>2, <3>3, <3>4, NewRoot
  <2> QED
    BY <1>g, <1>s, <2>2
<1>h. heap' \in Seq(Node) /\ Len(heap') = Len(heap) + 1
  <2>1. heap \in Seq(Node)
    BY <1>b DEF TypeInv
  <2> QED
    BY <1>a, <1>t, <2>1, Allocated
<1>r. /\ key' \in Ints /\ value' \in Nat /\ node' \in Nat /\ frames' \in Seq(Frame) /\ frames' = <<>>
      /\ result' \in Result
  BY <1>a, <1>b, ResetTypes
<1>n. ~Pending' /\ size \in Nat /\ size' = size + 1 /\ DOMAIN map \subseteq Ints
  BY <1>a, <1>b DEF Pending, TypeInv, Grown
<1>1. TypeInv'
  <2>1. Nodes' \subseteq 1..Len(heap')
    BY <1>b, <1>f, <1>h, <1>s DEF TypeInv, More
  <2>2. UNCHANGED <<map, fails>> /\ ok' \in BOOLEAN /\ pc' = "idle" /\ root' = New
    BY <1>a
  <2> QED
    BY <1>b, <1>f, <1>h, <1>n, <1>r, <1>t, <2>1, <2>2 DEF TypeInv
<1>2. TreeInv'
  BY <1>a, <1>n, <1>t DEF TreeInv
<1>3. CallInv'
  BY <1>a, <1>r DEF CallInv
<1>4. ContentInv'
  <2>1. Contents(heap', span', map)
    <3>1. \A b \in DOMAIN span : heap[b].leaf => heap'[b] = heap[b]
      BY <1>f, <1>g
    <3>2. \A b \in DOMAIN span' : heap'[b].leaf => b \in DOMAIN span /\ heap[b].leaf /\ heap'[b] = heap[b]
      BY <1>f, <1>g, <1>m, <1>s DEF More, Nodes
    <3>3. DOMAIN span \subseteq DOMAIN span'
      BY <1>f, <1>s DEF More, Nodes
    <3> QED
      BY <1>b, <3>1, <3>2, <3>3, ContentsInner
  <2>2. Inhabited(span'[New], map)
    <3>1. PICK x \in DOMAIN map : TRUE
      BY <1>b DEF Inhabited
    <3>2. -IntMax - 1 <= x /\ x < IntMax + 1
      BY <1>n, <3>1, IntMaxAssumption DEF Ints, IntMaxAssumption
    <3> QED
      BY <1>s, <3>1, <3>2 DEF Inhabited, Whole
  <2>3. \A b \in Nodes' : Inhabited(span'[b], map)
    BY <1>b, <1>s, <2>2 DEF More
  <2> QED
    BY <1>a, <2>1, <2>3 DEF ContentInv
<1>5. OutcomeInv'
  <2>1. fails = 0 => Cardinality(DOMAIN map) = size + 1
    BY <1>a, <1>b DEF IndexInv, OutcomeInv
  <2> QED
    BY <1>a, <1>n, <2>1 DEF OutcomeInv
<1>6. FillInv'
  <2>1. FillInv
    BY DEF IndexInv
  <2>2. Len(m.keys) = 1 /\ MaxKeys \in Nat \ {0, 1}
    BY <1>m, MaxKeysAssumption DEF MaxKeysAssumption
  <2>3. ASSUME NEW b \in Nodes'
        PROVE  /\ Len(heap'[b].keys) <= MaxKeys
               /\ fails' = 0 /\ (b # root' \/ (Pending' /\ b = node')) =>
                    Len(heap'[b].keys) >= IF heap'[b].leaf THEN LeftCount ELSE MaxKeys \div 2
    <3>1. CASE b = New
      <4>1. Len(heap'[b].keys) = 1 /\ b = root' /\ ~Pending'
        BY <1>a, <1>g, <1>n, <2>2, <3>1
      <4>2. 1 <= MaxKeys
        BY <2>2
      <4> QED
        BY <4>1, <4>2
    <3>2. CASE b \in Nodes
      BY <1>a, <1>b, <1>c, <1>g, <2>1, <3>2 DEF FillInv
    <3> QED
      BY <1>s, <3>1, <3>2 DEF More
  <2> QED
    BY <2>3 DEF FillInv
<1> QED
  BY <1>1, <1>2, <1>3, <1>4, <1>5, <1>6 DEF IndexInv

\* bptree_destroy leaves an empty tree.
LEMMA DestroyKeeps ==
  ASSUME IndexInv, Destroy
  PROVE  IndexInv'
<1> USE DEF Destroy, locals
<1>0. TypeInv /\ CallInv /\ OutcomeInv
  BY DEF IndexInv
<1>1. TypeInv'
  <2>1. heap' \in Seq(Node) /\ Len(heap') = 0 /\ DOMAIN map' = {} /\ Nodes' = {} /\ DOMAIN span' = {}
    BY EmptySeq DEF Nodes
  <2>2. IsFiniteSet(DOMAIN map')
    BY <2>1, FS_EmptySet
  <2>3. map' \in [DOMAIN map' -> Nat] /\ DOMAIN map' \subseteq Ints /\ span' \in [Nodes' -> SpanOf]
        /\ Nodes' \subseteq 1..Len(heap')
    BY <2>1
  <2>4. root' \in Nat /\ size' \in Nat
    BY DEF NULL
  <2> QED
    BY <1>0, <2>1, <2>2, <2>3, <2>4 DEF TypeInv
<1>2. Nodes' = {} /\ DOMAIN map' = {} /\ DOMAIN span' = {}
  BY DEF Nodes
<1>3. TreeInv'
  <2>1. Sound(heap', root', span')
    BY <1>2 DEF Sound, Shape, Nested, Rooted
  <2> QED
    BY <2>1 DEF TreeInv, Pending
<1>4. CallInv'
  BY <1>0 DEF CallInv
<1>5. ContentInv'
  BY <1>2 DEF ContentInv, Contents
<1>6. OutcomeInv'
  BY <1>2, FS_EmptySet DEF OutcomeInv, Pending
<1>7. FillInv'
  BY <1>2 DEF FillInv
<1> QED
  BY <1>1, <1>3, <1>4, <1>5, <1>6, <1>7 DEF IndexInv

\* Between two calls, in a descent and in a call's return, every step keeps the invariant.
LEMMA StepKeeps ==
  ASSUME IndexInv, [Next]_vars
  PROVE  IndexInv'
<1>1. ASSUME NEW e \in Entries, InsertCall(e[1], e[2]) PROVE IndexInv'
  BY <1>1, InsertCallKeeps
<1>2. ASSUME NEW k \in Keys, SearchCall(k) PROVE IndexInv'
  BY <1>2, SearchCallKeeps
<1>3. CASE MakeRoot
  BY <1>3, MakeRootKeeps
<1>4. CASE MakeRootFail
  BY <1>4, MakeRootFailKeeps
<1>5. CASE Descend
  BY <1>5, DescendKeeps
<1>6. CASE Replace
  BY <1>6, ReplaceKeeps
<1>7. CASE AddToLeaf
  BY <1>7, AddToLeafKeeps
<1>8. CASE SplitLeaf
  BY <1>8, SplitLeafKeeps
<1>9. CASE SplitLeafFail
  BY <1>9, SplitLeafFailKeeps
<1>10. CASE AddToInner
  BY <1>10, AddToInnerKeeps
<1>11. CASE SplitInner
  BY <1>11, SplitInnerKeeps
<1>12. CASE SplitInnerFail
  BY <1>12, SplitInnerFailKeeps
<1>13. CASE Finish
  BY <1>13, FinishKeeps
<1>14. CASE GrowRoot
  BY <1>14, GrowRootKeeps
<1>15. CASE GrowRootFail
  BY <1>15, GrowRootFailKeeps
<1>16. CASE SearchDescend
  BY <1>16, SearchDescendKeeps
<1>17. CASE SearchEnd
  BY <1>17, SearchEndKeeps
<1>18. CASE Destroy
  BY <1>18, DestroyKeeps
<1>19. CASE UNCHANGED vars
  BY <1>19 DEF vars, tree, locals, IndexInv, TypeInv, TreeInv, CallInv, ContentInv, OutcomeInv, FillInv,
     Pending, Nodes, Covers
<1> QED
  BY <1>1, <1>2, <1>3, <1>4, <1>5, <1>6, <1>7, <1>8, <1>9, <1>10, <1>11, <1>12, <1>13, <1>14,
     <1>15, <1>16, <1>17, <1>18, <1>19 DEF Next, InsertStep

\* The invariant holds in every state, whatever was inserted and whichever
\* allocations of bptree_insert failed.
THEOREM IndexIsInvariant == Spec => []IndexInv
<1>1. IndexInv /\ [Next]_vars => IndexInv'
  BY StepKeeps
<1> QED
  BY <1>1, InitIndex, PTL DEF Spec

-----------------------------------------------------------------------------
(* The properties.                                                         *)

\* A search ends with the value that the map has for its key, if it has one.
LEMMA SearchFinds ==
  ASSUME IndexInv, SearchIsOver
  PROVE  Found = IF key \in DOMAIN map THEN {map[key]} ELSE {}
<1>1. /\ TypeInv /\ Sound(heap, root, span) /\ Contents(heap, span, map) /\ pc = "search"
  BY DEF SearchIsOver, IndexInv, TreeInv, Pending, ContentInv
<1>2. /\ span \in [Nodes -> SpanOf] /\ \A b \in Nodes : heap[b] \in Node
      /\ key \in Number /\ DOMAIN span = Nodes
  BY <1>1, StateFacts
<1>3. CASE node = NULL
  <2>1. root = NULL
    BY <1>1, <1>3 DEF IndexInv, CallInv
  <2>2. Nodes = {}
    BY <1>1, <1>2, <2>1, SoundFacts
  <2>3. DOMAIN map = {}
    BY <1>1, <1>2, <2>2 DEF Contents
  <2> QED
    BY <1>3, <2>3 DEF Found
<1>4. CASE node # NULL
  <2>1. node \in Nodes /\ heap[node].leaf /\ span[node].low <= key /\ key < span[node].high
    BY <1>1, <1>4 DEF IndexInv, CallInv, Covers, SearchIsOver
  <2>2. /\ key \in DOMAIN map <=> Position < Len(heap[node].keys) /\ heap[node].keys[Position + 1] = key
        /\ key \in DOMAIN map => map[key] = heap[node].vals[Position + 1]
    BY ONLY <1>1, <1>2, <2>1, LeafHasKey DEF Position
  <2> QED
    BY <1>4, <2>2 DEF Found, Present
<1> QED
  BY <1>3, <1>4

\* bptree_search finds the latest value of every key in the tree and nothing else,
\* for every sequence of splits and losses; without a loss size counts the keys.
THEOREM SearchIsExact == Spec => []SearchMatchesMap
<1>1. IndexInv => SearchMatchesMap
  <2> SUFFICES ASSUME IndexInv PROVE SearchMatchesMap
    OBVIOUS
  <2>1. NoInsertion /\ fails = 0 => size = Cardinality(DOMAIN map)
    <3>1. size \in Nat
      BY DEF IndexInv, TypeInv
    <3> QED
      BY <3>1 DEF IndexInv, OutcomeInv, NoInsertion
  <2> QED
    BY <2>1, SearchFinds DEF SearchMatchesMap
<1> QED
  BY <1>1, IndexIsInvariant, PTL

\* Every node fits its range, with the ranges of its children as its parent has them.
LEMMA NodeFits ==
  ASSUME IndexInv
  PROVE  \E J : /\ \A b \in Nodes : Fits(heap[b], J, span[b])
                /\ DOMAIN J = Nodes /\ \A b \in Nodes : J[b].height = span[b].height
                /\ NoInsertion => J = span
<1>1. span \in [Nodes -> SpanOf] /\ TypeInv
  BY StateFacts DEF IndexInv
<1>2. CASE Pending
  <2> DEFINE J == JointOf(span, node, result.right)
  <2>1. Parted(heap, root, span, node, result.right, result.key)
    BY <1>2 DEF IndexInv, TreeInv
  <2>2. /\ DOMAIN J = Nodes /\ \A x \in Nodes : x # node => J[x] = span[x]
        /\ J[node].height = span[node].height
    BY ONLY <1>1, <2>1, PartedFacts
  <2>3. \A b \in Nodes : Fits(heap[b], J, span[b])
    BY <1>1, <2>1 DEF Parted, Shape
  <2>4. ~NoInsertion
    BY <1>2 DEF Pending, NoInsertion
  <2> HIDE DEF J
  <2> QED
    BY <2>2, <2>3, <2>4
<1>3. CASE ~Pending
  <2>1. Sound(heap, root, span)
    BY <1>3 DEF IndexInv, TreeInv
  <2>2. \A b \in Nodes : Fits(heap[b], span, span[b])
    BY <1>1, <2>1, SoundFacts
  <2> QED
    BY <1>1, <2>2
<1> QED
  BY <1>2, <1>3

\* Splits keep every node within its arrays and all leaves at one depth; without a
\* failed allocation every node but the root is at least almost half full.
THEOREM TreeIsBalanced == Spec => []Balanced
<1>1. IndexInv => Balanced
  <2> SUFFICES ASSUME IndexInv PROVE Balanced
    OBVIOUS
  <2>1. PICK J : /\ \A b \in Nodes : Fits(heap[b], J, span[b])
                 /\ DOMAIN J = Nodes /\ \A b \in Nodes : J[b].height = span[b].height
    BY NodeFits
  <2>2. ASSUME NEW a \in Nodes
        PROVE  /\ heap[a].leaf <=> span[a].height = 0
               /\ IF heap[a].leaf THEN Len(heap[a].vals) = Len(heap[a].keys)
                  ELSE Len(heap[a].kids) = Len(heap[a].keys) + 1
    BY <2>1 DEF Fits
  <2>3. ASSUME NEW a \in Nodes
        PROVE  /\ Len(heap[a].keys) <= MaxKeys
               /\ NoInsertion /\ a # root /\ fails = 0 =>
                    Len(heap[a].keys) >= IF heap[a].leaf THEN (MaxKeys + 1) \div 2 ELSE MaxKeys \div 2
    BY DEF IndexInv, FillInv, LeftCount
  <2>4. ASSUME NEW a \in InnerNodes, NEW i \in 1..Len(heap[a].kids)
        PROVE  heap[a].kids[i] \in Nodes /\ span[heap[a].kids[i]].height = span[a].height - 1
    <3>1. a \in Nodes /\ ~heap[a].leaf
      BY DEF InnerNodes
    <3>2. /\ heap[a].kids[i] \in Nodes
          /\ J[heap[a].kids[i]] = [low |-> SegLow(heap[a], span[a], i), high |-> SegHigh(heap[a], span[a], i),
                                   height |-> span[a].height - 1]
      BY <2>1, <3>1 DEF Fits
    <3> QED
      BY <2>1, <3>2
  <2> QED
    BY <2>2, <2>3, <2>4 DEF Balanced
<1> QED
  BY <1>1, IndexIsInvariant, PTL

\* The places in inner nodes at which the node b is a child.
Places(b) ==
  {p \in InnerNodes \X (1..MaxKeys + 1) :
     p[2] <= Len(heap[p[1]].kids) /\ heap[p[1]].kids[p[2]] = b}

\* No node is a child twice.
LEMMA OnePlace ==
  ASSUME IndexInv, NoInsertion, NEW a \in InnerNodes, NEW c \in InnerNodes,
         NEW i \in 1..Len(heap[a].kids), NEW j \in 1..Len(heap[c].kids),
         heap[a].kids[i] = heap[c].kids[j]
  PROVE  a = c /\ i = j
<1>1. /\ TypeInv /\ Sound(heap, root, span) /\ a \in Nodes /\ ~heap[a].leaf
      /\ c \in Nodes /\ ~heap[c].leaf
  BY DEF NoInsertion, IndexInv, TreeInv, Pending, InnerNodes
<1>2. span \in [Nodes -> SpanOf] /\ \A b \in Nodes : heap[b] \in Node
  BY <1>1, StateFacts
<1>3. \A b \in Nodes : Fits(heap[b], span, span[b])
  BY <1>1, <1>2, SoundFacts
<1>4. PICK x, y, p, q : x = heap[a] /\ y = heap[c] /\ p = span[a] /\ q = span[c]
  OBVIOUS
<1>5. /\ x \in Node /\ ~x.leaf /\ y \in Node /\ ~y.leaf /\ p \in SpanOf /\ q \in SpanOf
      /\ Fits(x, span, p) /\ Fits(y, span, q) /\ i \in 1..Len(x.kids) /\ j \in 1..Len(y.kids)
      /\ x.kids[i] = y.kids[j]
  BY <1>1, <1>2, <1>3, <1>4
<1>6. p.height = q.height /\ p.low < q.high /\ q.low < p.high /\ (x = y /\ p = q => i = j)
  BY ONLY <1>5, OneParent
<1>7. a = c
  <2>1. p.low \in Int /\ p.high \in Int /\ q.low \in Int /\ q.high \in Int /\ p.height \in Nat
    BY <1>5, SpanFields
  <2>2. Nested(span) /\ DOMAIN span = Nodes
    BY <1>1, <1>2 DEF Sound
  <2>3. p.height <= q.height
    BY <1>6, <2>1
  <2>4. p.high <= q.low \/ q.high <= p.low \/ (p.height = q.height => a = c)
    BY <1>1, <1>4, <2>2, <2>3 DEF Nested
  <2> QED
    BY ONLY <1>6, <2>1, <2>4
<1> QED
  BY <1>4, <1>6, <1>7

\* Every insertion, one that ran out of memory in the middle of a split included,
\* leaves keys in order, subtrees between their separators and one parent per node.
THEOREM TreeIsOrdered == Spec => []Ordered
<1>1. IndexInv => Ordered
  <2> SUFFICES ASSUME IndexInv, NoInsertion PROVE
        /\ root # NULL => root \in Nodes /\ span[root] = Whole(span[root].height)
        /\ \A a \in Nodes :
             LET keys == heap[a].keys
             IN  /\ \A i \in 1..Len(keys) : span[a].low <= keys[i] /\ keys[i] < span[a].high
                 /\ \A i \in 1..Len(keys) - 1 : keys[i] < keys[i + 1]
        /\ \A a \in InnerNodes : \A i \in 1..Len(heap[a].kids) :
             LET keys == heap[a].keys
                 kid == span[heap[a].kids[i]]
             IN  /\ kid.low = IF i = 1 THEN span[a].low ELSE keys[i - 1]
                 /\ kid.high = IF i = Len(keys) + 1 THEN span[a].high ELSE keys[i]
        /\ \A b \in Nodes \ {root} : Cardinality(Places(b)) = 1
    BY DEF Ordered, Places
  <2>1. /\ TypeInv /\ Sound(heap, root, span)
    BY DEF NoInsertion, IndexInv, TreeInv, Pending
  <2>2. span \in [Nodes -> SpanOf] /\ DOMAIN span = Nodes /\ \A b \in Nodes : heap[b] \in Node
    BY <2>1, StateFacts
  <2>3. \A b \in Nodes : Fits(heap[b], span, span[b])
    BY <2>1, <2>2, SoundFacts
  <2>4. root # NULL => root \in Nodes /\ span[root] = Whole(span[root].height)
    BY <2>1, <2>2 DEF Sound, Rooted
  <2>5. ASSUME NEW a \in Nodes
        PROVE  /\ \A i \in 1..Len(heap[a].keys) :
                    span[a].low <= heap[a].keys[i] /\ heap[a].keys[i] < span[a].high
               /\ \A i \in 1..Len(heap[a].keys) - 1 : heap[a].keys[i] < heap[a].keys[i + 1]
    <3>1. Ascends(heap[a].keys) /\ Within(heap[a].keys, span[a].low, span[a].high)
      BY <2>3 DEF Fits
    <3>2. Len(heap[a].keys) \in Nat
      BY <2>2, LenProperties DEF Node
    <3>3. ASSUME NEW i \in 1..Len(heap[a].keys) - 1 PROVE heap[a].keys[i] < heap[a].keys[i + 1]
      <4>1. i \in 1..Len(heap[a].keys) /\ i + 1 \in 1..Len(heap[a].keys) /\ i < i + 1
        BY <3>2
      <4> QED
        BY <3>1, <4>1 DEF Ascends
    <3> QED
      BY <3>1, <3>3 DEF Within
  <2>6. ASSUME NEW a \in InnerNodes, NEW i \in 1..Len(heap[a].kids)
        PROVE  /\ span[heap[a].kids[i]].low = IF i = 1 THEN span[a].low ELSE heap[a].keys[i - 1]
               /\ span[heap[a].kids[i]].high =
                    IF i = Len(heap[a].keys) + 1 THEN span[a].high ELSE heap[a].keys[i]
    <3>1. a \in Nodes /\ ~heap[a].leaf
      BY DEF InnerNodes
    <3>2. span[heap[a].kids[i]] =
            [low |-> SegLow(heap[a], span[a], i), high |-> SegHigh(heap[a], span[a], i),
             height |-> span[a].height - 1]
      BY <2>3, <3>1 DEF Fits
    <3> QED
      BY <3>2 DEF SegLow, SegHigh
  <2>7. ASSUME NEW b \in Nodes \ {root} PROVE Cardinality(Places(b)) = 1
    <3>1. PICK a \in Nodes : ~heap[a].leaf /\ \E i \in 1..Len(heap[a].kids) : heap[a].kids[i] = b
      BY <2>1, <2>2 DEF Sound, HasParent
    <3>2. PICK i \in 1..Len(heap[a].kids) : heap[a].kids[i] = b
      BY <3>1
    <3>3. a \in InnerNodes
      BY <3>1 DEF InnerNodes
    <3>4. i \in 1..MaxKeys + 1 /\ i <= Len(heap[a].kids)
      <4>1. Len(heap[a].kids) = Len(heap[a].keys) + 1 /\ Len(heap[a].keys) <= MaxKeys
        BY <2>3, <3>1 DEF Fits, IndexInv, FillInv
      <4>2. Len(heap[a].keys) \in Nat /\ MaxKeys \in Nat
        BY <2>2, LenProperties, MaxKeysAssumption DEF Node, MaxKeysAssumption
      <4> QED
        BY <4>1, <4>2
    <3>5. <<a, i>> \in Places(b)
      BY <3>2, <3>3, <3>4 DEF Places
    <3>6. ASSUME NEW p \in Places(b) PROVE p = <<a, i>>
      <4>1. PICK c \in InnerNodes, j \in 1..MaxKeys + 1 :
              p = <<c, j>> /\ j <= Len(heap[c].kids) /\ heap[c].kids[j] = b
        BY DEF Places
      <4>2. j \in 1..Len(heap[c].kids)
        <5>1. c \in Nodes
          BY DEF InnerNodes
        <5>2. Len(heap[c].kids) \in Nat
          BY <2>2, <5>1, LenProperties DEF Node
        <5> QED
          BY <4>1, <5>2
      <4>3. heap[a].kids[i] = heap[c].kids[j]
        BY <3>2, <4>1
      <4>4. a = c /\ i = j
        BY <3>3, <4>2, <4>3, OnePlace
      <4> QED
        BY <4>1, <4>4
    <3>7. Places(b) = {<<a, i>>}
      BY <3>5, <3>6
    <3> QED
      BY <3>7, FS_Singleton
  <2> QED
    BY <2>4, <2>5, <2>6, <2>7
<1> QED
  BY <1>1, IndexIsInvariant, PTL

\* What the last step of an insertion has done to the contents.
LEMMA InsertionEnds ==
  ASSUME IndexInv, Next, pc # "search", pc # "idle", pc' = "idle"
  PROVE  [map |-> map', ok |-> ok'] \in
           IF fails' = before.fails THEN {InsertOutcome(before.map, key, value)}
           ELSE FailedInsertOutcomes(before.map, key, value)
<1>t. TypeInv
  BY DEF IndexInv
<1>1. MakeRootFail \/ Finish \/ GrowRoot \/ GrowRootFail
  BY DEF Next, InsertStep, InsertCall, MakeRoot, Descend, Replace, AddToLeaf, SplitLeaf, SplitLeafFail,
     LeafReturn, AddToInner, SplitInner, SplitInnerFail, InnerReturn, CallerHasSplitChild,
     InsertingAtLeaf, SearchCall, SearchDescend, SearchEnd, SearchIsOver, Destroy
<1>2. CASE MakeRootFail
  <2>1. /\ pc = "insert" /\ node = NULL /\ fails' = fails + 1 /\ map' = map /\ ok' = FALSE
    BY <1>2 DEF MakeRootFail, AllocationFails, Return
  <2>2. before.map = map /\ before.fails = fails /\ fails \in Nat /\ root = NULL
    BY <1>t, <2>1 DEF IndexInv, OutcomeInv, CallInv, TypeInv
  <2>3. Sound(heap, root, span) /\ Contents(heap, span, map) /\ span \in [Nodes -> SpanOf]
    BY <1>t, <2>1 DEF IndexInv, TreeInv, Pending, ContentInv, TypeInv
  <2>4. Nodes = {}
    BY <2>2, <2>3, SoundFacts
  <2>5. DOMAIN map = {}
    BY <2>3, <2>4 DEF Contents, Nodes
  <2>6. map = [k \in DOMAIN map |-> map[k]] /\ key \in Ints /\ key \notin DOMAIN map
        /\ DOMAIN map \subseteq Ints
    BY <1>t, <2>5 DEF TypeInv
  <2>7. [map |-> map, ok |-> FALSE] \in FailedInsertOutcomes(map, key, value)
    BY ONLY <2>6, NothingInserted
  <2>8. fails' # before.fails
    BY <2>1, <2>2
  <2> QED
    BY ONLY <2>1, <2>2, <2>7, <2>8
<1>3. CASE Finish
  <2>1. pc = "return" /\ map' = map /\ ok' = TRUE /\ fails' = fails
    BY <1>3 DEF Finish, Return
  <2> QED
    BY <2>1 DEF IndexInv, OutcomeInv, InsertOutcome
<1>4. CASE GrowRoot
  <2>1. pc = "return" /\ result.split /\ map' = map /\ ok' = TRUE /\ fails' = fails
    BY <1>4 DEF GrowRoot, Return
  <2> QED
    BY <2>1 DEF IndexInv, OutcomeInv, InsertOutcome
<1>5. CASE GrowRootFail
  <2>1. /\ pc = "return" /\ result.split /\ heap' = heap /\ root' = root
        /\ LoseRight /\ fails' = fails + 1 /\ ok' = FALSE
    BY <1>5 DEF GrowRootFail, AllocationFails, Return
  <2>2. /\ [map |-> map', ok |-> FALSE] \in FailedInsertOutcomes(before.map, key, value)
        /\ fails' # before.fails
    BY <2>1, AfterLoss
  <2> QED
    BY <2>1, <2>2
<1> QED
  BY <1>1, <1>2, <1>3, <1>4, <1>5

\* No bptree_insert does anything to the contents that the model of the storage
\* engine does not allow for its index.
THEOREM InsertionsHaveOutcomes == Spec => InsertWithinOutcomes
<1>1. IndexInv /\ [Next]_vars =>
        [pc # "search" /\ pc # "idle" /\ pc' = "idle" =>
           [map |-> map', ok |-> ok'] \in
             IF fails' = before.fails THEN {InsertOutcome(before.map, key, value)}
             ELSE FailedInsertOutcomes(before.map, key, value)]_vars
  BY InsertionEnds
<1> QED
  BY <1>1, IndexIsInvariant, PTL DEF Spec, InsertWithinOutcomes
=============================================================================
