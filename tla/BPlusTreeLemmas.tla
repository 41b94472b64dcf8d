-------------------------- MODULE BPlusTreeLemmas ---------------------------
(***************************************************************************)
(* What the steps of BPlusTree rely on: the inductive invariant IndexInv,  *)
(* and lemmas about the operators it is built from, each about a node, a   *)
(* set of ranges or a tree and not about the state of the model.           *)
(*                                                                         *)
(* The ranges of the history variable span stand for the shape of the      *)
(* tree, so that no recursion over nodes is needed: each node fits its own *)
(* range (Fits), ranges of one height are disjoint and lower ones lie      *)
(* inside higher ones (Nested), and the root has all ints (Rooted).  A     *)
(* divided node whose right half is not yet linked (Parted) still has its  *)
(* old range in the eyes of its parent (JointOf).                          *)
(***************************************************************************)
EXTENDS BPlusTree, FilterProofs, SequenceTheorems, FiniteSetTheorems, TLAPS

\* The ints; Number, Address and Node are names that stay folded in the proofs.
Ints == -IntMax - 1..IntMax
Number == Int
Address == Nat
Node == [leaf : BOOLEAN, keys : Seq(Number), vals : Seq(Address), kids : Seq(Address)]
SpanOf == [low : Int, high : Int, height : Nat]
Frame == [node : Nat, idx : Nat]
Result == [split : BOOLEAN, key : Int, right : Nat, new : BOOLEAN]

\* The types of the variables; the nodes of the tree were allocated.
TypeInv ==
  /\ heap \in Seq(Node)
  /\ root \in Nat /\ size \in Nat
  /\ pc \in {"idle", "insert", "return", "search"}
  /\ key \in Ints /\ value \in Nat /\ node \in Nat
  /\ frames \in Seq(Frame)
  /\ result \in Result
  /\ ok \in BOOLEAN /\ fails \in Nat
  /\ map \in [DOMAIN map -> Nat] /\ DOMAIN map \subseteq Ints /\ IsFiniteSet(DOMAIN map)
  /\ span \in [Nodes -> SpanOf] /\ Nodes \subseteq 1..Len(heap)

\* A divided node is on its way up: its right half has no parent.
Pending == pc = "return" /\ result.split

\* The range of the i-th child of a node n with range p.
SegLow(n, p, i) == IF i = 1 THEN p.low ELSE n.keys[i - 1]
SegHigh(n, p, i) == IF i = Len(n.keys) + 1 THEN p.high ELSE n.keys[i]

\* Keys in ascending order, and in a range.
Ascends(q) == \A i, j \in 1..Len(q) : i < j => q[i] < q[j]
Within(q, low, high) == \A i \in 1..Len(q) : low <= q[i] /\ q[i] < high

\* The node n is right for its range p, and its children have the ranges in s that
\* its keys separate.
Fits(n, s, p) ==
  /\ p.low < p.high
  /\ n.leaf <=> p.height = 0
  /\ Ascends(n.keys) /\ Within(n.keys, p.low, p.high)
  /\ n.leaf => Len(n.vals) = Len(n.keys)
  /\ ~n.leaf =>
       /\ Len(n.keys) > 0 /\ Len(n.kids) = Len(n.keys) + 1 /\ p.low < n.keys[1]
       /\ \A i \in 1..Len(n.kids) :
            /\ n.kids[i] \in DOMAIN s
            /\ s[n.kids[i]] = [low |-> SegLow(n, p, i), high |-> SegHigh(n, p, i),
                               height |-> p.height - 1]

\* Of two nodes, the lower lies beside the higher or inside it; two nodes of one
\* height never overlap.
Nested(s) ==
  \A a, b \in DOMAIN s : s[a].height <= s[b].height =>
    \/ s[a].high <= s[b].low
    \/ s[b].high <= s[a].low
    \/ /\ s[b].low <= s[a].low /\ s[a].high <= s[b].high
       /\ s[a].height = s[b].height => a = b

\* The ranges as the parent of a divided node n with right half r still has them.
JointOf(s, n, r) ==
  [a \in DOMAIN s |-> IF a = n THEN [s[a] EXCEPT !.high = s[r].high] ELSE s[a]]

\* Every node fits its range, its children those of J.
Shape(h, s, J) == \A a \in DOMAIN s : Fits(h[a], J, s[a])

\* The root has all ints and is above all nodes.
Rooted(rt, s, J) ==
  /\ rt = NULL => DOMAIN s = {}
  /\ rt # NULL => rt \in DOMAIN s /\ J[rt] = Whole(s[rt].height)
  /\ \A a \in DOMAIN s : /\ s[a].height <= s[rt].height
                        /\ -IntMax - 1 <= s[a].low /\ s[a].high <= IntMax + 1

\* Some inner node has a link to b.
HasParent(h, s, b) ==
  \E a \in DOMAIN s : ~h[a].leaf /\ \E i \in 1..Len(h[a].kids) : h[a].kids[i] = b

\* A tree between insertions.
Sound(h, rt, s) ==
  /\ Shape(h, s, s) /\ Nested(s) /\ Rooted(rt, s, s)
  /\ \A b \in DOMAIN s \ {rt} : HasParent(h, s, b)

\* A tree with a node n that was divided at k and whose right half r has no parent yet.
Parted(h, rt, s, n, r, k) ==
  /\ Shape(h, s, JointOf(s, n, r)) /\ Nested(s) /\ Rooted(rt, s, JointOf(s, n, r))
  /\ \A b \in DOMAIN s \ {rt, r} : HasParent(h, s, b)
  /\ ~HasParent(h, s, r) /\ r # rt /\ n # r
  /\ n \in DOMAIN s /\ r \in DOMAIN s
  /\ s[n].high = k /\ s[r].low = k /\ s[n].height = s[r].height

\* At each moment the tree is sound but for the node that is being divided.
TreeInv ==
  IF Pending THEN Parted(heap, root, span, node, result.right, result.key)
             ELSE Sound(heap, root, span)

\* The key of the call is in the range of a.
Covers(a) == span[a].low <= key /\ key < span[a].high

\* The activations fr above node nd are a path from the root.
Path(h, s, rt, fr, nd) ==
  /\ (IF fr = <<>> THEN nd ELSE fr[1].node) = rt
  /\ \A j \in 1..Len(fr) :
       /\ fr[j].node \in DOMAIN s /\ ~h[fr[j].node].leaf
       /\ fr[j].idx \in 0..Len(h[fr[j].node].keys)
       /\ s[fr[j].node].height = s[nd].height + Len(fr) + 1 - j
       /\ h[fr[j].node].kids[fr[j].idx + 1] = IF j = Len(fr) THEN nd ELSE fr[j + 1].node

\* A call stands on the path from the root to the leaf of its key.
CallInv ==
  /\ pc \in {"idle", "search"} => frames = <<>>
  /\ pc \in {"insert", "search"} /\ node = NULL => root = NULL /\ frames = <<>>
  /\ pc \in {"insert", "search"} /\ node # NULL => node \in Nodes /\ Covers(node)
  /\ pc \in {"insert", "return"} => Path(heap, span, root, frames, node)
  /\ pc = "return" => node \in Nodes

\* The leaves hold the entries of the map m, and no others.
Contents(h, s, m) ==
  /\ \A a \in DOMAIN s : h[a].leaf =>
       \A i \in 1..Len(h[a].keys) :
         h[a].keys[i] \in DOMAIN m /\ h[a].vals[i] = m[h[a].keys[i]]
  /\ \A k \in DOMAIN m : \E a \in DOMAIN s :
       h[a].leaf /\ \E i \in 1..Len(h[a].keys) : h[a].keys[i] = k

\* The map has a key in the range.
Inhabited(p, m) == \E k \in DOMAIN m : p.low <= k /\ k < p.high

\* No node is empty, except a new root before its first entry.  So a loss always
\* takes a key, and a range tells which keys.
ContentInv ==
  /\ Contents(heap, span, map)
  /\ \A a \in Nodes :
       Inhabited(span[a], map) \/ (a = node /\ Len(heap[a].keys) = 0 /\ heap[a].leaf /\ pc = "insert")

\* What a call has done to the contents so far, and what size counts.
OutcomeInv ==
  /\ pc = "insert" => before.map = map /\ before.fails = fails
  /\ pc = "return" =>
       IF fails = before.fails
       THEN map = Put(before.map, key, value) /\ (result.new <=> key \notin DOMAIN before.map)
       ELSE /\ [map |-> map, ok |-> TRUE] \in FailedInsertOutcomes(before.map, key, value)
            /\ ~result.split /\ before.fails < fails
  /\ Pending => result.new
  /\ fails = 0 =>
       Cardinality(DOMAIN map) = size + IF pc = "return" /\ result.new THEN 1 ELSE 0

\* Nodes are at most full, and almost half full while memory was at hand.
FillInv ==
  \A a \in Nodes :
    /\ Len(heap[a].keys) <= MaxKeys
    /\ fails = 0 /\ (a # root \/ (Pending /\ a = node)) =>
         Len(heap[a].keys) >= IF heap[a].leaf THEN LeftCount ELSE MaxKeys \div 2

\* The inductive invariant.
IndexInv == TypeInv /\ TreeInv /\ CallInv /\ ContentInv /\ OutcomeInv /\ FillInv

-----------------------------------------------------------------------------
(* Sequences.                                                              *)

\* A sequence with one element put in.
LEMMA InsertAtProperties ==
  ASSUME NEW S, NEW s \in Seq(S), NEW p \in 1..Len(s) + 1, NEW e \in S
  PROVE  /\ InsertAt(s, p, e) \in Seq(S)
         /\ Len(InsertAt(s, p, e)) = Len(s) + 1
         /\ \A i \in 1..Len(s) + 1 :
              InsertAt(s, p, e)[i] = IF i < p THEN s[i] ELSE IF i = p THEN e ELSE s[i - 1]
<1> DEFINE a == SubSeq(s, 1, p - 1)  b == <<e>>  c == SubSeq(s, p, Len(s))
<1>0. Len(s) \in Nat /\ \A i \in 1..Len(s) : s[i] \in S
  BY LenProperties, ElementOfSeq
<1>1. a \in Seq(S) /\ Len(a) = p - 1 /\ \A i \in 1..p - 1 : a[i] = s[i]
  BY <1>0, SubSeqProperties
<1>2. b \in Seq(S) /\ Len(b) = 1 /\ b[1] = e
  OBVIOUS
<1>3. c \in Seq(S) /\ Len(c) = Len(s) - p + 1 /\ \A i \in 1..Len(s) - p + 1 : c[i] = s[p + i - 1]
  BY <1>0, SubSeqProperties
<1>4. InsertAt(s, p, e) = (a \o b) \o c
  BY DEF InsertAt
<1> HIDE DEF a, b, c
<1>5. /\ a \o b \in Seq(S) /\ Len(a \o b) = p
      /\ \A i \in 1..p : (a \o b)[i] = IF i < p THEN s[i] ELSE e
  <2>1. /\ a \o b \in Seq(S) /\ Len(a \o b) = Len(a) + Len(b)
        /\ \A i \in 1..Len(a) + Len(b) : (a \o b)[i] = IF i <= Len(a) THEN a[i] ELSE b[i - Len(a)]
    BY ONLY <1>1, <1>2, ConcatProperties
  <2> QED
    BY ONLY <1>0, <1>1, <1>2, <2>1, p \in 1..Len(s) + 1
<1>6. /\ (a \o b) \o c \in Seq(S) /\ Len((a \o b) \o c) = Len(s) + 1
      /\ \A i \in 1..Len(s) + 1 :
           ((a \o b) \o c)[i] = IF i <= p THEN (a \o b)[i] ELSE c[i - p]
  <2> DEFINE d == a \o b
  <2>1. d \in Seq(S) /\ Len(d) = p
    BY <1>5
  <2> HIDE DEF d
  <2>2. /\ d \o c \in Seq(S) /\ Len(d \o c) = Len(d) + Len(c)
        /\ \A i \in 1..Len(d) + Len(c) : (d \o c)[i] = IF i <= Len(d) THEN d[i] ELSE c[i - Len(d)]
    BY ONLY <1>3, <2>1, ConcatProperties
  <2>3. /\ d \o c \in Seq(S) /\ Len(d \o c) = Len(s) + 1
        /\ \A i \in 1..Len(s) + 1 : (d \o c)[i] = IF i <= p THEN d[i] ELSE c[i - p]
    BY ONLY <1>0, <1>3, <2>1, <2>2, p \in 1..Len(s) + 1
  <2> QED
    BY <2>3 DEF d
<1>7. ASSUME NEW i \in 1..Len(s) + 1
      PROVE  InsertAt(s, p, e)[i] = IF i < p THEN s[i] ELSE IF i = p THEN e ELSE s[i - 1]
  BY <1>0, <1>3, <1>4, <1>5, <1>6
<1> QED
  BY <1>4, <1>6, <1>7

\* The same, counted from zero as the code does.
LEMMA InsertAfter ==
  ASSUME NEW S, NEW s \in Seq(S), NEW pos \in 0..Len(s), NEW e \in S
  PROVE  /\ InsertAt(s, pos + 1, e) \in Seq(S)
         /\ Len(InsertAt(s, pos + 1, e)) = Len(s) + 1
         /\ \A i \in 1..Len(s) + 1 :
              InsertAt(s, pos + 1, e)[i] =
                IF i < pos + 1 THEN s[i] ELSE IF i = pos + 1 THEN e ELSE s[i - 1]
<1>1. pos + 1 \in 1..Len(s) + 1
  OBVIOUS
<1> QED
  BY <1>1, InsertAtProperties

\* A part of a sequence.
LEMMA Part ==
  ASSUME NEW S, NEW s \in Seq(S), NEW m \in 1..Len(s) + 1, NEW n \in 0..Len(s), m <= n + 1
  PROVE  /\ SubSeq(s, m, n) \in Seq(S) /\ Len(SubSeq(s, m, n)) = n - m + 1
         /\ \A i \in 1..n - m + 1 : SubSeq(s, m, n)[i] = s[m + i - 1]
<1>1. Len(s) \in Nat /\ \A i \in m..n : s[i] \in S
  BY LenProperties, ElementOfSeq
<1> QED
  BY <1>1, SubSeqProperties

\* The heap after writing a node, and after allocating one.
LEMMA Written ==
  ASSUME NEW S, NEW h \in Seq(S), NEW a \in 1..Len(h), NEW n \in S
  PROVE  /\ [h EXCEPT ![a] = n] \in Seq(S) /\ Len([h EXCEPT ![a] = n]) = Len(h)
         /\ [h EXCEPT ![a] = n][a] = n
         /\ \A b \in 1..Len(h) : b # a => [h EXCEPT ![a] = n][b] = h[b]
  BY ExceptSeq

\* A heap with one more node.
LEMMA Allocated ==
  ASSUME NEW S, NEW h \in Seq(S), NEW n \in S
  PROVE  /\ Append(h, n) \in Seq(S) /\ Len(Append(h, n)) = Len(h) + 1
         /\ Append(h, n)[Len(h) + 1] = n
         /\ \A b \in 1..Len(h) : Append(h, n)[b] = h[b]
  BY AppendProperties

-----------------------------------------------------------------------------
(* Positions in a node.                                                    *)

\* How far a condition holds from the beginning of 1..n: K are its places.
LEMMA Leading ==
  ASSUME NEW n \in Nat, NEW K
  PROVE  \E m \in 0..n : (1..m \subseteq K) /\ (m < n => m + 1 \notin K)
<1> DEFINE T == {m \in 0..n : m = n \/ m + 1 \notin K}
<1>1. T \subseteq Nat /\ T # {}
  <2>1. n \in T
    OBVIOUS
  <2> QED
    BY <2>1
<1>2. PICK m \in T : \A y \in T : m <= y
  <2> HIDE DEF T
  <2> QED
    BY <1>1, LeastNumber
<1>3. 1..m \subseteq K
  <2> SUFFICES ASSUME NEW i \in 1..m, i \notin K PROVE FALSE
    OBVIOUS
  <2>1. i - 1 \in T
    OBVIOUS
  <2> QED
    BY <1>2, <2>1
<1> QED
  BY <1>2, <1>3

\* leaf_find_position divides the keys into those below k and the others.
LEMMA LeafPosition ==
  ASSUME NEW keys \in Seq(Number), NEW k \in Number
  PROVE  LET n == LeafFindPosition(keys, k)
         IN  /\ n \in 0..Len(keys)
             /\ \A i \in 1..n : keys[i] < k
             /\ n < Len(keys) => keys[n + 1] >= k
<1> DEFINE K == {i \in 1..Len(keys) : keys[i] < k}
<1>1. Len(keys) \in Nat /\ \A i \in 1..Len(keys) : keys[i] \in Int /\ k \in Int
  BY DEF Number
<1>2. PICK m \in 0..Len(keys) : (1..m \subseteq K) /\ (m < Len(keys) => m + 1 \notin K)
  <2> HIDE DEF K
  <2> QED
    BY <1>1, Leading
<1>3. (\A i \in 1..m : keys[i] < k) /\ (m < Len(keys) => keys[m + 1] >= k)
  BY <1>1, <1>2
<1> QED
  BY <1>3 DEF LeafFindPosition

\* child_index_for_key divides the separators into those that k reaches and the others.
LEMMA ChildIndex ==
  ASSUME NEW keys \in Seq(Number), NEW k \in Number
  PROVE  LET n == ChildIndexForKey(keys, k)
         IN  /\ n \in 0..Len(keys)
             /\ \A i \in 1..n : k >= keys[i]
             /\ n < Len(keys) => k < keys[n + 1]
<1> DEFINE K == {i \in 1..Len(keys) : k >= keys[i]}
<1>1. Len(keys) \in Nat /\ \A i \in 1..Len(keys) : keys[i] \in Int /\ k \in Int
  BY DEF Number
<1>2. PICK m \in 0..Len(keys) : (1..m \subseteq K) /\ (m < Len(keys) => m + 1 \notin K)
  <2> HIDE DEF K
  <2> QED
    BY <1>1, Leading
<1>3. (\A i \in 1..m : k >= keys[i]) /\ (m < Len(keys) => k < keys[m + 1])
  BY <1>1, <1>2
<1> QED
  BY <1>3 DEF ChildIndexForKey

-----------------------------------------------------------------------------
(* Nodes.                                                                  *)

\* A range is its fields.
LEMMA SpanFields ==
  ASSUME NEW p \in SpanOf
  PROVE  /\ p.low \in Int /\ p.high \in Int /\ p.height \in Nat
         /\ p = [low |-> p.low, high |-> p.high, height |-> p.height]
  BY DEF SpanOf

\* The two sides of a split are not empty.
LEMMA Halves ==
  /\ LeftCount \in 1..MaxKeys /\ LeftCount < MaxKeys
  /\ MaxKeys + 1 - LeftCount >= LeftCount
  /\ MaxKeys - LeftCount = MaxKeys \div 2 /\ LeftCount >= MaxKeys \div 2
  BY MaxKeysAssumption DEF MaxKeysAssumption, LeftCount

\* An ascending sequence with k put in where it belongs.
LEMMA AscendsInsert ==
  ASSUME NEW q \in Seq(Number), Ascends(q), NEW k \in Number, NEW pos \in 0..Len(q),
         \A i \in 1..pos : q[i] < k, \A i \in pos + 1..Len(q) : k < q[i]
  PROVE  Ascends(InsertAt(q, pos + 1, k))
<1> DEFINE m == InsertAt(q, pos + 1, k)  N == Len(q)
<1>1. /\ m \in Seq(Number) /\ Len(m) = N + 1
      /\ \A i \in 1..N + 1 :
           m[i] = IF i < pos + 1 THEN q[i] ELSE IF i = pos + 1 THEN k ELSE q[i - 1]
  <2>1. pos + 1 \in 1..Len(q) + 1
    OBVIOUS
  <2> QED
    BY <2>1, InsertAtProperties
<1>2. N \in Nat /\ k \in Int /\ \A i \in 1..N : q[i] \in Int
  BY DEF Number
<1> HIDE DEF m
<1> SUFFICES ASSUME NEW i \in 1..N + 1, NEW j \in 1..N + 1, i < j PROVE m[i] < m[j]
  BY <1>1 DEF Ascends, m
<1>3. m[i] = IF i < pos + 1 THEN q[i] ELSE IF i = pos + 1 THEN k ELSE q[i - 1]
  BY <1>1
<1>4. m[j] = IF j < pos + 1 THEN q[j] ELSE IF j = pos + 1 THEN k ELSE q[j - 1]
  BY <1>1
<1>a. \A x, y \in 1..N : x < y => q[x] < q[y]
  BY DEF Ascends
<1>b. i \in Int /\ j \in Int /\ pos \in 0..N /\ 1 <= i /\ i <= N + 1 /\ 1 <= j /\ j <= N + 1
  BY <1>2
<1> HIDE DEF N
<1>5. CASE j <= pos
  BY ONLY <1>2, <1>3, <1>4, <1>5, <1>a, <1>b, i < j
<1>6. CASE j = pos + 1
  <2>1. m[i] = q[i] /\ m[j] = k /\ i \in 1..pos
    BY ONLY <1>2, <1>3, <1>4, <1>6, <1>b, i < j
  <2> QED
    BY <2>1
<1>7. CASE j > pos + 1 /\ i <= pos
  <2>1. m[i] = q[i] /\ m[j] = q[j - 1] /\ i \in 1..N /\ j - 1 \in 1..N /\ i < j - 1
    BY ONLY <1>2, <1>3, <1>4, <1>7, <1>b, i < j
  <2> QED
    BY ONLY <1>a, <2>1
<1>8. CASE j > pos + 1 /\ i = pos + 1
  <2>1. m[i] = k /\ m[j] = q[j - 1] /\ j - 1 \in pos + 1..N
    BY ONLY <1>2, <1>3, <1>4, <1>8, <1>b, i < j
  <2> QED
    BY <2>1 DEF N
<1>9. CASE j > pos + 1 /\ i > pos + 1
  <2>1. m[i] = q[i - 1] /\ m[j] = q[j - 1] /\ i - 1 \in 1..N /\ j - 1 \in 1..N /\ i - 1 < j - 1
    BY ONLY <1>2, <1>3, <1>4, <1>9, <1>b, i < j
  <2> QED
    BY ONLY <1>a, <2>1
<1> QED
  BY ONLY <1>5, <1>6, <1>7, <1>8, <1>9, <1>b, i < j

\* What holds of the elements also holds with k put in.
LEMMA WithinInsert ==
  ASSUME NEW q \in Seq(Number), NEW k \in Number, NEW pos \in 0..Len(q), NEW low, NEW high,
         Within(q, low, high), low <= k, k < high
  PROVE  Within(InsertAt(q, pos + 1, k), low, high)
<1> DEFINE m == InsertAt(q, pos + 1, k)  N == Len(q)
<1>1. /\ m \in Seq(Number) /\ Len(m) = N + 1
      /\ \A i \in 1..N + 1 :
           m[i] = IF i < pos + 1 THEN q[i] ELSE IF i = pos + 1 THEN k ELSE q[i - 1]
  <2>1. pos + 1 \in 1..Len(q) + 1
    OBVIOUS
  <2> QED
    BY <2>1, InsertAtProperties
<1> HIDE DEF m
<1> SUFFICES ASSUME NEW i \in 1..N + 1 PROVE low <= m[i] /\ m[i] < high
  BY <1>1 DEF Within, m
<1>2. m[i] = k \/ \E j \in 1..N : m[i] = q[j]
  <2>1. CASE i <= pos
    BY <1>1, <2>1
  <2>2. CASE i > pos + 1
    <3>1. i - 1 \in 1..N /\ m[i] = q[i - 1]
      BY <1>1, <2>2
    <3> QED
      BY <3>1
  <2> QED
    BY <1>1, <2>1, <2>2
<1> QED
  BY <1>2 DEF Within

\* A part of an ascending sequence ascends, between the elements around it.
LEMMA AscendsPart ==
  ASSUME NEW q \in Seq(Number), Ascends(q), NEW m \in 1..Len(q) + 1, NEW n \in 0..Len(q), m <= n + 1
  PROVE  Ascends(SubSeq(q, m, n))
<1> DEFINE r == SubSeq(q, m, n)
<1>1. Len(r) = n - m + 1 /\ \A i \in 1..n - m + 1 : r[i] = q[m + i - 1]
  BY Part
<1> HIDE DEF r
<1> SUFFICES ASSUME NEW i \in 1..n - m + 1, NEW j \in 1..n - m + 1, i < j PROVE r[i] < r[j]
  BY <1>1 DEF Ascends, r
<1>2. m + i - 1 \in 1..Len(q) /\ m + j - 1 \in 1..Len(q) /\ m + i - 1 < m + j - 1
  OBVIOUS
<1>3. q[m + i - 1] < q[m + j - 1]
  BY ONLY <1>2, Ascends(q) DEF Ascends
<1> QED
  BY <1>1, <1>3

\* A part of a sequence is in a range that its own elements are in.
LEMMA WithinPart ==
  ASSUME NEW q \in Seq(Number), NEW m \in 1..Len(q) + 1, NEW n \in 0..Len(q), m <= n + 1,
         NEW low, NEW high, \A i \in m..n : low <= q[i] /\ q[i] < high
  PROVE  Within(SubSeq(q, m, n), low, high)
<1> DEFINE r == SubSeq(q, m, n)
<1>1. Len(r) = n - m + 1 /\ \A i \in 1..n - m + 1 : r[i] = q[m + i - 1]
  BY Part
<1> HIDE DEF r
<1> SUFFICES ASSUME NEW i \in 1..n - m + 1 PROVE low <= r[i] /\ r[i] < high
  BY <1>1 DEF Within, r
<1>2. m + i - 1 \in m..n
  OBVIOUS
<1> QED
  BY <1>1, <1>2

-----------------------------------------------------------------------------
(* Leaves.                                                                 *)

\* A leaf takes a new key at its position.
LEMMA LeafAdd ==
  ASSUME NEW n \in Node, n.leaf, NEW s, NEW p \in SpanOf, Fits(n, s, p),
         NEW k \in Number, p.low <= k, k < p.high, NEW v \in Address,
         NEW pos, pos = LeafFindPosition(n.keys, k),
         ~(pos < Len(n.keys) /\ n.keys[pos + 1] = k),
         NEW m, m = Leaf(InsertAt(n.keys, pos + 1, k), InsertAt(n.vals, pos + 1, v))
  PROVE  /\ m \in Node /\ m.leaf /\ Len(m.keys) = Len(n.keys) + 1
         /\ Fits(m, s, p)
         /\ \A i \in 1..Len(m.keys) :
              \/ m.keys[i] = k /\ m.vals[i] = v
              \/ \E j \in 1..Len(n.keys) : m.keys[i] = n.keys[j] /\ m.vals[i] = n.vals[j]
         /\ \A j \in 1..Len(n.keys) :
              n.keys[j] # k /\ \E i \in 1..Len(m.keys) : m.keys[i] = n.keys[j]
         /\ \E i \in 1..Len(m.keys) : m.keys[i] = k
<1> DEFINE q == n.keys  w == n.vals  N == Len(q)
<1>1. /\ q \in Seq(Number) /\ w \in Seq(Address) /\ N \in Nat /\ Len(w) = N
      /\ Ascends(q) /\ Within(q, p.low, p.high)
      /\ p.low < p.high /\ p.height = 0
  BY DEF Node, Fits, SpanOf
<1>k. m.keys = InsertAt(q, pos + 1, k) /\ m.vals = InsertAt(w, pos + 1, v) /\ m.leaf /\ m.kids = <<>>
  BY DEF Leaf
<1>x. m = [leaf |-> TRUE, keys |-> InsertAt(q, pos + 1, k), vals |-> InsertAt(w, pos + 1, v),
           kids |-> <<>>]
  BY DEF Leaf
<1>n. ~(pos < N /\ q[pos + 1] = k) /\ pos = LeafFindPosition(q, k)
  OBVIOUS
<1> HIDE DEF q, w, N
<1>2. /\ pos \in 0..N /\ \A i \in 1..pos : q[i] < k
      /\ pos < N => q[pos + 1] >= k
  BY <1>1, <1>n, LeafPosition DEF N
<1>i. k \in Int /\ \A i \in 1..N : q[i] \in Int
  BY ONLY <1>1, k \in Number DEF Number, N
<1>3. \A i \in pos + 1..N : k < q[i]
  <2> SUFFICES ASSUME NEW i \in pos + 1..N PROVE k < q[i]
    OBVIOUS
  <2>1. pos + 1 \in 1..N /\ i \in 1..N /\ k < q[pos + 1]
    BY ONLY <1>1, <1>2, <1>n, <1>i, i \in pos + 1..N
  <2>2. pos + 1 < i => q[pos + 1] < q[i]
    BY ONLY <1>1, <2>1 DEF Ascends, N
  <2> QED
    BY ONLY <1>i, <1>2, <2>1, <2>2, i \in pos + 1..N
<1>4. /\ m.keys \in Seq(Number) /\ Len(m.keys) = N + 1
      /\ \A i \in 1..N + 1 :
           m.keys[i] = IF i < pos + 1 THEN q[i] ELSE IF i = pos + 1 THEN k ELSE q[i - 1]
  <2>1. q \in Seq(Number) /\ pos \in 0..Len(q)
    BY <1>1, <1>2 DEF N
  <2>2. /\ InsertAt(q, pos + 1, k) \in Seq(Number) /\ Len(InsertAt(q, pos + 1, k)) = Len(q) + 1
        /\ \A i \in 1..Len(q) + 1 : InsertAt(q, pos + 1, k)[i] =
             IF i < pos + 1 THEN q[i] ELSE IF i = pos + 1 THEN k ELSE q[i - 1]
    BY ONLY <2>1, k \in Number, InsertAfter
  <2> QED
    BY ONLY <1>k, <2>2 DEF N
<1>5. /\ m.vals \in Seq(Address) /\ Len(m.vals) = N + 1
      /\ \A i \in 1..N + 1 :
           m.vals[i] = IF i < pos + 1 THEN w[i] ELSE IF i = pos + 1 THEN v ELSE w[i - 1]
  <2>1. w \in Seq(Address) /\ pos \in 0..Len(w)
    BY <1>1, <1>2
  <2>u. PICK u : u = w
    OBVIOUS
  <2>4. u \in Seq(Address) /\ pos \in 0..Len(u)
    BY ONLY <2>1, <2>u
  <2>5. /\ InsertAt(u, pos + 1, v) \in Seq(Address) /\ Len(InsertAt(u, pos + 1, v)) = Len(u) + 1
        /\ \A i \in 1..Len(u) + 1 : InsertAt(u, pos + 1, v)[i] =
             IF i < pos + 1 THEN u[i] ELSE IF i = pos + 1 THEN v ELSE u[i - 1]
    BY ONLY <2>4, v \in Address, InsertAfter
  <2>2. /\ InsertAt(w, pos + 1, v) \in Seq(Address) /\ Len(InsertAt(w, pos + 1, v)) = Len(w) + 1
        /\ \A i \in 1..Len(w) + 1 : InsertAt(w, pos + 1, v)[i] =
             IF i < pos + 1 THEN w[i] ELSE IF i = pos + 1 THEN v ELSE w[i - 1]
    BY ONLY <2>5, <2>u
  <2>3. Len(w) = N
    BY <1>1
  <2> QED
    BY ONLY <1>k, <2>2, <2>3
<1>6. m \in Node
  BY ONLY <1>4, <1>5, <1>k, <1>x, EmptySeq DEF Node
<1>7. Ascends(m.keys) /\ Within(m.keys, p.low, p.high)
  <2>1. Ascends(InsertAt(q, pos + 1, k))
    BY ONLY <1>1, <1>2, <1>3, k \in Number, AscendsInsert DEF N
  <2>2. Within(InsertAt(q, pos + 1, k), p.low, p.high)
    BY ONLY <1>1, <1>2, k \in Number, p.low <= k, k < p.high, WithinInsert DEF N
  <2> QED
    BY <1>k, <2>1, <2>2
<1>9. Fits(m, s, p)
  BY ONLY <1>1, <1>4, <1>5, <1>k, <1>7 DEF Fits
<1>10. \A i \in 1..N + 1 :
         \/ m.keys[i] = k /\ m.vals[i] = v
         \/ \E j \in 1..N : m.keys[i] = q[j] /\ m.vals[i] = w[j]
  <2> SUFFICES ASSUME NEW i \in 1..N + 1
               PROVE  \/ m.keys[i] = k /\ m.vals[i] = v
                      \/ \E j \in 1..N : m.keys[i] = q[j] /\ m.vals[i] = w[j]
    OBVIOUS
  <2>0. /\ m.keys[i] = IF i < pos + 1 THEN q[i] ELSE IF i = pos + 1 THEN k ELSE q[i - 1]
        /\ m.vals[i] = IF i < pos + 1 THEN w[i] ELSE IF i = pos + 1 THEN v ELSE w[i - 1]
    BY <1>4, <1>5
  <2>a. pos \in Nat /\ pos <= N /\ N \in Nat /\ i \in Nat /\ 1 <= i /\ i <= N + 1
    BY <1>1, <1>2
  <2>1. CASE i < pos + 1
    <3>1. i \in 1..N /\ m.keys[i] = q[i] /\ m.vals[i] = w[i]
      BY ONLY <2>a, <2>0, <2>1
    <3> QED
      BY <3>1
  <2>2. CASE i > pos + 1
    <3>1. i - 1 \in 1..N /\ m.keys[i] = q[i - 1] /\ m.vals[i] = w[i - 1]
      BY ONLY <2>a, <2>0, <2>2
    <3> QED
      BY <3>1
  <2>3. CASE i = pos + 1
    BY ONLY <2>0, <2>3, <2>a
  <2> QED
    BY ONLY <2>a, <2>1, <2>2, <2>3
<1>11. \A j \in 1..N : q[j] # k /\ \E i \in 1..N + 1 : m.keys[i] = q[j]
  <2> SUFFICES ASSUME NEW j \in 1..N
               PROVE  q[j] # k /\ \E i \in 1..N + 1 : m.keys[i] = q[j]
    OBVIOUS
  <2>a. pos \in Nat /\ pos <= N /\ N \in Nat /\ j \in Nat /\ 1 <= j /\ j <= N
    BY <1>1, <1>2
  <2>1. q[j] # k
    <3>1. q[j] \in Int /\ k \in Int /\ (q[j] < k \/ k < q[j])
      <4>1. CASE j <= pos
        BY <1>2, <1>i, <2>a, <4>1
      <4>2. CASE j > pos
        BY <1>3, <1>i, <2>a, <4>2
      <4> QED
        BY <2>a, <4>1, <4>2
    <3> QED
      BY ONLY <3>1
  <2>2. CASE j < pos + 1
    <3>1. j \in 1..N + 1 /\ m.keys[j] = q[j]
      BY ONLY <1>4, <2>a, <2>2
    <3> QED
      BY <2>1, <3>1
  <2>3. CASE j >= pos + 1
    <3>1. j + 1 \in 1..N + 1 /\ ~(j + 1 < pos + 1) /\ j + 1 # pos + 1 /\ (j + 1) - 1 = j
      BY ONLY <2>a, <2>3
    <3>2. m.keys[j + 1] = q[j]
      BY ONLY <1>4, <3>1
    <3> QED
      BY <2>1, <3>1, <3>2
  <2> QED
    BY ONLY <2>a, <2>2, <2>3
<1>12. \E i \in 1..N + 1 : m.keys[i] = k
  <2>1. pos + 1 \in 1..N + 1 /\ ~(pos + 1 < pos + 1)
    BY ONLY <1>1, <1>2
  <2>2. m.keys[pos + 1] = k
    BY ONLY <1>4, <2>1
  <2> QED
    BY <2>1, <2>2
<1> QED
  BY ONLY <1>4, <1>k, <1>6, <1>9, <1>10, <1>11, <1>12 DEF N, q, w

\* Both halves of a divided leaf fit their part of its range.
LEMMA LeafHalves ==
  ASSUME NEW n \in Node, n.leaf, NEW s, NEW p \in SpanOf, Fits(n, s, p),
         Len(n.keys) = MaxKeys + 1,
         NEW k, k = FirstRight(n.keys),
         NEW l, l = Leaf(SubSeq(n.keys, 1, LeftCount), SubSeq(n.vals, 1, LeftCount)),
         NEW r, r = Leaf(SubSeq(n.keys, LeftCount + 1, MaxKeys + 1),
                         SubSeq(n.vals, LeftCount + 1, MaxKeys + 1))
  PROVE  /\ l \in Node /\ l.leaf /\ r \in Node /\ r.leaf
         /\ Len(l.keys) = LeftCount /\ Len(r.keys) = MaxKeys + 1 - LeftCount
         /\ k \in Int /\ p.low < k /\ k < p.high
         /\ Fits(l, s, [p EXCEPT !.high = k]) /\ Fits(r, s, [p EXCEPT !.low = k])
         /\ \A i \in 1..LeftCount : l.keys[i] = n.keys[i] /\ l.vals[i] = n.vals[i]
         /\ \A i \in 1..MaxKeys + 1 - LeftCount :
              r.keys[i] = n.keys[LeftCount + i] /\ r.vals[i] = n.vals[LeftCount + i]
<1> DEFINE M == MaxKeys  C == LeftCount  D == MaxKeys + 1 - LeftCount  q == n.keys  w == n.vals
<1>0. C \in Nat /\ M \in Nat /\ D \in Nat /\ 1 <= C /\ C < M /\ D = M + 1 - C
  BY Halves, MaxKeysAssumption DEF MaxKeysAssumption
<1>1. /\ q \in Seq(Number) /\ w \in Seq(Address) /\ Len(w) = M + 1 /\ Len(q) = M + 1
      /\ Ascends(q) /\ Within(q, p.low, p.high)
      /\ p.height = 0 /\ p.low \in Int /\ p.high \in Int
  BY DEF Node, Fits, SpanOf
<1>x. /\ l = [leaf |-> TRUE, keys |-> SubSeq(q, 1, C), vals |-> SubSeq(w, 1, C), kids |-> <<>>]
      /\ r = [leaf |-> TRUE, keys |-> SubSeq(q, C + 1, M + 1), vals |-> SubSeq(w, C + 1, M + 1),
              kids |-> <<>>]
      /\ k = q[C + 1]
  BY DEF Leaf, FirstRight
<1>p. [p EXCEPT !.high = k] = [low |-> p.low, high |-> k, height |-> p.height]
      /\ [p EXCEPT !.low = k] = [low |-> k, high |-> p.high, height |-> p.height]
  BY DEF SpanOf
<1> HIDE DEF M, C, D, q, w
<1>a. /\ 1 \in 1..(M + 1) + 1 /\ C \in 0..M + 1 /\ 1 <= C + 1
      /\ C + 1 \in 1..(M + 1) + 1 /\ M + 1 \in 0..M + 1 /\ C + 1 <= (M + 1) + 1
      /\ C - 1 + 1 = C /\ (M + 1) - (C + 1) + 1 = D
      /\ \A i \in 1..C : 1 + i - 1 = i
      /\ \A i \in 1..D : (C + 1) + i - 1 = C + i
  BY ONLY <1>0
<1>2. /\ SubSeq(q, 1, C) \in Seq(Number) /\ Len(SubSeq(q, 1, C)) = C
      /\ \A i \in 1..C : SubSeq(q, 1, C)[i] = q[i]
  BY ONLY <1>1, <1>a, Part
<1>3. /\ SubSeq(w, 1, C) \in Seq(Address) /\ Len(SubSeq(w, 1, C)) = C
      /\ \A i \in 1..C : SubSeq(w, 1, C)[i] = w[i]
  BY ONLY <1>1, <1>a, Part
<1>4. /\ SubSeq(q, C + 1, M + 1) \in Seq(Number) /\ Len(SubSeq(q, C + 1, M + 1)) = D
      /\ \A i \in 1..D : SubSeq(q, C + 1, M + 1)[i] = q[C + i]
  BY ONLY <1>1, <1>a, Part
<1>5. /\ SubSeq(w, C + 1, M + 1) \in Seq(Address) /\ Len(SubSeq(w, C + 1, M + 1)) = D
      /\ \A i \in 1..D : SubSeq(w, C + 1, M + 1)[i] = w[C + i]
  BY ONLY <1>1, <1>a, Part
<1>6. l \in Node /\ l.leaf /\ r \in Node /\ r.leaf
  BY ONLY <1>x, <1>2, <1>3, <1>4, <1>5, EmptySeq DEF Node
<1>7. /\ \A i \in 1..M + 1 : q[i] \in Int
      /\ \A i, j \in 1..M + 1 : i < j => q[i] < q[j]
      /\ \A i \in 1..M + 1 : p.low <= q[i] /\ q[i] < p.high
  BY ONLY <1>1 DEF Number, Ascends, Within
<1>8. k \in Int /\ p.low < k /\ k < p.high
  <2>1. 1 \in 1..M + 1 /\ C + 1 \in 1..M + 1 /\ 1 < C + 1
    BY ONLY <1>0
  <2>2. p.low <= q[1] /\ q[1] < q[C + 1] /\ q[C + 1] < p.high /\ q[1] \in Int /\ q[C + 1] \in Int
    BY ONLY <1>7, <2>1
  <2> QED
    BY ONLY <1>1, <1>x, <2>2
<1>9. Ascends(SubSeq(q, 1, C)) /\ Within(SubSeq(q, 1, C), p.low, k)
  <2>1. \A i \in 1..C : p.low <= q[i] /\ q[i] < k
    <3> SUFFICES ASSUME NEW i \in 1..C PROVE p.low <= q[i] /\ q[i] < k
      OBVIOUS
    <3>1. i \in 1..M + 1 /\ C + 1 \in 1..M + 1 /\ i < C + 1
      BY ONLY <1>0, i \in 1..C
    <3> QED
      BY ONLY <1>7, <1>x, <3>1
  <2> QED
    BY ONLY <1>1, <1>a, <2>1, AscendsPart, WithinPart
<1>10. Ascends(SubSeq(q, C + 1, M + 1)) /\ Within(SubSeq(q, C + 1, M + 1), k, p.high)
  <2>1. \A i \in C + 1..M + 1 : k <= q[i] /\ q[i] < p.high
    <3> SUFFICES ASSUME NEW i \in C + 1..M + 1 PROVE k <= q[i] /\ q[i] < p.high
      OBVIOUS
    <3>1. i \in 1..M + 1 /\ C + 1 \in 1..M + 1 /\ (i = C + 1 \/ C + 1 < i)
      BY ONLY <1>0, i \in C + 1..M + 1
    <3>2. q[i] \in Int /\ q[C + 1] \in Int /\ (i = C + 1 \/ q[C + 1] < q[i]) /\ q[i] < p.high
      BY ONLY <1>7, <3>1
    <3> QED
      BY ONLY <1>x, <3>2
  <2> QED
    BY ONLY <1>1, <1>a, <2>1, AscendsPart, WithinPart
<1>11. Fits(l, s, [p EXCEPT !.high = k])
  BY ONLY <1>1, <1>x, <1>p, <1>2, <1>3, <1>8, <1>9 DEF Fits
<1>12. Fits(r, s, [p EXCEPT !.low = k])
  BY ONLY <1>1, <1>x, <1>p, <1>4, <1>5, <1>8, <1>10 DEF Fits
<1>13. /\ Len(l.keys) = C /\ Len(r.keys) = D
       /\ \A i \in 1..C : l.keys[i] = q[i] /\ l.vals[i] = w[i]
       /\ \A i \in 1..D : r.keys[i] = q[C + i] /\ r.vals[i] = w[C + i]
  BY ONLY <1>x, <1>2, <1>3, <1>4, <1>5
<1> QED
  BY ONLY <1>6, <1>8, <1>11, <1>12, <1>13 DEF q, w, C, D

-----------------------------------------------------------------------------
(* Inner nodes.                                                            *)

\* The ranges of the children: none is empty, they ascend and stay in the node's.
LEMMA Segments ==
  ASSUME NEW n \in Node, ~n.leaf, NEW s, NEW p \in SpanOf, Fits(n, s, p)
  PROVE  /\ Len(n.keys) \in Nat /\ Len(n.keys) > 0 /\ Len(n.kids) = Len(n.keys) + 1
         /\ \A i \in 1..Len(n.kids) :
              /\ SegLow(n, p, i) \in Int /\ SegHigh(n, p, i) \in Int
              /\ p.low <= SegLow(n, p, i) /\ SegHigh(n, p, i) <= p.high
              /\ SegLow(n, p, i) < SegHigh(n, p, i)
         /\ \A i, j \in 1..Len(n.kids) : i < j => SegHigh(n, p, i) <= SegLow(n, p, j)
<1> DEFINE q == n.keys  N == Len(n.keys)  L(i) == SegLow(n, p, i)  H(i) == SegHigh(n, p, i)
<1>1. /\ q \in Seq(Number) /\ N \in Nat /\ N > 0 /\ Len(n.kids) = N + 1
      /\ p.low \in Int /\ p.high \in Int /\ p.low < p.high /\ p.low < q[1]
  BY DEF Node, Fits, SpanOf
<1>2. /\ \A i \in 1..N : q[i] \in Int /\ p.low <= q[i] /\ q[i] < p.high
      /\ \A i, j \in 1..N : i < j => q[i] < q[j]
  BY <1>1 DEF Fits, Ascends, Within, Number
<1>3. \A i \in 1..N + 1 : /\ L(i) = IF i = 1 THEN p.low ELSE q[i - 1]
                          /\ H(i) = IF i = N + 1 THEN p.high ELSE q[i]
  BY DEF SegLow, SegHigh
<1> HIDE DEF q, N, L, H
<1>4. ASSUME NEW i \in 1..N + 1
      PROVE  /\ L(i) \in Int /\ H(i) \in Int
             /\ p.low <= L(i) /\ H(i) <= p.high /\ L(i) < H(i)
  <2>0. i \in Int /\ 1 <= i /\ i <= N + 1 /\ N \in Nat
    BY <1>1
  <2>1. L(i) \in Int /\ p.low <= L(i) /\ L(i) < p.high
    <3>1. CASE i = 1
      BY ONLY <1>1, <1>3, <3>1, i \in 1..N + 1
    <3>2. CASE i # 1
      <4>1. i - 1 \in 1..N
        BY ONLY <2>0, <3>2
      <4> QED
        BY ONLY <1>2, <1>3, <3>2, <4>1, i \in 1..N + 1
    <3> QED
      BY <3>1, <3>2
  <2>2. H(i) \in Int /\ H(i) <= p.high
    <3>1. CASE i = N + 1
      BY ONLY <1>1, <1>3, <3>1, i \in 1..N + 1
    <3>2. CASE i # N + 1
      <4>1. i \in 1..N
        BY ONLY <2>0, <3>2
      <4>2. H(i) = q[i] /\ q[i] \in Int /\ q[i] < p.high
        BY ONLY <1>2, <1>3, <3>2, <4>1, i \in 1..N + 1
      <4> QED
        BY ONLY <1>1, <4>2
    <3> QED
      BY <3>1, <3>2
  <2>3. L(i) < H(i)
    <3>1. CASE i = N + 1
      BY ONLY <1>3, <2>1, <3>1, i \in 1..N + 1
    <3>2. CASE i # N + 1 /\ i = 1
      BY ONLY <1>1, <1>3, <3>2, i \in 1..N + 1
    <3>3. CASE i # N + 1 /\ i # 1
      <4>1. i \in 1..N /\ i - 1 \in 1..N /\ i - 1 < i
        BY ONLY <2>0, <3>3
      <4>2. q[i - 1] < q[i]
        BY ONLY <1>2, <4>1
      <4> QED
        BY ONLY <1>3, <3>3, <4>2, i \in 1..N + 1
    <3> QED
      BY <3>1, <3>2, <3>3
  <2> QED
    BY <2>1, <2>2, <2>3
<1>5. ASSUME NEW i \in 1..N + 1, NEW j \in 1..N + 1, i < j
      PROVE  H(i) <= L(j)
  <2>0. i \in 1..N /\ j - 1 \in 1..N /\ i # N + 1 /\ j # 1 /\ (i = j - 1 \/ i < j - 1)
    BY ONLY <1>1, <1>5
  <2>1. H(i) = q[i] /\ L(j) = q[j - 1]
    BY ONLY <1>3, <2>0, <1>5
  <2>2. q[i] \in Int /\ (i = j - 1 \/ q[i] < q[j - 1]) /\ q[j - 1] \in Int
    BY ONLY <1>2, <2>0
  <2> QED
    BY ONLY <2>1, <2>2
<1> QED
  BY ONLY <1>1, <1>4, <1>5 DEF N, L, H

\* The descent of a search and of an insertion stays in the key's range.
LEMMA Tiles ==
  ASSUME NEW n \in Node, ~n.leaf, NEW s, NEW p \in SpanOf, Fits(n, s, p),
         NEW x \in Number, p.low <= x, x < p.high,
         NEW idx, idx = ChildIndexForKey(n.keys, x)
  PROVE  /\ idx \in 0..Len(n.keys) /\ idx + 1 \in 1..Len(n.kids)
         /\ SegLow(n, p, idx + 1) <= x /\ x < SegHigh(n, p, idx + 1)
<1> DEFINE q == n.keys  N == Len(n.keys)
<1>1. q \in Seq(Number) /\ N \in Nat /\ Len(n.kids) = N + 1
  BY DEF Node, Fits
<1>2. idx \in 0..N /\ (\A i \in 1..idx : x >= q[i]) /\ (idx < N => x < q[idx + 1])
  BY <1>1, ChildIndex
<1>3. /\ SegLow(n, p, idx + 1) = IF idx + 1 = 1 THEN p.low ELSE q[(idx + 1) - 1]
      /\ SegHigh(n, p, idx + 1) = IF idx + 1 = N + 1 THEN p.high ELSE q[idx + 1]
  BY DEF SegLow, SegHigh
<1>i. x \in Int /\ \A i \in 1..N : q[i] \in Int
  BY <1>1 DEF Number
<1> HIDE DEF q, N
<1>4. SegLow(n, p, idx + 1) <= x
  <2>1. CASE idx = 0
    BY ONLY <1>3, <2>1, p.low <= x
  <2>2. CASE idx # 0
    <3>1. idx \in 1..idx /\ idx + 1 # 1 /\ (idx + 1) - 1 = idx /\ idx \in 1..N
      BY ONLY <1>1, <1>2, <2>2
    <3>2. x >= q[idx] /\ SegLow(n, p, idx + 1) = q[idx] /\ q[idx] \in Int /\ x \in Int
      BY ONLY <1>2, <1>3, <1>i, <3>1
    <3> QED
      BY ONLY <3>2
  <2> QED
    BY <2>1, <2>2
<1>5. x < SegHigh(n, p, idx + 1)
  BY ONLY <1>1, <1>2, <1>3, x < p.high
<1>6. idx + 1 \in 1..N + 1
  BY ONLY <1>1, <1>2
<1> QED
  BY ONLY <1>1, <1>2, <1>4, <1>5, <1>6 DEF N

\* A child has one place in one node.
LEMMA OneParent ==
  ASSUME NEW m \in Node, ~m.leaf, NEW n \in Node, ~n.leaf, NEW s,
         NEW p \in SpanOf, NEW r \in SpanOf, Fits(m, s, p), Fits(n, s, r),
         NEW i \in 1..Len(m.kids), NEW j \in 1..Len(n.kids), m.kids[i] = n.kids[j]
  PROVE  /\ p.height = r.height /\ p.low < r.high /\ r.low < p.high
         /\ m = n /\ p = r => i = j
<1>1. /\ s[m.kids[i]] = [low |-> SegLow(m, p, i), high |-> SegHigh(m, p, i), height |-> p.height - 1]
      /\ s[n.kids[j]] = [low |-> SegLow(n, r, j), high |-> SegHigh(n, r, j), height |-> r.height - 1]
  BY DEF Fits
<1>2. /\ SegLow(m, p, i) = SegLow(n, r, j) /\ SegHigh(m, p, i) = SegHigh(n, r, j)
      /\ p.height - 1 = r.height - 1
  BY ONLY <1>1, m.kids[i] = n.kids[j]
<1>3. /\ SegLow(m, p, i) \in Int /\ SegHigh(m, p, i) \in Int
      /\ p.low <= SegLow(m, p, i) /\ SegHigh(m, p, i) <= p.high
      /\ SegLow(m, p, i) < SegHigh(m, p, i)
  BY Segments
<1>4. r.low <= SegLow(n, r, j) /\ SegHigh(n, r, j) <= r.high
  BY Segments
<1>5. p.low \in Int /\ p.high \in Int /\ r.low \in Int /\ r.high \in Int
      /\ p.height \in Nat /\ r.height \in Nat
  BY DEF SpanOf
<1>6. ASSUME m = n, p = r PROVE i = j
  <2>1. \A x, y \in 1..Len(m.kids) : x < y => SegHigh(m, p, x) <= SegLow(m, p, y)
    BY Segments
  <2>2. i \in Int /\ j \in Int /\ i \in 1..Len(m.kids) /\ j \in 1..Len(m.kids)
    BY <1>6
  <2>3. ~(i < j) /\ ~(j < i)
    BY ONLY <1>2, <1>3, <1>6, <2>1, <2>2
  <2> QED
    BY ONLY <2>2, <2>3
<1>7. p.low < r.high /\ r.low < p.high
  BY ONLY <1>2, <1>3, <1>4, <1>5
<1>8. p.height = r.height
  BY ONLY <1>2, <1>5
<1> QED
  BY ONLY <1>6, <1>7, <1>8

\* Fits depends on the ranges of the node's own children only.
LEMMA FitsAgree ==
  ASSUME NEW n, NEW s, NEW t, NEW p, Fits(n, s, p),
         ~n.leaf => \A i \in 1..Len(n.kids) : n.kids[i] \in DOMAIN t /\ t[n.kids[i]] = s[n.kids[i]]
  PROVE  Fits(n, t, p)
  BY DEF Fits

\* t are the ranges s after the child c of node n, its child number idx, was divided
\* at k and got r as its right half; p is n's range and m is n with r.
Adopts(n, s, p, idx, k, r, c, t, m) ==
  /\ n \in Node /\ ~n.leaf /\ p \in SpanOf /\ Fits(n, s, p)
  /\ idx \in 0..Len(n.keys) /\ k \in Number /\ r \in Address
  /\ c = n.kids[idx + 1] /\ s[c].low < k /\ k < s[c].high
  /\ DOMAIN t = DOMAIN s /\ r \in DOMAIN t
  /\ \A b \in DOMAIN s : b # c /\ b # r => t[b] = s[b]
  /\ \A i \in 1..Len(n.kids) : n.kids[i] # r
  /\ t[c] \in SpanOf /\ t[c].low = s[c].low /\ t[c].high = k /\ t[c].height = s[c].height
  /\ t[r] \in SpanOf /\ t[r].low = k /\ t[r].high = s[c].high /\ t[r].height = s[c].height
  /\ m = Inner(InsertAt(n.keys, idx + 1, k), InsertAt(n.kids, idx + 2, r))

\* An inner node takes the right half of a child after the child itself.
LEMMA InnerAdd ==
  ASSUME NEW n, NEW s, NEW p, NEW idx, NEW k, NEW r, NEW c, NEW t, NEW m,
         Adopts(n, s, p, idx, k, r, c, t, m)
  PROVE  /\ m \in Node /\ ~m.leaf /\ Len(m.keys) = Len(n.keys) + 1
         /\ Fits(m, t, p)
         /\ \A i \in 1..Len(m.kids) :
              m.kids[i] = r \/ \E j \in 1..Len(n.kids) : m.kids[i] = n.kids[j]
         /\ \A j \in 1..Len(n.kids) : \E i \in 1..Len(m.kids) : m.kids[i] = n.kids[j]
         /\ \E i \in 1..Len(m.kids) : m.kids[i] = r
<1> DEFINE q == n.keys  w == n.kids  N == Len(n.keys)  h == p.height - 1
           A == InsertAt(q, idx + 1, k)  B == InsertAt(w, (idx + 1) + 1, r)
           L(i) == SegLow(n, p, i)  H(i) == SegHigh(n, p, i)
           X(i) == SegLow(m, p, i)  Y(i) == SegHigh(m, p, i)
<1>a. /\ n \in Node /\ ~n.leaf /\ p \in SpanOf /\ Fits(n, s, p)
      /\ idx \in 0..Len(n.keys) /\ k \in Number /\ r \in Address
      /\ m = Inner(InsertAt(n.keys, idx + 1, k), InsertAt(n.kids, idx + 2, r))
  BY DEF Adopts
<1>b. /\ c = n.kids[idx + 1] /\ s[c].low < k /\ k < s[c].high
      /\ DOMAIN t = DOMAIN s /\ r \in DOMAIN t
      /\ \A b \in DOMAIN s : b # c /\ b # r => t[b] = s[b]
      /\ \A i \in 1..Len(n.kids) : n.kids[i] # r
      /\ t[c] \in SpanOf /\ t[c].low = s[c].low /\ t[c].high = k /\ t[c].height = s[c].height
      /\ t[r] \in SpanOf /\ t[r].low = k /\ t[r].high = s[c].high /\ t[r].height = s[c].height
  BY DEF Adopts
<1>1. /\ q \in Seq(Number) /\ w \in Seq(Address) /\ N \in Nat /\ Len(w) = N + 1 /\ N > 0
      /\ Ascends(q) /\ Within(q, p.low, p.high) /\ Len(q) = N
      /\ p.low < p.high /\ p.height # 0 /\ p.low < q[1]
      /\ p.low \in Int /\ p.high \in Int
      /\ idx \in 0..N /\ n.leaf = FALSE
  BY <1>a DEF Node, Fits, SpanOf
<1>m. m = [leaf |-> FALSE, keys |-> A, vals |-> <<>>, kids |-> B]
  <2>1. idx + 2 = (idx + 1) + 1
    BY <1>1
  <2> QED
    BY <1>a, <2>1 DEF Inner
<1>n. /\ \A i \in 1..N : q[i] \in Int /\ p.low <= q[i] /\ q[i] < p.high
      /\ \A i, j \in 1..N : i < j => q[i] < q[j]
  <2>1. \A i \in 1..N : q[i] \in Number
    BY ONLY <1>1, ElementOfSeq
  <2>2. \A i \in 1..N : p.low <= q[i] /\ q[i] < p.high
    BY ONLY <1>1 DEF Within
  <2>3. \A i, j \in 1..N : i < j => q[i] < q[j]
    BY ONLY <1>1 DEF Ascends
  <2> QED
    BY ONLY <2>1, <2>2, <2>3 DEF Number
<1>k. k \in Int
  BY <1>a DEF Number
<1>l. \A i \in 1..N + 1 : /\ L(i) = IF i = 1 THEN p.low ELSE q[i - 1]
                          /\ H(i) = IF i = N + 1 THEN p.high ELSE q[i]
  BY DEF SegLow, SegHigh
<1>s. \A i \in 1..N + 1 : w[i] \in DOMAIN s /\ s[w[i]] = [low |-> L(i), high |-> H(i), height |-> h]
  BY <1>a, <1>1 DEF Fits
<1>c. /\ c = w[idx + 1] /\ L(idx + 1) < k /\ k < H(idx + 1)
      /\ t[c] = [low |-> L(idx + 1), high |-> k, height |-> h]
      /\ t[r] = [low |-> k, high |-> H(idx + 1), height |-> h]
      /\ c \in DOMAIN s
  <2>1. idx + 1 \in 1..N + 1
    BY <1>1
  <2>2. c \in DOMAIN s /\ s[c] = [low |-> L(idx + 1), high |-> H(idx + 1), height |-> h]
    BY <1>b, <1>s, <2>1
  <2>3. /\ t[c] = [low |-> t[c].low, high |-> t[c].high, height |-> t[c].height]
        /\ t[r] = [low |-> t[r].low, high |-> t[r].high, height |-> t[r].height]
    BY <1>b, SpanFields
  <2> HIDE DEF L, H, h
  <2>4. s[c].low = L(idx + 1) /\ s[c].high = H(idx + 1) /\ s[c].height = h
    BY <2>2
  <2> QED
    BY <1>b, <2>2, <2>3, <2>4
<1>d. \A i \in 1..N + 1 : i # idx + 1 => t[w[i]] = [low |-> L(i), high |-> H(i), height |-> h]
  <2> SUFFICES ASSUME NEW i \in 1..N + 1, i # idx + 1
               PROVE  t[w[i]] = [low |-> L(i), high |-> H(i), height |-> h]
    OBVIOUS
  <2>0. i \in 1..Len(n.kids) /\ idx + 1 \in 1..Len(n.kids)
    BY <1>1
  <2>1. n.kids[i] # n.kids[idx + 1]
    BY <1>a, <2>0, OneParent
  <2>2. w[i] # c /\ w[i] # r /\ w[i] \in DOMAIN s
    BY <1>b, <1>s, <2>0, <2>1
  <2>3. t[w[i]] = s[w[i]]
    BY <1>b, <2>2
  <2> QED
    BY <2>3, <1>s
<1>e. DOMAIN t = DOMAIN s /\ r \in DOMAIN t
  BY <1>b
<1>r. r \in Address /\ k \in Number
  BY <1>a
<1>x. \A i \in 1..N + 2 : /\ X(i) = IF i = 1 THEN p.low ELSE m.keys[i - 1]
                          /\ Y(i) = IF i = Len(m.keys) + 1 THEN p.high ELSE m.keys[i]
  BY DEF SegLow, SegHigh
<1> HIDE DEF q, w, N, h, A, B, L, H, X, Y
<1>2. /\ A \in Seq(Number) /\ Len(A) = N + 1
      /\ \A i \in 1..N + 1 : A[i] = IF i < idx + 1 THEN q[i] ELSE IF i = idx + 1 THEN k ELSE q[i - 1]
  <2>1. q \in Seq(Number) /\ idx \in 0..Len(q)
    BY ONLY <1>1
  <2>2. /\ InsertAt(q, idx + 1, k) \in Seq(Number) /\ Len(InsertAt(q, idx + 1, k)) = Len(q) + 1
        /\ \A i \in 1..Len(q) + 1 : InsertAt(q, idx + 1, k)[i] =
             IF i < idx + 1 THEN q[i] ELSE IF i = idx + 1 THEN k ELSE q[i - 1]
    BY ONLY <2>1, <1>r, InsertAfter
  <2>3. Len(q) = N
    BY ONLY <1>1
  <2> QED
    BY ONLY <2>2, <2>3 DEF A
<1>3. /\ B \in Seq(Address) /\ Len(B) = N + 2
      /\ \A i \in 1..N + 2 : B[i] = IF i < idx + 2 THEN w[i] ELSE IF i = idx + 2 THEN r ELSE w[i - 1]
  <2> DEFINE pos == idx + 1
  <2>1. w \in Seq(Address) /\ pos \in 0..Len(w)
    BY ONLY <1>1
  <2>3. Len(w) + 1 = N + 2 /\ pos + 1 = idx + 2
    BY ONLY <1>1
  <2>4. B = InsertAt(w, pos + 1, r)
    BY DEF B
  <2> HIDE DEF pos
  <2>2. /\ InsertAt(w, pos + 1, r) \in Seq(Address) /\ Len(InsertAt(w, pos + 1, r)) = Len(w) + 1
        /\ \A i \in 1..Len(w) + 1 : InsertAt(w, pos + 1, r)[i] =
             IF i < pos + 1 THEN w[i] ELSE IF i = pos + 1 THEN r ELSE w[i - 1]
    BY ONLY <2>1, <1>r, InsertAfter
  <2> QED
    BY ONLY <2>2, <2>3, <2>4
<1>4. m \in Node /\ m.leaf = FALSE /\ m.keys = A /\ m.kids = B
  BY ONLY <1>m, <1>2, <1>3, EmptySeq DEF Node
<1>5. (\A i \in 1..idx : q[i] < k) /\ (\A i \in idx + 1..N : k < q[i])
  <2>1. ASSUME NEW i \in 1..idx PROVE q[i] < k
    <3>1. idx \in 1..N /\ i \in 1..N /\ (i = idx \/ i < idx) /\ idx + 1 # 1 /\ idx + 1 \in 1..N + 1
          /\ (idx + 1) - 1 = idx
      BY ONLY <1>1, <2>1
    <3>2. q[idx] < k /\ (i = idx \/ q[i] < q[idx]) /\ q[i] \in Int /\ q[idx] \in Int
      BY ONLY <1>n, <1>l, <1>c, <3>1
    <3> QED
      BY ONLY <1>k, <3>2
  <2>2. ASSUME NEW i \in idx + 1..N PROVE k < q[i]
    <3>1. idx + 1 \in 1..N /\ i \in 1..N /\ (i = idx + 1 \/ idx + 1 < i) /\ idx + 1 # N + 1
          /\ idx + 1 \in 1..N + 1
      BY ONLY <1>1, <2>2
    <3>2. k < q[idx + 1] /\ (i = idx + 1 \/ q[idx + 1] < q[i]) /\ q[i] \in Int /\ q[idx + 1] \in Int
      BY ONLY <1>n, <1>l, <1>c, <3>1
    <3> QED
      BY ONLY <1>k, <3>2
  <2> QED
    BY ONLY <2>1, <2>2
<1>6. p.low < k /\ k < p.high
  <2>1. idx + 1 \in 1..Len(n.kids)
    BY <1>1 DEF w
  <2>2. L(idx + 1) \in Int /\ H(idx + 1) \in Int /\ p.low <= L(idx + 1) /\ H(idx + 1) <= p.high
    BY <1>a, <2>1, Segments DEF L, H
  <2> QED
    BY ONLY <1>1, <1>c, <1>k, <2>2
<1>7. Ascends(A) /\ Within(A, p.low, p.high)
  <2>1. Ascends(InsertAt(q, idx + 1, k))
    BY ONLY <1>1, <1>5, <1>r, AscendsInsert
  <2>2. p.low <= k
    BY ONLY <1>1, <1>k, <1>6
  <2>3. Within(InsertAt(q, idx + 1, k), p.low, p.high)
    BY ONLY <1>1, <1>6, <2>2, <1>r, WithinInsert
  <2> QED
    BY <2>1, <2>3 DEF A
<1>8. p.low < A[1]
  BY ONLY <1>1, <1>2, <1>6
<1>9. \A i \in 1..N + 2 :
        /\ X(i) = IF i <= idx + 1 THEN L(i) ELSE IF i = idx + 2 THEN k ELSE L(i - 1)
        /\ Y(i) = IF i <= idx THEN H(i) ELSE IF i = idx + 1 THEN k ELSE H(i - 1)
  <2> SUFFICES ASSUME NEW i \in 1..N + 2
               PROVE  /\ X(i) = IF i <= idx + 1 THEN L(i) ELSE IF i = idx + 2 THEN k ELSE L(i - 1)
                      /\ Y(i) = IF i <= idx THEN H(i) ELSE IF i = idx + 1 THEN k ELSE H(i - 1)
    OBVIOUS
  <2>0. N \in Nat /\ idx \in Nat /\ idx <= N /\ i \in Nat /\ 1 <= i /\ i <= N + 2
    BY ONLY <1>1, i \in 1..N + 2
  <2>1. X(i) = (IF i = 1 THEN p.low ELSE A[i - 1]) /\ Y(i) = IF i = N + 2 THEN p.high ELSE A[i]
    BY ONLY <1>x, <1>2, <1>4, <2>0, i \in 1..N + 2
  <2>2. i # 1 => A[i - 1] = IF i - 1 < idx + 1 THEN q[i - 1] ELSE IF i - 1 = idx + 1 THEN k ELSE q[i - 2]
    <3> SUFFICES ASSUME i # 1
                 PROVE  A[i - 1] = IF i - 1 < idx + 1 THEN q[i - 1] ELSE IF i - 1 = idx + 1 THEN k ELSE q[i - 2]
      OBVIOUS
    <3>1. i - 1 \in 1..N + 1 /\ (i - 1) - 1 = i - 2
      BY ONLY <2>0, i # 1
    <3> QED
      BY ONLY <1>2, <3>1
  <2>3. i # N + 2 => A[i] = IF i < idx + 1 THEN q[i] ELSE IF i = idx + 1 THEN k ELSE q[i - 1]
    <3> SUFFICES ASSUME i # N + 2
                 PROVE  A[i] = IF i < idx + 1 THEN q[i] ELSE IF i = idx + 1 THEN k ELSE q[i - 1]
      OBVIOUS
    <3>1. i \in 1..N + 1
      BY ONLY <2>0, i # N + 2
    <3> QED
      BY ONLY <1>2, <3>1
  <2>4. i <= N + 1 => /\ L(i) = IF i = 1 THEN p.low ELSE q[i - 1]
                      /\ H(i) = IF i = N + 1 THEN p.high ELSE q[i]
    <3>1. i <= N + 1 => i \in 1..N + 1
      BY ONLY <2>0
    <3> QED
      BY ONLY <1>l, <3>1
  <2>5. i # 1 => /\ L(i - 1) = IF i - 1 = 1 THEN p.low ELSE q[i - 2]
                 /\ H(i - 1) = IF i - 1 = N + 1 THEN p.high ELSE q[i - 1]
    <3> SUFFICES ASSUME i # 1
                 PROVE  /\ L(i - 1) = IF i - 1 = 1 THEN p.low ELSE q[i - 2]
                        /\ H(i - 1) = IF i - 1 = N + 1 THEN p.high ELSE q[i - 1]
      OBVIOUS
    <3>1. i - 1 \in 1..N + 1 /\ (i - 1) - 1 = i - 2
      BY ONLY <2>0, i # 1
    <3> QED
      BY ONLY <1>l, <3>1
  <2>6. X(i) = IF i <= idx + 1 THEN L(i) ELSE IF i = idx + 2 THEN k ELSE L(i - 1)
    BY ONLY <2>0, <2>1, <2>2, <2>4, <2>5
  <2>7. Y(i) = IF i <= idx THEN H(i) ELSE IF i = idx + 1 THEN k ELSE H(i - 1)
    BY ONLY <2>0, <2>1, <2>3, <2>4, <2>5
  <2> QED
    BY <2>6, <2>7
<1>10. \A i \in 1..N + 2 :
         B[i] \in DOMAIN t /\ t[B[i]] = [low |-> X(i), high |-> Y(i), height |-> h]
  <2> SUFFICES ASSUME NEW i \in 1..N + 2
               PROVE  B[i] \in DOMAIN t /\ t[B[i]] = [low |-> X(i), high |-> Y(i), height |-> h]
    OBVIOUS
  <2>0. N \in Nat /\ idx \in Nat /\ idx <= N /\ i \in Nat /\ 1 <= i /\ i <= N + 2
    BY ONLY <1>1, i \in 1..N + 2
  <2>b. B[i] = IF i < idx + 2 THEN w[i] ELSE IF i = idx + 2 THEN r ELSE w[i - 1]
    BY ONLY <1>3, i \in 1..N + 2
  <2>x. /\ X(i) = IF i <= idx + 1 THEN L(i) ELSE IF i = idx + 2 THEN k ELSE L(i - 1)
        /\ Y(i) = IF i <= idx THEN H(i) ELSE IF i = idx + 1 THEN k ELSE H(i - 1)
    BY ONLY <1>9, i \in 1..N + 2
  <2>1. CASE i <= idx
    <3>1. i \in 1..N + 1 /\ i # idx + 1 /\ B[i] = w[i] /\ X(i) = L(i) /\ Y(i) = H(i)
      BY ONLY <2>0, <2>b, <2>x, <2>1
    <3> QED
      BY ONLY <1>d, <1>s, <1>e, <3>1
  <2>2. CASE i = idx + 1
    <3>1. B[i] = w[idx + 1] /\ X(i) = L(idx + 1) /\ Y(i) = k
      BY ONLY <2>0, <2>b, <2>x, <2>2
    <3> QED
      BY ONLY <1>c, <1>e, <3>1
  <2>3. CASE i = idx + 2
    <3>1. B[i] = r /\ X(i) = k /\ Y(i) = H(i - 1) /\ i - 1 = idx + 1
      BY ONLY <2>0, <2>b, <2>x, <2>3
    <3> QED
      BY ONLY <1>c, <1>e, <3>1
  <2>4. CASE i > idx + 2
    <3>1. i - 1 \in 1..N + 1 /\ i - 1 # idx + 1 /\ B[i] = w[i - 1] /\ X(i) = L(i - 1) /\ Y(i) = H(i - 1)
      BY ONLY <2>0, <2>b, <2>x, <2>4
    <3> QED
      BY ONLY <1>d, <1>s, <1>e, <3>1
  <2> QED
    BY ONLY <2>0, <2>1, <2>2, <2>3, <2>4
<1>11. Fits(m, t, p)
  <2>1. \A i \in 1..Len(B) :
          /\ B[i] \in DOMAIN t
          /\ t[B[i]] = [low |-> SegLow(m, p, i), high |-> SegHigh(m, p, i), height |-> p.height - 1]
    BY ONLY <1>3, <1>10 DEF X, Y, h
  <2>2. Len(A) > 0 /\ Len(B) = Len(A) + 1
    BY ONLY <1>1, <1>2, <1>3
  <2> QED
    BY ONLY <1>1, <1>4, <1>7, <1>8, <2>1, <2>2 DEF Fits
<1>12. \A i \in 1..N + 2 : B[i] = r \/ \E j \in 1..N + 1 : B[i] = w[j]
  <2> SUFFICES ASSUME NEW i \in 1..N + 2, B[i] # r PROVE \E j \in 1..N + 1 : B[i] = w[j]
    OBVIOUS
  <2>1. (i \in 1..N + 1 /\ B[i] = w[i]) \/ (i - 1 \in 1..N + 1 /\ B[i] = w[i - 1])
    BY ONLY <1>1, <1>3, i \in 1..N + 2, B[i] # r
  <2> QED
    BY <2>1
<1>13. \A j \in 1..N + 1 : \E i \in 1..N + 2 : B[i] = w[j]
  <2> SUFFICES ASSUME NEW j \in 1..N + 1 PROVE \E i \in 1..N + 2 : B[i] = w[j]
    OBVIOUS
  <2>1. CASE j < idx + 2
    <3>1. j \in 1..N + 2 /\ B[j] = w[j]
      BY ONLY <1>1, <1>3, <2>1, j \in 1..N + 1
    <3> QED
      BY <3>1
  <2>2. CASE j >= idx + 2
    <3>1. j + 1 \in 1..N + 2 /\ ~(j + 1 < idx + 2) /\ j + 1 # idx + 2 /\ (j + 1) - 1 = j
      BY ONLY <1>1, <2>2, j \in 1..N + 1
    <3>2. B[j + 1] = w[j]
      BY ONLY <1>3, <3>1
    <3> QED
      BY <3>1, <3>2
  <2> QED
    BY ONLY <1>1, <2>1, <2>2, j \in 1..N + 1
<1>14. \E i \in 1..N + 2 : B[i] = r
  <2>1. idx + 2 \in 1..N + 2 /\ B[idx + 2] = r
    BY ONLY <1>1, <1>3
  <2> QED
    BY ONLY <2>1
<1>15. Len(w) = N + 1 /\ Len(m.kids) = N + 2 /\ Len(m.keys) = N + 1
  BY ONLY <1>1, <1>2, <1>3, <1>4
<1>16. \A i \in 1..Len(m.kids) :
          m.kids[i] = r \/ \E j \in 1..Len(w) : m.kids[i] = w[j]
  BY ONLY <1>4, <1>12, <1>15
<1>17. \A j \in 1..Len(w) : \E i \in 1..Len(m.kids) : m.kids[i] = w[j]
  BY ONLY <1>4, <1>13, <1>15
<1>18. \E i \in 1..Len(m.kids) : m.kids[i] = r
  BY ONLY <1>4, <1>14, <1>15
<1>19. w = n.kids /\ N = Len(n.keys)
  BY ONLY TRUE DEF N, w
<1> QED
  BY ONLY <1>4, <1>11, <1>15, <1>16, <1>17, <1>18, <1>19

\* Both halves of a divided inner node fit their part of its range, and no child
\* is on both sides of the key between them.
LEMMA InnerHalves ==
  ASSUME NEW n \in Node, ~n.leaf, NEW s, NEW p \in SpanOf, Fits(n, s, p),
         Len(n.keys) = MaxKeys + 1,
         NEW k, k = FirstRight(n.keys),
         NEW l, l = Inner(SubSeq(n.keys, 1, LeftCount), SubSeq(n.kids, 1, LeftCount + 1)),
         NEW r, r = Inner(SubSeq(n.keys, LeftCount + 2, MaxKeys + 1),
                          SubSeq(n.kids, LeftCount + 2, MaxKeys + 2))
  PROVE  /\ l \in Node /\ ~l.leaf /\ r \in Node /\ ~r.leaf
         /\ Len(l.keys) = LeftCount /\ Len(r.keys) = MaxKeys - LeftCount
         /\ k \in Int /\ p.low < k /\ k < p.high
         /\ Fits(l, s, [p EXCEPT !.high = k]) /\ Fits(r, s, [p EXCEPT !.low = k])
         /\ Len(l.kids) = LeftCount + 1 /\ Len(r.kids) = MaxKeys - LeftCount + 1
         /\ \A i \in 1..LeftCount + 1 : l.kids[i] = n.kids[i]
         /\ \A i \in 1..MaxKeys - LeftCount + 1 : r.kids[i] = n.kids[LeftCount + 1 + i]
         /\ \A i \in 1..Len(n.kids) : SegHigh(n, p, i) <= k \/ k <= SegLow(n, p, i)
<1> DEFINE M == MaxKeys  C == LeftCount  E == MaxKeys - LeftCount  q == n.keys  w == n.kids
           h == p.height - 1  lp == [p EXCEPT !.high = k]  rp == [p EXCEPT !.low = k]
           L(i) == SegLow(n, p, i)  H(i) == SegHigh(n, p, i)
           A == SubSeq(q, 1, C)  B == SubSeq(w, 1, C + 1)
           F == SubSeq(q, C + 2, M + 1)  G == SubSeq(w, C + 2, M + 2)
<1>0. C \in Nat /\ M \in Nat /\ E \in Nat /\ 1 <= C /\ C < M /\ E = M - C /\ E > 0
  BY Halves, MaxKeysAssumption DEF MaxKeysAssumption
<1>1. /\ q \in Seq(Number) /\ w \in Seq(Address) /\ Len(w) = M + 2 /\ Len(q) = M + 1
      /\ Ascends(q) /\ Within(q, p.low, p.high)
      /\ p.height # 0 /\ p.low \in Int /\ p.high \in Int /\ p.low < q[1]
  <2>1. Len(w) = (M + 1) + 1
    BY DEF Fits
  <2> QED
    BY <2>1, <1>0 DEF Node, Fits, SpanOf
<1>x. /\ l = [leaf |-> FALSE, keys |-> A, vals |-> <<>>, kids |-> B]
      /\ r = [leaf |-> FALSE, keys |-> F, vals |-> <<>>, kids |-> G]
      /\ k = q[C + 1]
  BY DEF Inner, FirstRight
<1>p. /\ lp = [low |-> p.low, high |-> k, height |-> p.height]
      /\ rp = [low |-> k, high |-> p.high, height |-> p.height]
  BY DEF SpanOf
<1>n. /\ \A i \in 1..M + 1 : q[i] \in Int /\ p.low <= q[i] /\ q[i] < p.high
      /\ \A i, j \in 1..M + 1 : i < j => q[i] < q[j]
  BY <1>1 DEF Ascends, Within, Number
<1>l. \A i \in 1..M + 2 : /\ L(i) = IF i = 1 THEN p.low ELSE q[i - 1]
                          /\ H(i) = IF i = M + 2 THEN p.high ELSE q[i]
  <2>1. Len(n.keys) + 1 = M + 2
    BY <1>0
  <2> QED
    BY <2>1 DEF SegLow, SegHigh
<1>s. \A i \in 1..M + 2 : w[i] \in DOMAIN s /\ s[w[i]] = [low |-> L(i), high |-> H(i), height |-> h]
  BY <1>1 DEF Fits
<1>y. /\ \A i : SegLow(l, lp, i) = IF i = 1 THEN lp.low ELSE l.keys[i - 1]
      /\ \A i : SegHigh(l, lp, i) = IF i = Len(l.keys) + 1 THEN lp.high ELSE l.keys[i]
      /\ \A i : SegLow(r, rp, i) = IF i = 1 THEN rp.low ELSE r.keys[i - 1]
      /\ \A i : SegHigh(r, rp, i) = IF i = Len(r.keys) + 1 THEN rp.high ELSE r.keys[i]
  BY DEF SegLow, SegHigh
<1>f. p.height - 1 = h
  OBVIOUS
<1> HIDE DEF M, C, E, q, w, h, lp, rp, L, H, A, B, F, G
<1>a. /\ 1 \in 1..(M + 1) + 1 /\ C \in 0..M + 1 /\ 1 <= C + 1
      /\ C + 2 \in 1..(M + 1) + 1 /\ M + 1 \in 0..M + 1 /\ C + 2 <= (M + 1) + 1
      /\ C - 1 + 1 = C /\ (M + 1) - (C + 2) + 1 = E
      /\ \A i \in 1..C : 1 + i - 1 = i
      /\ \A i \in 1..E : (C + 2) + i - 1 = C + 1 + i
  BY ONLY <1>0
<1>b. /\ 1 \in 1..(M + 2) + 1 /\ C + 1 \in 0..M + 2 /\ 1 <= (C + 1) + 1
      /\ C + 2 \in 1..(M + 2) + 1 /\ M + 2 \in 0..M + 2 /\ C + 2 <= (M + 2) + 1
      /\ (C + 1) - 1 + 1 = C + 1 /\ (M + 2) - (C + 2) + 1 = E + 1
      /\ \A i \in 1..C + 1 : 1 + i - 1 = i
      /\ \A i \in 1..E + 1 : (C + 2) + i - 1 = C + 1 + i
  BY ONLY <1>0
<1>2. A \in Seq(Number) /\ Len(A) = C /\ \A i \in 1..C : A[i] = q[i]
  <2>1. /\ SubSeq(q, 1, C) \in Seq(Number) /\ Len(SubSeq(q, 1, C)) = C
        /\ \A i \in 1..C : SubSeq(q, 1, C)[i] = q[i]
    <3>1. PICK u, c : u = q /\ c = C
      OBVIOUS
    <3>2. u \in Seq(Number) /\ 1 \in 1..Len(u) + 1 /\ c \in 0..Len(u) /\ 1 <= c + 1
      BY ONLY <1>1, <1>a, <3>1
    <3>3. /\ SubSeq(u, 1, c) \in Seq(Number) /\ Len(SubSeq(u, 1, c)) = c - 1 + 1
          /\ \A i \in 1..c - 1 + 1 : SubSeq(u, 1, c)[i] = u[1 + i - 1]
      BY ONLY <3>2, Part
    <3> QED
      BY ONLY <1>a, <3>1, <3>3
  <2> QED
    BY <2>1 DEF A
<1>3. B \in Seq(Address) /\ Len(B) = C + 1 /\ \A i \in 1..C + 1 : B[i] = w[i]
  <2>1. /\ SubSeq(w, 1, C + 1) \in Seq(Address) /\ Len(SubSeq(w, 1, C + 1)) = C + 1
        /\ \A i \in 1..C + 1 : SubSeq(w, 1, C + 1)[i] = w[i]
    <3>1. PICK u, c : u = w /\ c = C + 1
      OBVIOUS
    <3>2. u \in Seq(Address) /\ 1 \in 1..Len(u) + 1 /\ c \in 0..Len(u) /\ 1 <= c + 1
      BY ONLY <1>1, <1>b, <3>1
    <3>3. /\ SubSeq(u, 1, c) \in Seq(Address) /\ Len(SubSeq(u, 1, c)) = c - 1 + 1
          /\ \A i \in 1..c - 1 + 1 : SubSeq(u, 1, c)[i] = u[1 + i - 1]
      BY ONLY <3>2, Part
    <3> QED
      BY ONLY <1>b, <3>1, <3>3
  <2> QED
    BY <2>1 DEF B
<1>4. F \in Seq(Number) /\ Len(F) = E /\ \A i \in 1..E : F[i] = q[C + 1 + i]
  <2>1. /\ SubSeq(q, C + 2, M + 1) \in Seq(Number) /\ Len(SubSeq(q, C + 2, M + 1)) = E
        /\ \A i \in 1..E : SubSeq(q, C + 2, M + 1)[i] = q[C + 1 + i]
    <3>1. PICK u, a, b : u = q /\ a = C + 2 /\ b = M + 1
      OBVIOUS
    <3>2. u \in Seq(Number) /\ a \in 1..Len(u) + 1 /\ b \in 0..Len(u) /\ a <= b + 1
      BY ONLY <1>1, <1>a, <3>1
    <3>3. /\ SubSeq(u, a, b) \in Seq(Number) /\ Len(SubSeq(u, a, b)) = b - a + 1
          /\ \A i \in 1..b - a + 1 : SubSeq(u, a, b)[i] = u[a + i - 1]
      BY ONLY <3>2, Part
    <3> QED
      BY ONLY <1>a, <3>1, <3>3
  <2> QED
    BY <2>1 DEF F
<1>5. G \in Seq(Address) /\ Len(G) = E + 1 /\ \A i \in 1..E + 1 : G[i] = w[C + 1 + i]
  <2>1. /\ SubSeq(w, C + 2, M + 2) \in Seq(Address) /\ Len(SubSeq(w, C + 2, M + 2)) = E + 1
        /\ \A i \in 1..E + 1 : SubSeq(w, C + 2, M + 2)[i] = w[C + 1 + i]
    <3>1. /\ w \in Seq(Address) /\ C + 2 \in 1..Len(w) + 1 /\ M + 2 \in 0..Len(w)
          /\ C + 2 <= (M + 2) + 1
      BY ONLY <1>1, <1>b
    <3>2. /\ SubSeq(w, C + 2, M + 2) \in Seq(Address)
          /\ Len(SubSeq(w, C + 2, M + 2)) = (M + 2) - (C + 2) + 1
          /\ \A i \in 1..(M + 2) - (C + 2) + 1 :
               SubSeq(w, C + 2, M + 2)[i] = w[(C + 2) + i - 1]
      BY ONLY <3>1, Part
    <3> QED
      BY ONLY <1>b, <3>2
  <2> QED
    BY <2>1 DEF G
<1>6. l \in Node /\ r \in Node /\ l.leaf = FALSE /\ r.leaf = FALSE
      /\ l.keys = A /\ l.kids = B /\ r.keys = F /\ r.kids = G
  BY ONLY <1>x, <1>2, <1>3, <1>4, <1>5, EmptySeq DEF Node
<1>7. k \in Int /\ p.low < k /\ k < p.high
  <2>1. 1 \in 1..M + 1 /\ C + 1 \in 1..M + 1 /\ 1 < C + 1
    BY ONLY <1>0
  <2>2. p.low < q[1] /\ q[1] < q[C + 1] /\ q[C + 1] < p.high /\ q[1] \in Int /\ q[C + 1] \in Int
    BY ONLY <1>1, <1>n, <2>1
  <2> QED
    BY ONLY <1>1, <1>x, <2>2
<1>8. Ascends(A) /\ Within(A, p.low, k)
  <2>1. \A i \in 1..C : p.low <= q[i] /\ q[i] < k
    <3> SUFFICES ASSUME NEW i \in 1..C PROVE p.low <= q[i] /\ q[i] < k
      OBVIOUS
    <3>1. i \in 1..M + 1 /\ C + 1 \in 1..M + 1 /\ i < C + 1
      BY ONLY <1>0, i \in 1..C
    <3> QED
      BY ONLY <1>n, <1>x, <3>1
  <2> QED
    BY ONLY <1>1, <1>a, <2>1, AscendsPart, WithinPart DEF A
<1>9. Ascends(F) /\ Within(F, k, p.high) /\ k < F[1]
  <2>0. \A i \in C + 2..M + 1 : k < q[i] /\ k <= q[i] /\ q[i] < p.high
    <3> SUFFICES ASSUME NEW i \in C + 2..M + 1 PROVE k < q[i] /\ k <= q[i] /\ q[i] < p.high
      OBVIOUS
    <3>1. i \in 1..M + 1 /\ C + 1 \in 1..M + 1 /\ C + 1 < i
      BY ONLY <1>0, i \in C + 2..M + 1
    <3>2. q[i] \in Int /\ q[C + 1] \in Int /\ q[C + 1] < q[i] /\ q[i] < p.high
      BY ONLY <1>n, <3>1
    <3> QED
      BY ONLY <1>x, <3>2
  <2>1. \A i \in C + 2..M + 1 : k <= q[i] /\ q[i] < p.high
    BY ONLY <2>0
  <2>2. C + 2 \in C + 2..M + 1 /\ 1 \in 1..E /\ C + 1 + 1 = C + 2
    BY ONLY <1>0
  <2>3. k < F[1]
    BY ONLY <1>4, <2>0, <2>2
  <2>4. Ascends(SubSeq(q, C + 2, M + 1)) /\ Within(SubSeq(q, C + 2, M + 1), k, p.high)
    BY ONLY <1>1, <1>a, <2>1, AscendsPart, WithinPart
  <2> QED
    BY <2>3, <2>4 DEF F
<1>10. \A i \in 1..C + 1 : SegLow(l, lp, i) = L(i) /\ SegHigh(l, lp, i) = H(i)
  <2> SUFFICES ASSUME NEW i \in 1..C + 1 PROVE SegLow(l, lp, i) = L(i) /\ SegHigh(l, lp, i) = H(i)
    OBVIOUS
  <2>0. i \in 1..M + 2 /\ i # M + 2 /\ (i # 1 => i - 1 \in 1..C) /\ (i # C + 1 => i \in 1..C)
    BY ONLY <1>0, i \in 1..C + 1
  <2>1. /\ SegLow(l, lp, i) = IF i = 1 THEN p.low ELSE A[i - 1]
        /\ SegHigh(l, lp, i) = IF i = C + 1 THEN k ELSE A[i]
    BY ONLY <1>2, <1>6, <1>y, <1>p
  <2>2. L(i) = (IF i = 1 THEN p.low ELSE q[i - 1]) /\ H(i) = q[i]
    BY ONLY <1>l, <2>0
  <2> QED
    BY ONLY <1>2, <1>x, <2>0, <2>1, <2>2
<1>11. \A i \in 1..E + 1 :
         SegLow(r, rp, i) = L(C + 1 + i) /\ SegHigh(r, rp, i) = H(C + 1 + i)
  <2> SUFFICES ASSUME NEW i \in 1..E + 1
               PROVE  SegLow(r, rp, i) = L(C + 1 + i) /\ SegHigh(r, rp, i) = H(C + 1 + i)
    OBVIOUS
  <2>0. /\ C + 1 + i \in 1..M + 2 /\ C + 1 + i # 1 /\ (C + 1 + i = M + 2 <=> i = E + 1)
        /\ (C + 1 + i) - 1 = C + i
        /\ i # 1 => i - 1 \in 1..E /\ C + 1 + (i - 1) = C + i
        /\ i # E + 1 => i \in 1..E
        /\ i = 1 => C + i = C + 1
    BY ONLY <1>0, i \in 1..E + 1
  <2>1. /\ SegLow(r, rp, i) = IF i = 1 THEN k ELSE F[i - 1]
        /\ SegHigh(r, rp, i) = IF i = E + 1 THEN p.high ELSE F[i]
    BY ONLY <1>4, <1>6, <1>y, <1>p
  <2>2. L(C + 1 + i) = q[C + i] /\ H(C + 1 + i) = IF i = E + 1 THEN p.high ELSE q[C + 1 + i]
    BY ONLY <1>l, <2>0
  <2>3. (i # 1 => F[i - 1] = q[C + i]) /\ (i # E + 1 => F[i] = q[C + 1 + i])
    BY ONLY <1>4, <2>0
  <2> QED
    BY ONLY <1>x, <2>0, <2>1, <2>2, <2>3
<1>12. Fits(l, s, lp)
  <2>a. \A i \in 1..C + 1 :
          /\ B[i] \in DOMAIN s
          /\ s[B[i]] = [low |-> SegLow(l, lp, i), high |-> SegHigh(l, lp, i), height |-> h]
    <3> SUFFICES ASSUME NEW i \in 1..C + 1
                 PROVE  /\ B[i] \in DOMAIN s
                        /\ s[B[i]] = [low |-> SegLow(l, lp, i), high |-> SegHigh(l, lp, i), height |-> h]
      OBVIOUS
    <3>1. i \in 1..M + 2
      BY ONLY <1>0, i \in 1..C + 1
    <3> QED
      BY ONLY <1>3, <1>s, <1>10, <3>1, i \in 1..C + 1
  <2>1. \A i \in 1..Len(B) :
          /\ B[i] \in DOMAIN s
          /\ s[B[i]] = [low |-> SegLow(l, lp, i), high |-> SegHigh(l, lp, i), height |-> h]
    <3>1. Len(B) = C + 1
      BY ONLY <1>3
    <3> QED
      BY ONLY <2>a, <3>1
  <2>2. Len(A) > 0 /\ Len(B) = Len(A) + 1 /\ p.low < A[1]
    <3>1. 1 \in 1..C
      BY ONLY <1>0
    <3>2. A[1] = q[1] /\ Len(A) = C /\ Len(B) = C + 1
      BY ONLY <1>2, <1>3, <3>1
    <3> QED
      BY ONLY <1>0, <1>1, <3>2
  <2>3. lp.low = p.low /\ lp.high = k /\ lp.height = p.height
    BY ONLY <1>p
  <2> QED
    BY ONLY <1>1, <1>f, <1>6, <1>7, <1>8, <2>1, <2>2, <2>3 DEF Fits
<1>13. Fits(r, s, rp)
  <2>a. \A i \in 1..E + 1 :
          /\ G[i] \in DOMAIN s
          /\ s[G[i]] = [low |-> SegLow(r, rp, i), high |-> SegHigh(r, rp, i), height |-> h]
    <3> SUFFICES ASSUME NEW i \in 1..E + 1
                 PROVE  /\ G[i] \in DOMAIN s
                        /\ s[G[i]] = [low |-> SegLow(r, rp, i), high |-> SegHigh(r, rp, i), height |-> h]
      OBVIOUS
    <3>1. C + 1 + i \in 1..M + 2
      BY ONLY <1>0, i \in 1..E + 1
    <3> QED
      BY ONLY <1>5, <1>s, <1>11, <3>1, i \in 1..E + 1
  <2>1. \A i \in 1..Len(G) :
          /\ G[i] \in DOMAIN s
          /\ s[G[i]] = [low |-> SegLow(r, rp, i), high |-> SegHigh(r, rp, i), height |-> h]
    <3>1. Len(G) = E + 1
      BY ONLY <1>5
    <3> QED
      BY ONLY <2>a, <3>1
  <2>2. Len(F) > 0 /\ Len(G) = Len(F) + 1
    BY ONLY <1>0, <1>4, <1>5
  <2>3. rp.low = k /\ rp.high = p.high /\ rp.height = p.height
    BY ONLY <1>p
  <2> QED
    BY ONLY <1>1, <1>f, <1>6, <1>7, <1>9, <2>1, <2>2, <2>3 DEF Fits
<1>14. \A i \in 1..M + 2 : H(i) <= k \/ k <= L(i)
  <2> SUFFICES ASSUME NEW i \in 1..M + 2 PROVE H(i) <= k \/ k <= L(i)
    OBVIOUS
  <2>1. CASE i <= C + 1
    <3>1. i # M + 2 /\ i \in 1..M + 1 /\ C + 1 \in 1..M + 1 /\ (i = C + 1 \/ i < C + 1)
      BY ONLY <1>0, <2>1, i \in 1..M + 2
    <3>2. H(i) = q[i] /\ q[i] \in Int /\ (i = C + 1 \/ q[i] < q[C + 1])
      BY ONLY <1>l, <1>n, <3>1, i \in 1..M + 2
    <3> QED
      BY ONLY <1>7, <1>x, <3>2
  <2>2. CASE i > C + 1
    <3>1. i # 1 /\ i - 1 \in 1..M + 1 /\ C + 1 \in 1..M + 1 /\ (i - 1 = C + 1 \/ C + 1 < i - 1)
      BY ONLY <1>0, <2>2, i \in 1..M + 2
    <3>2. L(i) = q[i - 1] /\ q[i - 1] \in Int /\ (i - 1 = C + 1 \/ q[C + 1] < q[i - 1])
      BY ONLY <1>l, <1>n, <3>1, i \in 1..M + 2
    <3> QED
      BY ONLY <1>7, <1>x, <3>2
  <2> QED
    BY ONLY <1>0, <2>1, <2>2, i \in 1..M + 2
<1>15. Len(w) = M + 2 /\ Len(A) = C /\ Len(F) = E /\ Len(B) = C + 1 /\ Len(G) = E + 1
  BY ONLY <1>1, <1>2, <1>3, <1>4, <1>5
<1>16. /\ \A i \in 1..C + 1 : l.kids[i] = w[i]
       /\ \A i \in 1..E + 1 : r.kids[i] = w[C + 1 + i]
       /\ \A i \in 1..Len(w) : H(i) <= k \/ k <= L(i)
       /\ ~l.leaf /\ ~r.leaf /\ l \in Node /\ r \in Node
       /\ Len(l.keys) = C /\ Len(r.keys) = E /\ Len(l.kids) = C + 1 /\ Len(r.kids) = E + 1
  BY ONLY <1>3, <1>5, <1>6, <1>14, <1>15
<1> QED
  BY ONLY <1>7, <1>12, <1>13, <1>16 DEF w, C, E, lp, rp, H, L, M

-----------------------------------------------------------------------------
(* Ranges of nodes.                                                        *)

\* A set with one more element.
More(D, a) == D \cup {a}

\* Divided and Closed of the model, for ranges s, a node a and a right half r.
DividedOf(s, a, new, k) ==
  [b \in DOMAIN s \cup {new} |->
     IF b = new THEN [s[a] EXCEPT !.low = k]
     ELSE IF b = a THEN [s[a] EXCEPT !.high = k]
     ELSE s[b]]

\* Dividing a node keeps the ranges nested when no lower node is cut.
LEMMA NestedDivided ==
  ASSUME NEW D, NEW s \in [D -> SpanOf], Nested(s), \A x \in D : s[x].low < s[x].high,
         NEW a \in D, NEW new, new \notin D, NEW k \in Int, s[a].low < k, k < s[a].high,
         \A x \in D : /\ x # a /\ s[x].height <= s[a].height
                      /\ s[a].low <= s[x].low /\ s[x].high <= s[a].high
                      => s[x].high <= k \/ k <= s[x].low,
         NEW t, t = DividedOf(s, a, new, k)
  PROVE  Nested(t)
<1>t. t = [b \in D \cup {new} |->
            IF b = new THEN [s[a] EXCEPT !.low = k]
            ELSE IF b = a THEN [s[a] EXCEPT !.high = k]
            ELSE s[b]]
  BY DEF DividedOf
<1>1. \A x \in D : /\ s[x].low \in Int /\ s[x].high \in Int /\ s[x].height \in Nat
                   /\ s[x] = [low |-> s[x].low, high |-> s[x].high, height |-> s[x].height]
  BY DEF SpanOf
<1>2. \A x, y \in D : s[x].height <= s[y].height =>
        \/ s[x].high <= s[y].low
        \/ s[y].high <= s[x].low
        \/ /\ s[y].low <= s[x].low /\ s[x].high <= s[y].high
           /\ s[x].height = s[y].height => x = y
  BY DEF Nested
<1> DEFINE o(c) == IF c = new THEN a ELSE c
<1>3. DOMAIN t = D \cup {new}
  BY <1>t
<1>4. ASSUME NEW c \in D \cup {new}
      PROVE  /\ o(c) \in D /\ t[c].height = s[o(c)].height
             /\ t[c].low = IF c = new THEN k ELSE s[o(c)].low
             /\ t[c].high = IF c = a THEN k ELSE s[o(c)].high
             /\ c # new => o(c) = c
             /\ c = new => o(c) = a
  <2>0. a # new
    OBVIOUS
  <2>1. CASE c = new
    <3>1. t[c] = [s[a] EXCEPT !.low = k] /\ o(c) = a
      BY <1>t, <2>1
    <3>2. t[c] = [low |-> k, high |-> s[a].high, height |-> s[a].height]
      BY <1>1, <3>1
    <3> QED
      BY ONLY <2>0, <2>1, <3>1, <3>2, a \in D
  <2>2. CASE c = a
    <3>1. t[c] = [s[a] EXCEPT !.high = k] /\ o(c) = a
      BY <1>t, <2>2, <2>0
    <3>2. t[c] = [low |-> s[a].low, high |-> k, height |-> s[a].height]
      BY <1>1, <3>1
    <3> QED
      BY ONLY <2>0, <2>2, <3>1, <3>2, a \in D
  <2>3. CASE c # a /\ c # new
    BY <1>t, <2>3
  <2> QED
    BY <2>1, <2>2, <2>3
<1> HIDE DEF o
<1>n. ASSUME \A c, d \in D \cup {new} : t[c].height <= t[d].height =>
               \/ t[c].high <= t[d].low
               \/ t[d].high <= t[c].low
               \/ /\ t[d].low <= t[c].low /\ t[c].high <= t[d].high
                  /\ t[c].height = t[d].height => c = d
      PROVE  Nested(t)
  BY ONLY <1>3, <1>n DEF Nested
<1> SUFFICES ASSUME NEW c \in D \cup {new}, NEW d \in D \cup {new}, t[c].height <= t[d].height
             PROVE  \/ t[c].high <= t[d].low
                    \/ t[d].high <= t[c].low
                    \/ /\ t[d].low <= t[c].low /\ t[c].high <= t[d].high
                       /\ t[c].height = t[d].height => c = d
  BY <1>n
<1>5. /\ o(c) \in D /\ t[c].height = s[o(c)].height
      /\ t[c].low = IF c = new THEN k ELSE s[o(c)].low
      /\ t[c].high = IF c = a THEN k ELSE s[o(c)].high
      /\ c # new => o(c) = c
      /\ c = new => o(c) = a
  BY ONLY <1>4, c \in D \cup {new}
<1>6. /\ o(d) \in D /\ t[d].height = s[o(d)].height
      /\ t[d].low = IF d = new THEN k ELSE s[o(d)].low
      /\ t[d].high = IF d = a THEN k ELSE s[o(d)].high
      /\ d # new => o(d) = d
      /\ d = new => o(d) = a
  BY ONLY <1>4, d \in D \cup {new}
<1>7. /\ s[o(c)].low < s[o(c)].high /\ s[o(d)].low < s[o(d)].high
      /\ s[o(c)].low \in Int /\ s[o(c)].high \in Int /\ s[o(c)].height \in Nat
      /\ s[o(d)].low \in Int /\ s[o(d)].high \in Int /\ s[o(d)].height \in Nat
  BY <1>1, <1>5, <1>6
<1>8. \/ s[o(c)].high <= s[o(d)].low
      \/ s[o(d)].high <= s[o(c)].low
      \/ /\ s[o(d)].low <= s[o(c)].low /\ s[o(c)].high <= s[o(d)].high
         /\ s[o(c)].height = s[o(d)].height => o(c) = o(d)
  BY ONLY <1>2, <1>5, <1>6, t[c].height <= t[d].height
<1>k. a # new /\ k \in Int /\ s[a].low < k /\ k < s[a].high
  OBVIOUS
<1>9. CASE o(c) = o(d)
  BY ONLY <1>5, <1>6, <1>7, <1>k, <1>9
<1>10. CASE o(c) # o(d) /\ o(d) = a
  <2>1. s[o(c)].low >= s[a].low /\ s[o(c)].high <= s[a].high
          => s[o(c)].high <= k \/ k <= s[o(c)].low
    BY <1>5, <1>6, <1>10
  <2>2. c # a /\ c # new
    BY ONLY <1>5, <1>6, <1>10
  <2> QED
    BY ONLY <1>5, <1>6, <1>7, <1>8, <1>k, <1>10, <2>1, <2>2
<1>11. CASE o(c) # o(d) /\ o(d) # a
  <2>1. d # a /\ d # new
    BY ONLY <1>5, <1>6, <1>11
  <2>2. CASE o(c) = a
    BY ONLY <1>5, <1>6, <1>7, <1>8, <1>k, <1>11, <2>1, <2>2
  <2>3. CASE o(c) # a
    <3>1. c # a /\ c # new
      BY ONLY <1>5, <1>6, <2>3
    <3> QED
      BY ONLY <1>5, <1>6, <1>7, <1>8, <1>k, <1>11, <2>1, <3>1
  <2> QED
    BY <2>2, <2>3
<1> QED
  BY <1>9, <1>10, <1>11

\* A new root covers all nodes.
LEMMA NestedGrown ==
  ASSUME NEW D, NEW s \in [D -> SpanOf], Nested(s), NEW new, new \notin D, NEW p \in SpanOf,
         \A x \in D : p.low <= s[x].low /\ s[x].high <= p.high /\ s[x].height < p.height,
         NEW t, t = [b \in D \cup {new} |-> IF b = new THEN p ELSE s[b]]
  PROVE  Nested(t)
<1>1. /\ \A x \in D : s[x].low \in Int /\ s[x].high \in Int /\ s[x].height \in Nat
      /\ p.low \in Int /\ p.high \in Int /\ p.height \in Nat
  BY DEF SpanOf
<1>2. DOMAIN t = D \cup {new} /\ t[new] = p /\ \A x \in D : t[x] = s[x]
  OBVIOUS
<1> SUFFICES ASSUME NEW c \in D \cup {new}, NEW d \in D \cup {new}, t[c].height <= t[d].height
             PROVE  \/ t[c].high <= t[d].low
                    \/ t[d].high <= t[c].low
                    \/ /\ t[d].low <= t[c].low /\ t[c].high <= t[d].high
                       /\ t[c].height = t[d].height => c = d
  BY <1>2 DEF Nested
<1>3. CASE c \in D /\ d \in D
  BY <1>2, <1>3 DEF Nested
<1>4. CASE d = new /\ c \in D
  BY <1>1, <1>2, <1>4
<1>5. CASE c = new /\ d \in D
  BY <1>1, <1>2, <1>5
<1>6. CASE c = new /\ d = new
  BY <1>1, <1>2, <1>6
<1> QED
  BY <1>3, <1>4, <1>5, <1>6

\* n is a divided node whose right half r has no parent: no higher node ends or
\* begins between them.
Detached(s, n, r) ==
  /\ n \in DOMAIN s /\ r \in DOMAIN s /\ s[n].high = s[r].low /\ s[n].height = s[r].height
  /\ \A y \in DOMAIN s : s[y].height > s[r].height =>
       \/ s[y].low <= s[n].low /\ s[r].high <= s[y].high
       \/ s[y].high <= s[n].low
       \/ s[r].high <= s[y].low

\* The nodes that are lost with r.
Gone(s, r) ==
  {b \in DOMAIN s : /\ s[b].low >= s[r].low /\ s[b].high <= s[r].high
                    /\ s[b].height <= s[r].height}

\* The nodes that are not lost.
Kept(s, r) == DOMAIN s \ Gone(s, r)

\* The ranges after the loss of r.
ClosedOf(s, r) ==
  [b \in DOMAIN s \ Gone(s, r) |->
     IF s[b].high = s[r].low THEN [s[b] EXCEPT !.high = s[r].high] ELSE s[b]]

\* What is not lost lies beside the lost range or above it; nodes that end where it
\* begins lie in n.
LEMMA Beside ==
  ASSUME NEW D, NEW s \in [D -> SpanOf], Nested(s), \A x \in D : s[x].low < s[x].high,
         NEW n, NEW r, Detached(s, n, r), NEW x \in D
  PROVE  /\ s[x].height <= s[r].height /\ x \notin Gone(s, r) =>
              s[x].high <= s[r].low \/ s[r].high <= s[x].low
         /\ s[x].high = s[r].low =>
              s[x].height <= s[r].height /\ s[n].low <= s[x].low /\ (s[x].height = s[r].height => x = n)
         /\ x \in Gone(s, r) /\ s[x].height = s[r].height => x = r
         /\ x \in Gone(s, r) <=>
              /\ s[x].low >= s[r].low /\ s[x].high <= s[r].high /\ s[x].height <= s[r].height
<1>1. /\ n \in D /\ r \in D /\ s[n].high = s[r].low /\ s[n].height = s[r].height
      /\ s[n].low < s[n].high /\ s[r].low < s[r].high /\ s[x].low < s[x].high
      /\ s[x].height > s[r].height =>
           \/ s[x].low <= s[n].low /\ s[r].high <= s[x].high
           \/ s[x].high <= s[n].low
           \/ s[r].high <= s[x].low
  BY DEF Detached
<1>2. /\ s[x].low \in Int /\ s[x].high \in Int /\ s[x].height \in Nat
      /\ s[n].low \in Int /\ s[n].high \in Int /\ s[n].height \in Nat
      /\ s[r].low \in Int /\ s[r].high \in Int /\ s[r].height \in Nat
  BY <1>1 DEF SpanOf
<1>3. s[x].height <= s[r].height =>
        \/ s[x].high <= s[r].low
        \/ s[r].high <= s[x].low
        \/ s[r].low <= s[x].low /\ s[x].high <= s[r].high /\ (s[x].height = s[r].height => x = r)
  BY <1>1 DEF Nested
<1>4. s[x].height <= s[n].height =>
        \/ s[x].high <= s[n].low
        \/ s[n].high <= s[x].low
        \/ s[n].low <= s[x].low /\ s[x].high <= s[n].high /\ (s[x].height = s[n].height => x = n)
  BY <1>1 DEF Nested
<1>5. x \in Gone(s, r) <=>
        /\ s[x].low >= s[r].low /\ s[x].high <= s[r].high /\ s[x].height <= s[r].height
  BY DEF Gone
<1> QED
  BY ONLY <1>1, <1>2, <1>3, <1>4, <1>5

\* Losing a right half keeps the ranges nested.
LEMMA NestedClosed ==
  ASSUME NEW D, NEW s \in [D -> SpanOf], Nested(s), \A x \in D : s[x].low < s[x].high,
         NEW n, NEW r, Detached(s, n, r),
         NEW t, t = ClosedOf(s, r)
  PROVE  /\ Nested(t) /\ \A x \in D \ Gone(s, r) :
              /\ t[x].low = s[x].low /\ t[x].height = s[x].height
              /\ t[x].high = IF s[x].high = s[r].low THEN s[r].high ELSE s[x].high
              /\ t[x] \in SpanOf
<1> DEFINE k == s[r].low  h == s[r].high  g == s[r].height  R == D \ Gone(s, r)
<1>t. t = [b \in D \ Gone(s, r) |->
            IF s[b].high = s[r].low THEN [s[b] EXCEPT !.high = s[r].high] ELSE s[b]]
  BY DEF ClosedOf
<1>r. r \in D /\ n \in D
  BY DEF Detached
<1>1. ASSUME NEW x \in R
      PROVE  /\ t[x].low = s[x].low /\ t[x].height = s[x].height
             /\ t[x].high = IF s[x].high = k THEN h ELSE s[x].high
             /\ t[x] \in SpanOf
  BY <1>t, <1>r DEF SpanOf
<1>2. DOMAIN t = R
  BY <1>t
<1> HIDE DEF R
<1>n. SUFFICES Nested(t)
  BY <1>1 DEF R
<1>3. SUFFICES ASSUME NEW x \in R, NEW y \in R, t[x].height <= t[y].height
               PROVE  \/ t[x].high <= t[y].low
                      \/ t[y].high <= t[x].low
                      \/ /\ t[y].low <= t[x].low /\ t[x].high <= t[y].high
                         /\ t[x].height = t[y].height => x = y
  BY <1>2, Zenon DEF Nested
<1>d. x \in D \ Gone(s, r) /\ y \in D \ Gone(s, r)
  BY DEF R
<1>4. /\ s[x].low \in Int /\ s[x].high \in Int /\ s[x].height \in Nat /\ s[x].low < s[x].high
      /\ s[y].low \in Int /\ s[y].high \in Int /\ s[y].height \in Nat /\ s[y].low < s[y].high
      /\ k \in Int /\ h \in Int /\ g \in Nat /\ k < h
      /\ s[n].low \in Int /\ s[n].low < k
  <2>1. s[n].high = k /\ s[n].low < s[n].high
    BY DEF Detached
  <2> QED
    BY <1>d, <1>r, <2>1 DEF SpanOf
<1>5. /\ s[x].height <= g => s[x].high <= k \/ h <= s[x].low
      /\ s[x].high = k => s[x].height <= g /\ s[n].low <= s[x].low
  BY <1>d, Beside
<1>6. /\ s[y].height <= g => s[y].high <= k \/ h <= s[y].low
      /\ s[y].high = k => s[y].height <= g /\ s[n].low <= s[y].low
  BY <1>d, Beside
<1>7. s[y].height > g => \/ s[y].low <= s[n].low /\ h <= s[y].high
                         \/ s[y].high <= s[n].low
                         \/ h <= s[y].low
  BY <1>d DEF Detached
<1>8. s[x].height <= s[y].height =>
        \/ s[x].high <= s[y].low
        \/ s[y].high <= s[x].low
        \/ s[y].low <= s[x].low /\ s[x].high <= s[y].high /\ (s[x].height = s[y].height => x = y)
  BY <1>d DEF Nested
<1>9. /\ t[x].low = s[x].low /\ t[x].height = s[x].height
      /\ t[x].high = IF s[x].high = k THEN h ELSE s[x].high
      /\ t[y].low = s[y].low /\ t[y].height = s[y].height
      /\ t[y].high = IF s[y].high = k THEN h ELSE s[y].high
  BY ONLY <1>1, <1>3
<1> HIDE DEF k, h, g
<1> QED
  BY ONLY <1>3, <1>4, <1>5, <1>6, <1>7, <1>8, <1>9

\* The nodes that remain fit the ranges that extend over the lost one.
LEMMA FitsClosed ==
  ASSUME NEW D, NEW s \in [D -> SpanOf], Nested(s), \A x \in D : s[x].low < s[x].high,
         NEW n, NEW r, Detached(s, n, r), n # r,
         NEW t, t = ClosedOf(s, r),
         NEW m \in Node, NEW x \in D \ Gone(s, r), Fits(m, JointOf(s, n, r), s[x]),
         ~m.leaf => \A i \in 1..Len(m.kids) : m.kids[i] # r
  PROVE  /\ Fits(m, t, t[x])
         /\ ~m.leaf => \A i \in 1..Len(m.kids) : m.kids[i] \in D \ Gone(s, r)
<1> DEFINE k == s[r].low  h == s[r].high  g == s[r].height  J == JointOf(s, n, r)
<1>t. t = [b \in D \ Gone(s, r) |->
            IF s[b].high = s[r].low THEN [s[b] EXCEPT !.high = s[r].high] ELSE s[b]]
  BY DEF ClosedOf
<1>r. /\ r \in D /\ n \in D /\ s[n].high = k /\ s[n].height = g
      /\ s[x] \in SpanOf /\ x \in D /\ x \notin Gone(s, r)
  BY DEF Detached
<1>1. \A y \in D \ Gone(s, r) :
        /\ t[y].low = s[y].low /\ t[y].height = s[y].height
        /\ t[y].high = IF s[y].high = k THEN h ELSE s[y].high
        /\ t[y] \in SpanOf
  BY NestedClosed
<1>2. /\ s[x].low \in Int /\ s[x].high \in Int /\ s[x].height \in Nat /\ s[x].low < s[x].high
      /\ k \in Int /\ h \in Int /\ g \in Nat /\ k < h
      /\ s[n].low \in Int /\ s[n].low < k
  <2>1. s[n].low < s[n].high
    BY <1>r
  <2> QED
    BY <1>r, <2>1 DEF SpanOf
<1>3. /\ s[x].height <= g => s[x].high <= k \/ h <= s[x].low
      /\ s[x].high = k => s[x].height <= g
  BY <1>r, Beside
<1>4. /\ t[x].low = s[x].low /\ t[x].height = s[x].height
      /\ t[x].high = IF s[x].high = k THEN h ELSE s[x].high
  BY <1>1
<1>l. CASE m.leaf
  <2>1. Within(m.keys, t[x].low, t[x].high)
    <3>1. Within(m.keys, s[x].low, s[x].high) /\ m.keys \in Seq(Number)
      BY <1>l DEF Fits, Node
    <3>2. \A i \in 1..Len(m.keys) : m.keys[i] \in Int
      BY ONLY <3>1 DEF Number
    <3> HIDE DEF k, h, g
    <3> QED
      BY ONLY <1>2, <1>4, <3>1, <3>2 DEF Within
  <2>2. /\ s[x].height = 0 /\ Ascends(m.keys) /\ Len(m.vals) = Len(m.keys)
    BY <1>l DEF Fits
  <2>3. t[x].low < t[x].high
    BY <1>2, <1>4
  <2> QED
    BY ONLY <1>l, <1>4, <2>1, <2>2, <2>3 DEF Fits
<1>i. CASE ~m.leaf
  <2> DEFINE L(i) == SegLow(m, s[x], i)  H(i) == SegHigh(m, s[x], i)
  <2>1. /\ Len(m.keys) \in Nat /\ Len(m.kids) = Len(m.keys) + 1
        /\ \A i \in 1..Len(m.kids) :
             /\ L(i) \in Int /\ H(i) \in Int /\ L(i) < H(i)
             /\ s[x].low <= L(i) /\ H(i) <= s[x].high
    <3> HIDE DEF J
    <3>1. Fits(m, J, s[x]) /\ s[x] \in SpanOf
      BY <1>r DEF J
    <3> QED
      BY <1>i, <3>1, Segments
  <2>2. ASSUME NEW i \in 1..Len(m.kids), NEW b, b = m.kids[i]
        PROVE  /\ b \in D /\ b # r
               /\ J[b] = [low |-> L(i), high |-> H(i), height |-> s[x].height - 1]
               /\ b = n => J[b] = [s[n] EXCEPT !.high = h]
               /\ b # n => J[b] = s[b]
    <3>1. b \in D
      BY <1>i, <2>2 DEF Fits, JointOf
    <3>2. b # r
      BY <1>i, <2>2
    <3>3. J[b] = [low |-> L(i), high |-> H(i), height |-> s[x].height - 1]
      BY <1>i, <2>2 DEF Fits
    <3> QED
      BY <3>1, <3>2, <3>3 DEF JointOf
  <2> HIDE DEF J
  <2>3. CASE s[x].high # k
    <3>1. t[x] = s[x]
      BY <1>t, <2>3, <1>r
    <3>2. ASSUME NEW i \in 1..Len(m.kids)
          PROVE  m.kids[i] \in D \ Gone(s, r) /\ t[m.kids[i]] = J[m.kids[i]]
      <4> DEFINE b == m.kids[i]
      <4>1. /\ b \in D /\ b # r
            /\ J[b] = [low |-> L(i), high |-> H(i), height |-> s[x].height - 1]
            /\ b = n => J[b] = [s[n] EXCEPT !.high = h]
            /\ b # n => J[b] = s[b]
        BY <2>2
      <4>2. /\ L(i) \in Int /\ H(i) \in Int /\ L(i) < H(i)
            /\ s[x].low <= L(i) /\ H(i) <= s[x].high
        BY <2>1
      <4> HIDE DEF b, L, H
      <4>3. CASE b = n
        <5>1. n \notin Gone(s, r)
          BY <1>2, <1>r DEF Gone
        <5>2. t[n] = [s[n] EXCEPT !.high = h]
          BY <1>t, <1>r, <5>1
        <5> QED
          BY <4>1, <4>3, <5>1, <5>2 DEF b
      <4>4. CASE b # n
        <5>1. /\ s[b].low = L(i) /\ s[b].high = H(i) /\ s[b].height = s[x].height - 1
          BY ONLY <4>1, <4>4
        <5>2. /\ s[b].high = k => s[b].height <= g /\ (s[b].height = g => b = n)
              /\ b \in Gone(s, r) /\ s[b].height = g => b = r
              /\ b \in Gone(s, r) <=> s[b].low >= k /\ s[b].high <= h /\ s[b].height <= g
          BY <4>1, Beside
        <5>3. b \notin Gone(s, r) /\ s[b].high # k
          <6> HIDE DEF k, h, g
          <6>1. PICK xl, xh, xt, bl, bh :
                  xl = s[x].low /\ xh = s[x].high /\ xt = s[x].height /\ bl = L(i) /\ bh = H(i)
            OBVIOUS
          <6>2. /\ xl \in Int /\ xh \in Int /\ xt \in Nat /\ bl \in Int /\ bh \in Int
                /\ k \in Int /\ h \in Int /\ g \in Nat /\ k < h
                /\ bl < bh /\ xl <= bl /\ bh <= xh /\ xh # k
                /\ xt <= g => xh <= k \/ h <= xl
            BY ONLY <1>2, <1>3, <2>3, <4>2, <6>1
          <6>3. /\ b \in Gone(s, r) => xt - 1 # g /\ bl >= k /\ bh <= h /\ xt - 1 <= g
                /\ s[b].high = k => bh = k /\ xt - 1 # g /\ xt - 1 <= g
            BY ONLY <4>1, <4>4, <5>1, <5>2, <6>1
          <6> HIDE DEF b
          <6> QED
            BY ONLY <6>2, <6>3
        <5>4. t[b] = s[b]
          BY <1>t, <4>1, <5>3
        <5> QED
          BY <4>1, <4>4, <5>3, <5>4 DEF b
      <4> QED
        BY <4>3, <4>4
    <3>3. DOMAIN t = D \ Gone(s, r)
      BY <1>t
    <3>4. \A i \in 1..Len(m.kids) : m.kids[i] \in DOMAIN t /\ t[m.kids[i]] = J[m.kids[i]]
      BY <3>2, <3>3
    <3>5. Fits(m, J, t[x])
      BY <3>1 DEF J
    <3>6. Fits(m, t, t[x])
      BY ONLY <3>4, <3>5, FitsAgree
    <3> QED
      BY <3>2, <3>6
  <2>4. CASE s[x].high = k
    <3>1. t[x].low = s[x].low /\ t[x].high = h /\ t[x].height = s[x].height /\ s[x].height <= g
      BY <1>4, <1>3, <2>4
    <3>2. ASSUME NEW i \in 1..Len(m.kids)
          PROVE  /\ m.kids[i] \in D \ Gone(s, r)
                 /\ t[m.kids[i]] = [low |-> L(i), high |-> IF H(i) = k THEN h ELSE H(i),
                                    height |-> t[x].height - 1]
      <4> DEFINE b == m.kids[i]
      <4>1. /\ b \in D /\ b # r
            /\ J[b] = [low |-> L(i), high |-> H(i), height |-> s[x].height - 1]
            /\ b = n => J[b] = [s[n] EXCEPT !.high = h]
            /\ b # n => J[b] = s[b]
        BY <2>2
      <4>2. /\ L(i) \in Int /\ H(i) \in Int /\ L(i) < H(i)
            /\ s[x].low <= L(i) /\ H(i) <= s[x].high
        BY <2>1
      <4> HIDE DEF b, L, H
      <4>3. b # n
        <5>1. b = n => J[b].height = g
          BY <4>1, <1>r DEF SpanOf
        <5>2. J[b].height = s[x].height - 1
          BY ONLY <4>1
        <5> HIDE DEF g
        <5> QED
          BY ONLY <5>1, <5>2, <3>1, <1>2
      <4>5. s[b] = [low |-> L(i), high |-> H(i), height |-> s[x].height - 1]
        BY ONLY <4>1, <4>3
      <4>6. b \notin Gone(s, r)
        <5>1. b \in Gone(s, r) => s[b].low >= k
          BY DEF Gone
        <5>2. s[b].low = L(i)
          BY ONLY <4>5
        <5> HIDE DEF k, h, g
        <5> QED
          BY ONLY <5>1, <5>2, <4>2, <2>4, <1>2
      <4>7. /\ t[b].low = L(i) /\ t[b].height = t[x].height - 1
            /\ t[b].high = (IF H(i) = k THEN h ELSE H(i)) /\ t[b] \in SpanOf
        <5>1. /\ t[b].low = s[b].low /\ t[b].height = s[b].height
              /\ t[b].high = (IF s[b].high = k THEN h ELSE s[b].high) /\ t[b] \in SpanOf
          BY <1>1, <4>1, <4>6
        <5>2. s[b].low = L(i) /\ s[b].high = H(i) /\ s[b].height = s[x].height - 1
          BY ONLY <4>5
        <5> QED
          BY ONLY <5>1, <5>2, <3>1
      <4>8. t[b] = [low |-> L(i), high |-> IF H(i) = k THEN h ELSE H(i), height |-> t[x].height - 1]
        BY ONLY <4>7 DEF SpanOf
      <4> QED
        BY <4>1, <4>6, <4>8 DEF b
    <3>a. /\ m.keys \in Seq(Number) /\ Ascends(m.keys) /\ Within(m.keys, s[x].low, s[x].high)
          /\ s[x].height # 0 /\ Len(m.keys) > 0 /\ s[x].low < m.keys[1]
      BY <1>i DEF Fits, Node
    <3>b. \A i \in 1..Len(m.keys) : m.keys[i] \in Int /\ s[x].low <= m.keys[i] /\ m.keys[i] < k
      BY ONLY <3>a, <2>4 DEF Within, Number
    <3>3. ASSUME NEW i \in 1..Len(m.kids)
          PROVE  SegLow(m, t[x], i) = L(i) /\ SegHigh(m, t[x], i) = IF H(i) = k THEN h ELSE H(i)
      <4>1. SegLow(m, t[x], i) = L(i)
        BY <3>1 DEF SegLow
      <4>2. CASE i = Len(m.keys) + 1
        <5>1. H(i) = s[x].high /\ SegHigh(m, t[x], i) = t[x].high
          BY <4>2 DEF SegHigh
        <5> HIDE DEF H, k, h
        <5> QED
          BY ONLY <2>4, <3>1, <4>1, <5>1
      <4>3. CASE i # Len(m.keys) + 1
        <5>1. H(i) = m.keys[i] /\ SegHigh(m, t[x], i) = m.keys[i]
          BY <4>3 DEF SegHigh
        <5>2. i \in 1..Len(m.keys)
          BY <2>1, <4>3
        <5>3. m.keys[i] \in Int /\ m.keys[i] < k
          BY ONLY <3>b, <5>2
        <5> HIDE DEF H, k
        <5> QED
          BY ONLY <1>2, <4>1, <5>1, <5>3
      <4> QED
        BY <4>1, <4>2, <4>3
    <3>4. DOMAIN t = D \ Gone(s, r)
      BY <1>t
    <3>5. \A i \in 1..Len(m.kids) :
            /\ m.kids[i] \in DOMAIN t
            /\ t[m.kids[i]] = [low |-> SegLow(m, t[x], i), high |-> SegHigh(m, t[x], i),
                               height |-> t[x].height - 1]
      BY ONLY <3>2, <3>3, <3>4
    <3>6. t[x].low < t[x].high /\ Within(m.keys, t[x].low, t[x].high)
      <4> HIDE DEF k, h
      <4>1. t[x].low < t[x].high
        BY ONLY <1>2, <2>4, <3>1
      <4>2. Within(m.keys, t[x].low, t[x].high)
        BY ONLY <1>2, <3>b, <3>1 DEF Within
      <4> QED
        BY <4>1, <4>2
    <3>7. Fits(m, t, t[x])
      BY ONLY <1>i, <2>1, <3>1, <3>5, <3>6, <3>a DEF Fits
    <3> QED
      BY <3>2, <3>7
  <2> QED
    BY <2>3, <2>4
<1> QED
  BY <1>l, <1>i

-----------------------------------------------------------------------------
(* What an insertion does to the tree.  D are its nodes, h and g the heap  *)
(* before and after, s and t the ranges.                                   *)

\* Writing a leaf.
LEMMA WriteLeaf ==
  ASSUME NEW D, NEW s \in [D -> SpanOf], NEW h, NEW g, NEW rt, Sound(h, rt, s),
         NEW a \in D, h[a].leaf, g[a].leaf, Fits(g[a], s, s[a]),
         \A b \in D : b # a => g[b] = h[b]
  PROVE  Sound(g, rt, s)
<1>1. DOMAIN s = D
  OBVIOUS
<1>2. Shape(g, s, s)
  BY <1>1 DEF Sound, Shape
<1>3. ASSUME NEW b \in D \ {rt} PROVE HasParent(g, s, b)
  <2>1. PICK c \in D : ~h[c].leaf /\ \E i \in 1..Len(h[c].kids) : h[c].kids[i] = b
    BY <1>1 DEF Sound, HasParent
  <2>2. g[c] = h[c]
    BY <2>1
  <2> QED
    BY <1>1, <2>1, <2>2 DEF HasParent
<1> QED
  BY <1>1, <1>2, <1>3 DEF Sound

\* The node n with range p, divided at k into l and r.
Halved(n, s, p, k, l, r) ==
  /\ l.leaf = n.leaf /\ Fits(l, s, [p EXCEPT !.high = k])
  /\ r.leaf = n.leaf /\ Fits(r, s, [p EXCEPT !.low = k])
  /\ ~n.leaf => \A i \in 1..Len(n.kids) :
       /\ SegHigh(n, p, i) <= k \/ k <= SegLow(n, p, i)
       /\ \/ \E j \in 1..Len(l.kids) : l.kids[j] = n.kids[i]
          \/ \E j \in 1..Len(r.kids) : r.kids[j] = n.kids[i]

\* Dividing a node: its right half has no parent yet.
LEMMA DivideNode ==
  ASSUME NEW D, NEW s, NEW h, NEW g, NEW rt, NEW a, NEW new, NEW k, NEW t,
         s \in [D -> SpanOf], Sound(h, rt, s), a \in D, h[a] \in Node, new \notin D, k \in Int,
         s[a].low < k, k < s[a].high, t = DividedOf(s, a, new, k),
         \A b \in D : b # a => g[b] = h[b], Halved(h[a], s, s[a], k, g[a], g[new])
  PROVE  Parted(g, rt, t, a, new, k) /\ DOMAIN t = More(D, new) /\ t \in [More(D, new) -> SpanOf]
<1> USE DEF More
<1>h. /\ g[a].leaf = h[a].leaf /\ Fits(g[a], s, [s[a] EXCEPT !.high = k])
      /\ g[new].leaf = h[a].leaf /\ Fits(g[new], s, [s[a] EXCEPT !.low = k])
      /\ ~h[a].leaf => \A i \in 1..Len(h[a].kids) :
           /\ SegHigh(h[a], s[a], i) <= k \/ k <= SegLow(h[a], s[a], i)
           /\ \/ \E j \in 1..Len(g[a].kids) : g[a].kids[j] = h[a].kids[i]
              \/ \E j \in 1..Len(g[new].kids) : g[new].kids[j] = h[a].kids[i]
  BY DEF Halved
<1> USE <1>h
<1> DEFINE J == JointOf(t, a, new)
<1>d. DOMAIN s = D /\ a # new
  OBVIOUS
<1>a. s[a] \in SpanOf /\ s[a].low \in Int /\ s[a].high \in Int /\ s[a].height \in Nat
  BY SpanFields
<1>1. /\ DOMAIN t = D \cup {new}
      /\ t[new] = [low |-> k, high |-> s[a].high, height |-> s[a].height]
      /\ t[a] = [low |-> s[a].low, high |-> k, height |-> s[a].height]
      /\ t[new] = [s[a] EXCEPT !.low = k] /\ t[a] = [s[a] EXCEPT !.high = k]
      /\ \A b \in D : b # a => t[b] = s[b]
  <2>1. s[a] = [low |-> s[a].low, high |-> s[a].high, height |-> s[a].height]
    BY SpanFields
  <2>2. /\ DOMAIN t = D \cup {new}
        /\ t[new] = [s[a] EXCEPT !.low = k] /\ t[a] = [s[a] EXCEPT !.high = k]
        /\ \A b \in D : b # a => t[b] = s[b]
    BY <1>d DEF DividedOf
  <2>3. /\ [s[a] EXCEPT !.low = k] = [low |-> k, high |-> s[a].high, height |-> s[a].height]
        /\ [s[a] EXCEPT !.high = k] = [low |-> s[a].low, high |-> k, height |-> s[a].height]
    BY <2>1
  <2> QED
    BY ONLY <2>2, <2>3
<1>t. t \in [D \cup {new} -> SpanOf]
  <2>1. t = [b \in D \cup {new} |-> t[b]]
    BY <1>d DEF DividedOf
  <2>2. ASSUME NEW b \in D \cup {new} PROVE t[b] \in SpanOf
    <3>1. CASE b = new
      BY <1>1, <1>a, <3>1 DEF SpanOf
    <3>2. CASE b = a
      BY <1>1, <1>a, <3>2 DEF SpanOf
    <3>3. CASE b # a /\ b # new
      BY <1>1, <3>3
    <3> QED
      BY <3>1, <3>2, <3>3
  <2> QED
    BY ONLY <2>1, <2>2
<1>j. DOMAIN J = D \cup {new} /\ J[new] = t[new] /\ \A b \in D : J[b] = s[b]
  <2>1. /\ DOMAIN J = D \cup {new} /\ J[new] = t[new] /\ J[a] = [t[a] EXCEPT !.high = t[new].high]
        /\ \A b \in D : b # a => J[b] = t[b]
    BY <1>1, <1>d DEF JointOf
  <2>2. t[new].high = s[a].high
    BY ONLY <1>1
  <2>3. J[a] = s[a]
    <3>1. J[a] = [low |-> s[a].low, high |-> s[a].high, height |-> s[a].height]
      <4>1. t[a] = [low |-> s[a].low, high |-> k, height |-> s[a].height]
        BY ONLY <1>1
      <4>2. J[a] = [t[a] EXCEPT !.high = s[a].high]
        BY ONLY <2>1, <2>2
      <4> QED
        BY ONLY <4>1, <4>2
    <3> QED
      BY <3>1, <1>a, SpanFields
  <2> QED
    BY ONLY <1>1, <2>1, <2>3
<1>s. /\ \A b \in D : Fits(h[b], s, s[b]) /\ s[b].low < s[b].high
      /\ Nested(s) /\ Rooted(rt, s, s) /\ \A b \in D \ {rt} : HasParent(h, s, b)
  BY <1>d DEF Sound, Shape, Fits
<1>k. \A b \in D \cup {new} : ~g[b].leaf => \A i \in 1..Len(g[b].kids) : g[b].kids[i] \in D
  <2> SUFFICES ASSUME NEW b \in D \cup {new}, ~g[b].leaf, NEW i \in 1..Len(g[b].kids)
               PROVE  g[b].kids[i] \in D
    OBVIOUS
  <2>1. \E p : Fits(g[b], s, p)
    BY <1>s
  <2> QED
    BY <1>d, <2>1 DEF Fits
<1>2. Shape(g, t, J)
  <2> SUFFICES ASSUME NEW b \in D \cup {new} PROVE Fits(g[b], J, t[b])
    BY <1>1 DEF Shape
  <2>1. Fits(g[b], s, t[b])
    BY <1>s, <1>1
  <2>2. ~g[b].leaf => \A i \in 1..Len(g[b].kids) : g[b].kids[i] \in DOMAIN J /\ J[g[b].kids[i]] = s[g[b].kids[i]]
    BY <1>k, <1>j
  <2> QED
    BY ONLY <2>1, <2>2, FitsAgree
<1>3. ASSUME NEW x \in D, x # a, s[x].height <= s[a].height,
             s[a].low <= s[x].low, s[x].high <= s[a].high
      PROVE  s[x].high <= k \/ k <= s[x].low
  <2>0. s[x].low \in Int /\ s[x].high \in Int /\ s[x].height \in Nat /\ s[x].low < s[x].high
    BY <1>s, SpanFields
  <2>1. s[x].height # s[a].height
    <3>1. \/ s[x].high <= s[a].low \/ s[a].high <= s[x].low
          \/ s[x].height = s[a].height => x = a
      BY <1>s, <1>d, <1>3 DEF Nested
    <3> QED
      BY ONLY <1>a, <1>3, <2>0, <3>1
  <2>2. ~h[a].leaf
    <3>1. h[a].leaf => s[a].height = 0
      BY <1>s DEF Fits
    <3> QED
      BY ONLY <1>a, <1>3, <2>0, <2>1, <3>1
  <2> DEFINE idx == ChildIndexForKey(h[a].keys, s[x].low)  c == h[a].kids[idx + 1]
             L == SegLow(h[a], s[a], idx + 1)  H == SegHigh(h[a], s[a], idx + 1)
  <2>3. idx + 1 \in 1..Len(h[a].kids) /\ L <= s[x].low /\ s[x].low < H
    <3>1. s[x].low \in Number /\ s[a].low <= s[x].low /\ s[x].low < s[a].high
      BY <1>a, <1>3, <2>0 DEF Number
    <3>2. Fits(h[a], s, s[a])
      BY <1>s
    <3> HIDE DEF L, H
    <3> QED
      BY <1>a, <2>2, <3>1, <3>2, Tiles DEF L, H
  <2>4. c \in D /\ s[c] = [low |-> L, high |-> H, height |-> s[a].height - 1]
    BY <1>s, <1>d, <2>2, <2>3 DEF Fits
  <2>5. H <= k \/ k <= L
    BY <2>2, <2>3
  <2>6. s[c].low = L /\ s[c].high = H /\ s[c].height = s[a].height - 1
    BY <2>4
  <2>7. L \in Int /\ H \in Int
    BY <2>4, <2>6, SpanFields
  <2>8. s[x].height <= s[c].height => \/ s[x].high <= s[c].low \/ s[c].high <= s[x].low
                                      \/ s[c].low <= s[x].low /\ s[x].high <= s[c].high
    BY <1>s, <1>d, <2>4 DEF Nested
  <2> HIDE DEF c, L, H
  <2> QED
    <3>1. s[x].height <= s[c].height
      BY ONLY <1>a, <1>3, <2>0, <2>1, <2>6
    <3>2. s[x].high <= L \/ H <= s[x].low \/ (L <= s[x].low /\ s[x].high <= H)
      BY ONLY <2>6, <2>8, <3>1
    <3> QED
      BY ONLY <2>0, <2>3, <2>5, <2>7, <3>2, k \in Int
<1>4. Nested(t)
  <2>1. \A x \in D : s[x].low < s[x].high
    BY <1>s
  <2>2. \A x \in D : /\ x # a /\ s[x].height <= s[a].height
                     /\ s[a].low <= s[x].low /\ s[x].high <= s[a].high
                     => s[x].high <= k \/ k <= s[x].low
    BY <1>3
  <2> QED
    BY <1>s, <2>1, <2>2, NestedDivided
<1>r. rt \in D /\ s[rt] = Whole(s[rt].height) /\ rt # NULL
  BY <1>s, <1>d DEF Rooted
<1>5. Rooted(rt, t, J)
  <2>1. J[rt] = Whole(t[rt].height)
    <3>1. t[rt].height = s[rt].height
      BY <1>1, <1>r
    <3> QED
      BY <1>j, <1>r, <3>1
  <2>2. ASSUME NEW b \in D \cup {new}
        PROVE  /\ t[b].height <= t[rt].height
               /\ -IntMax - 1 <= t[b].low /\ t[b].high <= IntMax + 1
    <3>0. /\ s[a].height <= s[rt].height /\ -IntMax - 1 <= s[a].low /\ s[a].high <= IntMax + 1
      BY <1>s, <1>d DEF Rooted
    <3>1. t[rt].height = s[rt].height
      BY <1>1, <1>r
    <3>i. IntMax \in Int
      BY IntMaxAssumption
    <3>2. CASE b = new
      BY ONLY <1>1, <1>a, <3>0, <3>1, <3>2, <3>i, k \in Int, s[a].low < k, k < s[a].high
    <3>3. CASE b = a
      BY ONLY <1>1, <1>a, <3>0, <3>1, <3>3, <3>i, k \in Int, s[a].low < k, k < s[a].high
    <3>4. CASE b # new /\ b # a
      <4>1. b \in D /\ t[b] = s[b]
        BY <1>1, <3>4
      <4> QED
        BY <1>s, <1>d, <3>1, <4>1 DEF Rooted
    <3> QED
      BY <3>2, <3>3, <3>4
  <2> QED
    BY <1>1, <1>r, <2>1, <2>2 DEF Rooted
<1>6. ASSUME NEW b \in D \ {rt} PROVE HasParent(g, t, b)
  <2>1. PICK c \in D : ~h[c].leaf /\ \E i \in 1..Len(h[c].kids) : h[c].kids[i] = b
    BY <1>s, <1>d DEF HasParent
  <2>2. CASE c # a
    BY <1>1, <2>1, <2>2 DEF HasParent
  <2>3. CASE c = a
    BY <1>1, <2>1, <2>3 DEF HasParent
  <2> QED
    BY <2>2, <2>3
<1>7. ~HasParent(g, t, new)
  BY <1>1, <1>k DEF HasParent
<1>8. t[a].high = k /\ t[new].low = k /\ t[a].height = t[new].height
  BY ONLY <1>1
<1> QED
  BY <1>d, <1>1, <1>t, <1>2, <1>4, <1>5, <1>6, <1>7, <1>8, <1>r DEF Parted

\* What a divided node leaves to its parent.
LEMMA PartedFacts ==
  ASSUME NEW D, NEW s \in [D -> SpanOf], NEW h, NEW rt, NEW n, NEW r, NEW k,
         Parted(h, rt, s, n, r, k)
  PROVE  /\ n \in D /\ r \in D /\ n # r /\ r # rt /\ rt \in D /\ rt # NULL
         /\ \A x \in D : s[x].low < s[x].high
         /\ DOMAIN JointOf(s, n, r) = D
         /\ \A x \in D : x # n => JointOf(s, n, r)[x] = s[x]
         /\ JointOf(s, n, r)[n] \in SpanOf /\ JointOf(s, n, r)[n].low = s[n].low
         /\ JointOf(s, n, r)[n].high = s[r].high /\ JointOf(s, n, r)[n].height = s[n].height
         /\ s[n].high = k /\ s[r].low = k /\ s[r].height = s[n].height
         /\ s[n].low \in Int /\ s[r].high \in Int /\ s[n].height \in Nat /\ k \in Int
         /\ s[n].low < k /\ k < s[r].high
<1>1. /\ n \in D /\ r \in D /\ n # r /\ r # rt
      /\ s[n].high = k /\ s[r].low = k /\ s[n].height = s[r].height
      /\ \A x \in D : s[x].low < s[x].high
  BY DEF Parted, Shape, Fits
<1>2. rt \in D /\ rt # NULL
  BY <1>1 DEF Parted, Rooted
<1>3. /\ DOMAIN JointOf(s, n, r) = D
      /\ \A x \in D : x # n => JointOf(s, n, r)[x] = s[x]
      /\ JointOf(s, n, r)[n] = [s[n] EXCEPT !.high = s[r].high]
  BY <1>1 DEF JointOf
<1>4. /\ s[n].low \in Int /\ s[n].high \in Int /\ s[n].height \in Nat
      /\ s[n] = [low |-> s[n].low, high |-> s[n].high, height |-> s[n].height]
      /\ s[r].low \in Int /\ s[r].high \in Int
      /\ s[r] = [low |-> s[r].low, high |-> s[r].high, height |-> s[r].height]
      /\ s[n].low < s[n].high /\ s[r].low < s[r].high
  BY <1>1, SpanFields
<1>5. [s[n] EXCEPT !.high = s[r].high] = [low |-> s[n].low, high |-> s[r].high, height |-> s[n].height]
  <2>1. s[n] = [low |-> s[n].low, high |-> s[n].high, height |-> s[n].height]
    BY ONLY <1>4
  <2> QED
    BY ONLY <2>1
<1>6. [low |-> s[n].low, high |-> s[r].high, height |-> s[n].height] \in SpanOf
  BY ONLY <1>4 DEF SpanOf
<1>7. JointOf(s, n, r)[n] = [low |-> s[n].low, high |-> s[r].high, height |-> s[n].height]
  BY ONLY <1>3, <1>5
<1>8. /\ JointOf(s, n, r)[n] \in SpanOf /\ JointOf(s, n, r)[n].low = s[n].low
      /\ JointOf(s, n, r)[n].high = s[r].high /\ JointOf(s, n, r)[n].height = s[n].height
  BY ONLY <1>6, <1>7
<1>9. s[n].low < k /\ k < s[r].high /\ k \in Int
  BY ONLY <1>1, <1>4
<1> QED
  BY ONLY <1>1, <1>2, <1>3, <1>4, <1>8, <1>9

\* The parent of a divided node, as the ranges have it.
LEMMA ParentHeight ==
  ASSUME NEW D, NEW s \in [D -> SpanOf], NEW h, NEW rt, NEW n, NEW r, NEW k,
         Parted(h, rt, s, n, r, k), NEW a \in D, h[a] \in Node, ~h[a].leaf,
         NEW i \in 1..Len(h[a].kids)
  PROVE  /\ h[a].kids[i] \in D /\ h[a].kids[i] # r
         /\ s[h[a].kids[i]].height = s[a].height - 1
         /\ h[a].kids[i] = n =>
              s[a].low <= s[n].low /\ s[r].high <= s[a].high
         /\ h[a].kids[i] # n =>
              s[a].low <= s[h[a].kids[i]].low /\ s[h[a].kids[i]].high <= s[a].high
<1> DEFINE J == JointOf(s, n, r)  c == h[a].kids[i]
<1>1. /\ n \in D /\ DOMAIN J = D /\ \A x \in D : x # n => J[x] = s[x]
      /\ J[n].low = s[n].low /\ J[n].high = s[r].high /\ J[n].height = s[n].height
  BY ONLY s \in [D -> SpanOf], Parted(h, rt, s, n, r, k), PartedFacts
<1>2. Fits(h[a], J, s[a])
  BY DEF Parted, Shape
<1>3. c \in D /\ J[c] = [low |-> SegLow(h[a], s[a], i), high |-> SegHigh(h[a], s[a], i),
                         height |-> s[a].height - 1]
  BY <1>1, <1>2 DEF Fits
<1>4. s[a].low <= SegLow(h[a], s[a], i) /\ SegHigh(h[a], s[a], i) <= s[a].high
  <2>1. s[a] \in SpanOf
    OBVIOUS
  <2> HIDE DEF J
  <2> QED
    BY <1>2, <2>1, Segments
<1>5. c # r
  BY DEF Parted, HasParent
<1>6. s[c].height = J[c].height /\ s[c].low = J[c].low
  BY <1>1, <1>3
<1> HIDE DEF J
<1>7. CASE c = n
  BY ONLY <1>1, <1>3, <1>4, <1>5, <1>6, <1>7 DEF c
<1>8. CASE c # n
  <2>1. J[c] = s[c]
    BY <1>1, <1>3, <1>8
  <2> QED
    BY ONLY <1>3, <1>4, <1>5, <2>1, <1>8 DEF c
<1> QED
  BY <1>7, <1>8

\* The nodes of D but a are the same in the heaps h and g.
SameBut(D, h, g, a) == \A b \in D : b # a => g[b] = h[b]

\* The child c is reached with idx, child_index_for_key's result.
ChildAt(n, idx, c) == idx \in 0..Len(n.keys) /\ n.kids[idx + 1] = c

\* An inner node with the key k and the child r put in after child idx.
Longer(n, idx, k, r) == Inner(InsertAt(n.keys, idx + 1, k), InsertAt(n.kids, idx + 2, r))

\* In g the node a has taken the key k and the child r after the child n.
Adopted(D, h, g, a, idx, k, r, n) ==
  /\ \A b \in D : h[b] \in Node
  /\ a \in D /\ SameBut(D, h, g, a) /\ ~h[a].leaf
  /\ ChildAt(h[a], idx, n) /\ g[a] = Longer(h[a], idx, k, r)

\* The parent takes the right half.
LEMMA AdoptRight ==
  ASSUME NEW D, NEW s, NEW h, NEW g, NEW rt, NEW n, NEW r, NEW k, NEW a, NEW idx,
         s \in [D -> SpanOf], r \in Address, Parted(h, rt, s, n, r, k),
         Adopted(D, h, g, a, idx, k, r, n)
  PROVE  /\ Sound(g, rt, s) /\ g[a] \in Node /\ ~g[a].leaf
         /\ Len(g[a].keys) = Len(h[a].keys) + 1
<1>a. /\ idx \in 0..Len(h[a].keys) /\ h[a].kids[idx + 1] = n
      /\ g[a] = Longer(h[a], idx, k, r) /\ ~h[a].leaf /\ a \in D
      /\ \A b \in D : b # a => g[b] = h[b]
      /\ \A b \in D : h[b] \in Node
  BY DEF Adopted, ChildAt, SameBut
<1> USE <1>a DEF Longer
<1> DEFINE J == JointOf(s, n, r)
<1>1. /\ n \in D /\ r \in D /\ n # r /\ r # rt /\ rt \in D /\ rt # NULL
      /\ DOMAIN J = D /\ \A x \in D : x # n => J[x] = s[x]
      /\ J[n].low = s[n].low /\ J[n].high = s[r].high /\ J[n].height = s[n].height
      /\ s[n].high = k /\ s[r].low = k /\ s[r].height = s[n].height
      /\ s[n].low < k /\ k < s[r].high /\ k \in Int
  BY ONLY s \in [D -> SpanOf], Parted(h, rt, s, n, r, k), PartedFacts
<1>2. /\ \A b \in D : Fits(h[b], J, s[b])
      /\ Nested(s) /\ Rooted(rt, s, J)
      /\ \A b \in D \ {rt, r} : HasParent(h, s, b)
      /\ ~HasParent(h, s, r)
  BY DEF Parted, Shape
<1>d. DOMAIN s = D
  OBVIOUS
<1>i. idx + 1 \in 1..Len(h[a].kids)
  <2>1. Len(h[a].kids) = Len(h[a].keys) + 1 /\ Len(h[a].keys) \in Nat
    BY <1>2 DEF Fits, Node
  <2> QED
    BY <2>1
<1> HIDE DEF J
<1>3. /\ g[a] \in Node /\ ~g[a].leaf /\ Len(g[a].keys) = Len(h[a].keys) + 1
      /\ Fits(g[a], s, s[a])
      /\ \A j \in 1..Len(h[a].kids) : \E i \in 1..Len(g[a].kids) : g[a].kids[i] = h[a].kids[j]
      /\ \E i \in 1..Len(g[a].kids) : g[a].kids[i] = r
  <2>1. J[n].low < k /\ k < J[n].high
    BY ONLY <1>1
  <2>2. /\ s[n] \in SpanOf /\ s[n].low = J[n].low /\ s[n].high = k /\ s[n].height = J[n].height
        /\ s[r] \in SpanOf /\ s[r].low = k /\ s[r].high = J[n].high /\ s[r].height = J[n].height
    BY <1>1
  <2>3. \A b \in DOMAIN J : b # n /\ b # r => s[b] = J[b]
    BY <1>1
  <2>4. \A i \in 1..Len(h[a].kids) : h[a].kids[i] # r
    BY <1>2, <1>d DEF HasParent
  <2>5. DOMAIN s = DOMAIN J /\ r \in DOMAIN s /\ k \in Number /\ s[a] \in SpanOf /\ h[a] \in Node
    BY <1>1 DEF Number
  <2>6. Fits(h[a], J, s[a]) /\ n = h[a].kids[idx + 1]
    BY <1>2
  <2>7. ~h[a].leaf /\ idx \in 0..Len(h[a].keys) /\ r \in Address
        /\ g[a] = Inner(InsertAt(h[a].keys, idx + 1, k), InsertAt(h[a].kids, idx + 2, r))
    OBVIOUS
  <2>0. PICK x, y, p : x = h[a] /\ y = g[a] /\ p = s[a]
    OBVIOUS
  <2>8. Adopts(x, J, p, idx, k, r, n, s, y)
    BY ONLY <2>0, <2>1, <2>2, <2>3, <2>4, <2>5, <2>6, <2>7 DEF Adopts
  <2>9. y \in Node /\ Fits(y, s, p) /\ Len(y.keys) = Len(x.keys) + 1
    BY ONLY <2>8, InnerAdd
  <2>10. ~y.leaf
    BY ONLY <2>8, InnerAdd, Zenon
  <2>11. \A j \in 1..Len(x.kids) : \E i \in 1..Len(y.kids) : y.kids[i] = x.kids[j]
    BY ONLY <2>8, InnerAdd
  <2>12. \E i \in 1..Len(y.kids) : y.kids[i] = r
    BY ONLY <2>8, InnerAdd
  <2> QED
    BY ONLY <2>0, <2>9, <2>10, <2>11, <2>12
<1>4. ASSUME NEW b \in D, b # a PROVE Fits(h[b], s, s[b])
  <2>1. ASSUME ~h[b].leaf, NEW j \in 1..Len(h[b].kids) PROVE h[b].kids[j] \in D /\ h[b].kids[j] # n
    <3>1. h[b].kids[j] \in D
      BY <1>1, <1>2, <2>1 DEF Fits
    <3>2. SUFFICES ASSUME h[b].kids[j] = h[a].kids[idx + 1] PROVE FALSE
      BY <3>1
    <3>3. s[b].height = s[a].height /\ s[b].low < s[a].high /\ s[a].low < s[b].high
      <4>1. /\ h[b] \in Node /\ ~h[b].leaf /\ h[a] \in Node /\ ~h[a].leaf
            /\ s[b] \in SpanOf /\ s[a] \in SpanOf
            /\ Fits(h[b], J, s[b]) /\ Fits(h[a], J, s[a])
            /\ j \in 1..Len(h[b].kids) /\ idx + 1 \in 1..Len(h[a].kids)
        BY <1>2, <1>i, <2>1
      <4>2. PICK x, y, p, q, e : x = h[a] /\ y = h[b] /\ p = s[a] /\ q = s[b] /\ e = idx + 1
        OBVIOUS
      <4>3. /\ y \in Node /\ ~y.leaf /\ x \in Node /\ ~x.leaf /\ q \in SpanOf /\ p \in SpanOf
            /\ Fits(y, J, q) /\ Fits(x, J, p) /\ j \in 1..Len(y.kids) /\ e \in 1..Len(x.kids)
            /\ y.kids[j] = x.kids[e]
        BY ONLY <4>1, <4>2, <3>2
      <4>4. q.height = p.height /\ q.low < p.high /\ p.low < q.high
        BY ONLY <4>3, OneParent
      <4> QED
        BY ONLY <4>2, <4>4
    <3>4. \/ s[b].high <= s[a].low \/ s[a].high <= s[b].low
          \/ s[b].height = s[a].height => b = a
      <4>1. s[b].height <= s[a].height
        BY <3>3, SpanFields
      <4> QED
        BY <1>2, <1>d, <4>1 DEF Nested
    <3>5. s[a].low \in Int /\ s[a].high \in Int /\ s[b].low \in Int /\ s[b].high \in Int
      BY SpanFields
    <3> QED
      BY ONLY <1>4, <3>3, <3>4, <3>5
  <2>2. ~h[b].leaf => \A j \in 1..Len(h[b].kids) : h[b].kids[j] \in DOMAIN s /\ s[h[b].kids[j]] = J[h[b].kids[j]]
    BY <1>1, <1>d, <2>1
  <2>3. Fits(h[b], J, s[b])
    BY <1>2
  <2> QED
    BY ONLY <2>2, <2>3, FitsAgree
<1>5. Shape(g, s, s)
  BY <1>3, <1>4 DEF Shape
<1>6. rt # n
  <2>1. s[n].height = s[a].height - 1
    BY <1>i, ParentHeight
  <2>2. s[a].height <= s[rt].height
    BY <1>2, <1>d DEF Rooted
  <2>3. s[a].height \in Nat /\ s[n].height \in Nat
    BY <1>1, SpanFields
  <2> QED
    BY ONLY <2>1, <2>2, <2>3
<1>7. Rooted(rt, s, s)
  BY <1>1, <1>2, <1>6 DEF Rooted
<1>8. ASSUME NEW b \in D \ {rt} PROVE HasParent(g, s, b)
  <2>1. CASE b = r
    BY <1>3, <1>d, <2>1 DEF HasParent
  <2>2. CASE b # r
    <3>1. PICK c \in D : ~h[c].leaf /\ \E i \in 1..Len(h[c].kids) : h[c].kids[i] = b
      BY <1>2, <1>d, <2>2 DEF HasParent
    <3>2. CASE c # a
      BY <1>d, <3>1, <3>2 DEF HasParent
    <3>3. CASE c = a
      BY <1>3, <1>d, <3>1, <3>3 DEF HasParent
    <3> QED
      BY <3>2, <3>3
  <2> QED
    BY <2>1, <2>2
<1> QED
  BY <1>2, <1>3, <1>5, <1>7, <1>8 DEF Sound

\* The ranges with a new root above rt.
GrownOf(s, rt, new) ==
  [b \in DOMAIN s \cup {new} |-> IF b = new THEN Whole(s[rt].height + 1) ELSE s[b]]

\* A new root takes both halves of the old one.
LEMMA NewRoot ==
  ASSUME NEW D, NEW s, NEW h, NEW g, NEW rt, NEW r, NEW k, NEW new, NEW t,
         s \in [D -> SpanOf], rt \in Address, r \in Address, Parted(h, rt, s, rt, r, k),
         \A b \in D : h[b] \in Node, new \notin D, new # NULL, g[new] = Inner(<<k>>, <<rt, r>>),
         \A b \in D : g[b] = h[b], t = GrownOf(s, rt, new)
  PROVE  Sound(g, new, t) /\ g[new] \in Node /\ t \in [More(D, new) -> SpanOf]
<1> USE DEF More
<1>g. t = [b \in D \cup {new} |-> IF b = new THEN Whole(s[rt].height + 1) ELSE s[b]]
  BY DEF GrownOf
<1> USE <1>g
<1> DEFINE J == JointOf(s, rt, r)  W == Whole(s[rt].height + 1)
<1>1. /\ r \in D /\ r # rt /\ rt \in D /\ rt # NULL
      /\ \A x \in D : s[x].low < s[x].high
      /\ DOMAIN J = D /\ \A x \in D : x # rt => J[x] = s[x]
      /\ J[rt] \in SpanOf /\ J[rt].low = s[rt].low /\ J[rt].high = s[r].high
      /\ s[rt].high = k /\ s[r].low = k /\ s[r].height = s[rt].height
      /\ s[rt].low < k /\ k < s[r].high /\ k \in Int /\ s[rt].height \in Nat
  BY ONLY s \in [D -> SpanOf], Parted(h, rt, s, rt, r, k), PartedFacts
<1>2. /\ \A b \in D : Fits(h[b], J, s[b])
      /\ Nested(s) /\ Rooted(rt, s, J)
      /\ \A b \in D \ {rt, r} : HasParent(h, s, b)
  BY DEF Parted, Shape
<1>d. DOMAIN s = D
  OBVIOUS
<1>i. IntMax \in Nat
  BY IntMaxAssumption DEF IntMaxAssumption
<1>t. DOMAIN t = D \cup {new} /\ t[new] = W /\ \A b \in D : t[b] = s[b]
  OBVIOUS
<1>w. W = [low |-> -IntMax - 1, high |-> IntMax + 1, height |-> s[rt].height + 1] /\ W \in SpanOf
  BY <1>1, <1>i DEF Whole, SpanOf
<1>3. /\ s[rt].low = -IntMax - 1 /\ s[r].high = IntMax + 1
  <2>1. J[rt] = Whole(s[rt].height)
    BY <1>1, <1>2 DEF Rooted
  <2>2. J[rt].low = -IntMax - 1 /\ J[rt].high = IntMax + 1
    BY <2>1 DEF Whole
  <2> QED
    BY ONLY <1>1, <2>2
<1>m. /\ g[new] = [leaf |-> FALSE, keys |-> <<k>>, vals |-> <<>>, kids |-> <<rt, r>>]
      /\ g[new] \in Node /\ g[new].leaf = FALSE
      /\ Len(g[new].keys) = 1 /\ g[new].keys[1] = k /\ g[new].keys = <<k>>
      /\ Len(g[new].kids) = 2 /\ g[new].kids[1] = rt /\ g[new].kids[2] = r
  <2>1. g[new] = [leaf |-> FALSE, keys |-> <<k>>, vals |-> <<>>, kids |-> <<rt, r>>]
    BY DEF Inner
  <2>2. <<k>> \in Seq(Number)
    BY <1>1 DEF Number
  <2>3. <<rt, r>> \in Seq(Address) /\ Len(<<rt, r>>) = 2
    OBVIOUS
  <2>4. Len(<<k>>) = 1 /\ <<k>>[1] = k /\ <<rt, r>>[1] = rt /\ <<rt, r>>[2] = r
    OBVIOUS
  <2> QED
    BY ONLY <2>1, <2>2, <2>3, <2>4, EmptySeq DEF Node
<1>4. Fits(g[new], t, W)
  <2>0. W.low = -IntMax - 1 /\ W.high = IntMax + 1 /\ W.height = s[rt].height + 1
    BY ONLY <1>w
  <2>1. Ascends(g[new].keys) /\ Within(g[new].keys, W.low, W.high)
    BY ONLY <1>1, <1>3, <1>m, <1>i, <2>0 DEF Ascends, Within
  <2>2. W.low < W.high /\ W.height # 0 /\ W.low < g[new].keys[1]
    BY ONLY <1>1, <1>3, <1>m, <1>i, <2>0
  <2>3. ASSUME NEW i \in 1..2
        PROVE  /\ g[new].kids[i] \in DOMAIN t
               /\ t[g[new].kids[i]] = [low |-> SegLow(g[new], W, i), high |-> SegHigh(g[new], W, i),
                                       height |-> W.height - 1]
    <3>1. /\ s[rt] = [low |-> s[rt].low, high |-> s[rt].high, height |-> s[rt].height]
          /\ s[r] = [low |-> s[r].low, high |-> s[r].high, height |-> s[r].height]
      BY <1>1, SpanFields
    <3>2. /\ s[rt] = [low |-> -IntMax - 1, high |-> k, height |-> s[rt].height]
          /\ s[r] = [low |-> k, high |-> IntMax + 1, height |-> s[rt].height]
      BY ONLY <1>1, <1>3, <3>1
    <3>3. W.height - 1 = s[rt].height
      BY ONLY <1>1, <2>0
    <3>4. CASE i = 1
      <4>1. SegLow(g[new], W, i) = -IntMax - 1 /\ SegHigh(g[new], W, i) = k
        BY ONLY <1>m, <2>0, <3>4 DEF SegLow, SegHigh
      <4>2. t[g[new].kids[i]] = s[rt] /\ g[new].kids[i] \in DOMAIN t
        BY <1>1, <1>t, <1>m, <3>4
      <4> QED
        BY ONLY <3>2, <3>3, <4>1, <4>2
    <3>5. CASE i = 2
      <4>1. SegLow(g[new], W, i) = k /\ SegHigh(g[new], W, i) = IntMax + 1
        BY ONLY <1>m, <2>0, <3>5 DEF SegLow, SegHigh
      <4>2. t[g[new].kids[i]] = s[r] /\ g[new].kids[i] \in DOMAIN t
        BY <1>1, <1>t, <1>m, <3>5
      <4> QED
        BY ONLY <3>2, <3>3, <4>1, <4>2
    <3> QED
      BY <3>4, <3>5
  <2> HIDE DEF W
  <2>4. \A i \in 1..Len(g[new].kids) :
          /\ g[new].kids[i] \in DOMAIN t
          /\ t[g[new].kids[i]] = [low |-> SegLow(g[new], W, i), high |-> SegHigh(g[new], W, i),
                                  height |-> W.height - 1]
    <3>1. Len(g[new].kids) = 2
      BY <1>m
    <3> QED
      BY ONLY <2>3, <3>1
  <2>5. Len(g[new].keys) > 0 /\ Len(g[new].kids) = Len(g[new].keys) + 1 /\ ~g[new].leaf
    BY ONLY <1>m
  <2> QED
    BY ONLY <2>1, <2>2, <2>4, <2>5 DEF Fits
<1> HIDE DEF J, W
<1>5. ASSUME NEW b \in D PROVE Fits(h[b], t, s[b])
  <2>1. ASSUME ~h[b].leaf, NEW j \in 1..Len(h[b].kids)
        PROVE  h[b].kids[j] \in D /\ t[h[b].kids[j]] = J[h[b].kids[j]]
    <3>1. h[b].kids[j] \in D /\ s[h[b].kids[j]].height = s[b].height - 1
      BY <2>1, ParentHeight
    <3>2. s[b].height <= s[rt].height /\ s[b].height \in Nat /\ s[rt].height \in Nat
      BY <1>1, <1>2, <1>d, SpanFields DEF Rooted
    <3>3. h[b].kids[j] # rt
      BY ONLY <3>1, <3>2
    <3> QED
      BY <1>1, <1>t, <3>1, <3>3
  <2>2. ~h[b].leaf => \A j \in 1..Len(h[b].kids) : h[b].kids[j] \in DOMAIN t /\ t[h[b].kids[j]] = J[h[b].kids[j]]
    BY <1>t, <2>1
  <2>3. Fits(h[b], J, s[b])
    BY <1>2
  <2> QED
    BY ONLY <2>2, <2>3, FitsAgree
<1>6. Shape(g, t, t)
  BY <1>t, <1>4, <1>5 DEF Shape
<1>b. \A x \in D : W.low <= s[x].low /\ s[x].high <= W.high /\ s[x].height < W.height
  <2> SUFFICES ASSUME NEW x \in D PROVE W.low <= s[x].low /\ s[x].high <= W.high /\ s[x].height < W.height
    OBVIOUS
  <2>1. /\ s[x].height <= s[rt].height /\ -IntMax - 1 <= s[x].low /\ s[x].high <= IntMax + 1
    BY <1>2, <1>d DEF Rooted
  <2>2. s[x].height \in Nat /\ s[rt].height \in Nat
    BY <1>1, SpanFields
  <2>3. W.low = -IntMax - 1 /\ W.high = IntMax + 1 /\ W.height = s[rt].height + 1
    BY ONLY <1>w
  <2>4. s[x].height < W.height
    BY ONLY <2>1, <2>2, <2>3
  <2> QED
    BY ONLY <2>1, <2>3, <2>4
<1>7. Nested(t)
  <2>1. t = [b \in D \cup {new} |-> IF b = new THEN W ELSE s[b]]
    BY DEF W
  <2>2. s \in [D -> SpanOf] /\ Nested(s) /\ new \notin D /\ W \in SpanOf
    BY <1>2, <1>w
  <2>3. PICK p : p = W
    OBVIOUS
  <2>4. /\ p \in SpanOf
        /\ \A x \in D : p.low <= s[x].low /\ s[x].high <= p.high /\ s[x].height < p.height
        /\ t = [b \in D \cup {new} |-> IF b = new THEN p ELSE s[b]]
    BY ONLY <1>b, <2>1, <2>2, <2>3
  <2> QED
    BY ONLY <2>2, <2>4, NestedGrown
<1>8. Rooted(new, t, t)
  <2>1. t[new] = Whole(t[new].height)
    <3>1. t[new].height = s[rt].height + 1
      BY ONLY <1>t, <1>w
    <3> QED
      BY ONLY <1>t, <3>1 DEF W
  <2>2. ASSUME NEW b \in D \cup {new}
        PROVE  /\ t[b].height <= t[new].height
               /\ -IntMax - 1 <= t[b].low /\ t[b].high <= IntMax + 1
    <3>1. CASE b = new
      <4>1. s[rt].height \in Nat
        BY <1>1
      <4> QED
        BY ONLY <1>t, <1>w, <3>1, <1>i, <4>1
    <3>2. CASE b \in D
      <4>1. W.low <= s[b].low /\ s[b].high <= W.high /\ s[b].height < W.height
        BY <1>b, <3>2
      <4>2. W.low = -IntMax - 1 /\ W.high = IntMax + 1 /\ W.height \in Nat /\ s[b].height \in Nat
        BY <1>w, <3>2, SpanFields
      <4>3. t[b] = s[b] /\ t[new] = W
        BY <1>t, <3>2
      <4> QED
        BY ONLY <4>1, <4>2, <4>3
    <3> QED
      BY <3>1, <3>2
  <2> QED
    BY <1>t, <2>1, <2>2 DEF Rooted
<1>9. ASSUME NEW b \in D PROVE HasParent(g, t, b)
  <2>1. CASE b = rt \/ b = r
    <3>1. 1 \in 1..Len(g[new].kids) /\ 2 \in 1..Len(g[new].kids) /\ ~g[new].leaf
      BY ONLY <1>m
    <3> QED
      BY <1>m, <1>t, <2>1, <3>1 DEF HasParent
  <2>2. CASE b # rt /\ b # r
    <3>1. PICK c \in D : ~h[c].leaf /\ \E i \in 1..Len(h[c].kids) : h[c].kids[i] = b
      BY <1>2, <1>d, <2>2 DEF HasParent
    <3>2. g[c] = h[c] /\ c \in DOMAIN t
      BY <1>t
    <3> QED
      BY <3>1, <3>2 DEF HasParent
  <2> QED
    BY <2>1, <2>2
<1>10. t \in [D \cup {new} -> SpanOf]
  <2>1. t = [b \in D \cup {new} |-> t[b]]
    OBVIOUS
  <2>2. ASSUME NEW b \in D \cup {new} PROVE t[b] \in SpanOf
    BY <1>t, <1>w
  <2> QED
    BY ONLY <2>1, <2>2
<1> QED
  BY <1>t, <1>m, <1>6, <1>7, <1>8, <1>9, <1>10 DEF Sound

\* A right half without a parent can be lost: its parent, or the lack of one, is
\* that of the left half.
LEMMA PartedIsDetached ==
  ASSUME NEW D, NEW s \in [D -> SpanOf], NEW h, NEW rt, NEW n, NEW r, NEW k,
         Parted(h, rt, s, n, r, k), \A b \in D : h[b] \in Node
  PROVE  Detached(s, n, r)
<1>1. /\ n \in D /\ r \in D /\ n # r
      /\ s[n].high = k /\ s[r].low = k /\ s[r].height = s[n].height
      /\ s[n].low \in Int /\ s[r].high \in Int /\ s[n].height \in Nat /\ k \in Int
      /\ s[n].low < k /\ k < s[r].high
  BY ONLY s \in [D -> SpanOf], Parted(h, rt, s, n, r, k), PartedFacts
<1>d. DOMAIN s = D
  OBVIOUS
<1>2. ASSUME NEW y \in D, s[y].height > s[r].height
      PROVE  \/ s[y].low <= s[n].low /\ s[r].high <= s[y].high
             \/ s[y].high <= s[n].low
             \/ s[r].high <= s[y].low
  <2>0. s[y].low \in Int /\ s[y].high \in Int /\ s[y].height \in Nat
    BY SpanFields
  <2>1. n # rt
    <3>1. s[y].height <= s[rt].height
      BY <1>d DEF Parted, Rooted
    <3> QED
      BY ONLY <1>1, <1>2, <2>0, <3>1
  <2>2. PICK a \in D : ~h[a].leaf /\ \E i \in 1..Len(h[a].kids) : h[a].kids[i] = n
    BY <1>1, <1>d, <2>1 DEF Parted, HasParent
  <2>3. PICK i \in 1..Len(h[a].kids) : h[a].kids[i] = n
    BY <2>2
  <2>4. s[n].height = s[a].height - 1 /\ s[a].low <= s[n].low /\ s[r].high <= s[a].high
    BY <2>2, <2>3, ParentHeight
  <2>5. s[a].low \in Int /\ s[a].high \in Int /\ s[a].height \in Nat
    BY SpanFields
  <2>6. s[a].height <= s[y].height =>
          \/ s[a].high <= s[y].low
          \/ s[y].high <= s[a].low
          \/ s[y].low <= s[a].low /\ s[a].high <= s[y].high
    BY <1>d DEF Parted, Nested
  <2>7. s[a].height <= s[y].height
    BY ONLY <1>1, <1>2, <2>0, <2>4, <2>5
  <2>8. CASE s[a].high <= s[y].low
    BY ONLY <1>1, <2>0, <2>4, <2>5, <2>8
  <2>9. CASE s[y].high <= s[a].low
    BY ONLY <1>1, <2>0, <2>4, <2>5, <2>9
  <2>10. CASE s[y].low <= s[a].low /\ s[a].high <= s[y].high
    <3>1. PICK al, ah, nl, rh, yl, yh :
            /\ al = s[a].low /\ ah = s[a].high /\ nl = s[n].low
            /\ rh = s[r].high /\ yl = s[y].low /\ yh = s[y].high
      OBVIOUS
    <3>2. /\ al \in Int /\ ah \in Int /\ nl \in Int /\ rh \in Int /\ yl \in Int /\ yh \in Int
          /\ yl <= al /\ al <= nl /\ rh <= ah /\ ah <= yh
      BY ONLY <1>1, <2>0, <2>4, <2>5, <2>10, <3>1
    <3>3. yl <= nl /\ rh <= yh
      BY ONLY <3>2
    <3> QED
      BY ONLY <3>1, <3>3
  <2> QED
    BY <2>6, <2>7, <2>8, <2>9, <2>10
<1> QED
  BY <1>1, <1>d, <1>2 DEF Detached

\* The tree without a right half that was never linked.
LEMMA LoseHalf ==
  ASSUME NEW D, NEW s, NEW h, NEW rt, NEW n, NEW r, NEW k, NEW t,
         s \in [D -> SpanOf], Parted(h, rt, s, n, r, k), \A b \in D : h[b] \in Node,
         t = ClosedOf(s, r)
  PROVE  /\ Sound(h, rt, t) /\ DOMAIN t = Kept(s, r) /\ t \in [Kept(s, r) -> SpanOf]
         /\ \A x \in Kept(s, r) : x \in D /\ t[x].height = s[x].height
         /\ \A x \in D : s[x].height > s[n].height => x \in Kept(s, r)
<1> DEFINE J == JointOf(s, n, r)  R == D \ Gone(s, r)
<1>1. /\ n \in D /\ r \in D /\ n # r /\ r # rt /\ rt \in D /\ rt # NULL
      /\ \A x \in D : s[x].low < s[x].high
      /\ DOMAIN J = D /\ \A x \in D : x # n => J[x] = s[x]
      /\ J[n] \in SpanOf /\ J[n].low = s[n].low /\ J[n].high = s[r].high /\ J[n].height = s[n].height
      /\ s[n].high = k /\ s[r].low = k /\ s[r].height = s[n].height
      /\ s[n].low \in Int /\ s[r].high \in Int /\ s[n].height \in Nat /\ k \in Int
      /\ s[n].low < k /\ k < s[r].high
  BY ONLY s \in [D -> SpanOf], Parted(h, rt, s, n, r, k), PartedFacts
<1>2. /\ \A b \in D : Fits(h[b], J, s[b])
      /\ Nested(s) /\ Rooted(rt, s, J)
      /\ \A b \in D \ {rt, r} : HasParent(h, s, b)
      /\ ~HasParent(h, s, r)
  BY DEF Parted, Shape
<1>d. DOMAIN s = D
  OBVIOUS
<1>3. Detached(s, n, r)
  BY PartedIsDetached
<1>t. /\ t = [b \in R |-> IF s[b].high = s[r].low THEN [s[b] EXCEPT !.high = s[r].high] ELSE s[b]]
  BY DEF ClosedOf
<1>4. DOMAIN t = R
  BY <1>t
<1>5. /\ Nested(t)
      /\ \A x \in R :
           /\ t[x].low = s[x].low /\ t[x].height = s[x].height
           /\ t[x].high = IF s[x].high = s[r].low THEN s[r].high ELSE s[x].high
           /\ t[x] \in SpanOf
  BY <1>1, <1>2, <1>3, NestedClosed
<1>6. t \in [R -> SpanOf]
  <2>1. t = [b \in R |-> t[b]]
    BY <1>t
  <2> QED
    BY <1>5, <2>1
<1>7. ASSUME NEW x \in R
      PROVE  /\ Fits(h[x], t, t[x])
             /\ ~h[x].leaf => \A i \in 1..Len(h[x].kids) : h[x].kids[i] \in R
  <2>1. ~h[x].leaf => \A i \in 1..Len(h[x].kids) : h[x].kids[i] # r
    BY <1>2, <1>d DEF HasParent
  <2>2. Fits(h[x], JointOf(s, n, r), s[x]) /\ h[x] \in Node /\ x \in D \ Gone(s, r)
    BY <1>2
  <2>3. n # r /\ \A y \in D : s[y].low < s[y].high
    BY <1>1
  <2>4. Nested(s)
    BY <1>2
  <2> QED
    BY <1>3, <2>1, <2>2, <2>3, <2>4, FitsClosed
<1>r. rt \in R
  <2>1. /\ rt \in Gone(s, r) /\ s[rt].height = s[r].height => rt = r
        /\ rt \in Gone(s, r) => s[rt].height <= s[r].height
    BY <1>1, <1>2, <1>3, Beside
  <2>2. s[r].height <= s[rt].height
    BY <1>1, <1>2, <1>d DEF Rooted
  <2>3. s[r].height \in Nat /\ s[rt].height \in Nat
    BY <1>1, SpanFields
  <2> QED
    BY <1>1, <2>1, <2>2, <2>3
<1>8. t[rt] = Whole(t[rt].height)
  <2>1. J[rt] = Whole(s[rt].height)
    BY <1>1, <1>2 DEF Rooted
  <2>2. J[rt].low = -IntMax - 1 /\ J[rt].high = IntMax + 1
    BY <2>1 DEF Whole
  <2>3. t[rt].low = -IntMax - 1 /\ t[rt].high = IntMax + 1
    <3>0. /\ t[rt].low = s[rt].low
          /\ t[rt].high = IF s[rt].high = s[r].low THEN s[r].high ELSE s[rt].high
      BY <1>5, <1>r
    <3>1. CASE rt = n
      BY ONLY <1>1, <2>2, <3>0, <3>1
    <3>2. CASE rt # n
      <4>1. J[rt] = s[rt]
        BY <1>1, <3>2
      <4>2. s[r].high <= IntMax + 1
        BY <1>1, <1>2, <1>d DEF Rooted
      <4>3. IntMax \in Nat
        BY IntMaxAssumption DEF IntMaxAssumption
      <4> QED
        BY ONLY <1>1, <2>2, <3>0, <4>1, <4>2, <4>3
    <3> QED
      BY <3>1, <3>2
  <2>4. t[rt] = [low |-> t[rt].low, high |-> t[rt].high, height |-> t[rt].height]
    BY <1>5, <1>r, SpanFields
  <2> QED
    BY ONLY <2>3, <2>4 DEF Whole
<1>9. ASSUME NEW b \in R
      PROVE  /\ t[b].height <= t[rt].height
             /\ -IntMax - 1 <= t[b].low /\ t[b].high <= IntMax + 1
  <2>1. /\ s[b].height <= s[rt].height /\ -IntMax - 1 <= s[b].low /\ s[b].high <= IntMax + 1
        /\ s[r].high <= IntMax + 1
    BY <1>1, <1>2, <1>d DEF Rooted
  <2>2. /\ t[b].low = s[b].low /\ t[b].height = s[b].height
        /\ t[b].high = IF s[b].high = s[r].low THEN s[r].high ELSE s[b].high
        /\ t[rt].height = s[rt].height
    BY <1>5, <1>r
  <2> QED
    BY ONLY <2>1, <2>2
<1>10. ASSUME NEW b \in R \ {rt} PROVE HasParent(h, t, b)
  <2>0. b # r
    <3>1. r \in Gone(s, r)
      BY <1>1, SpanFields DEF Gone
    <3> QED
      BY <3>1
  <2>1. PICK c \in D : ~h[c].leaf /\ \E i \in 1..Len(h[c].kids) : h[c].kids[i] = b
    BY <1>2, <1>d, <2>0 DEF HasParent
  <2>2. PICK i \in 1..Len(h[c].kids) : h[c].kids[i] = b
    BY <2>1
  <2>3. /\ s[b].height = s[c].height - 1
        /\ b = n => s[c].low <= s[n].low
        /\ b # n => s[c].low <= s[b].low /\ s[b].high <= s[c].high
    BY <2>1, <2>2, ParentHeight
  <2>4. c \notin Gone(s, r)
    <3> SUFFICES ASSUME c \in Gone(s, r) PROVE FALSE
      OBVIOUS
    <3>1. s[c].low >= s[r].low /\ s[c].high <= s[r].high /\ s[c].height <= s[r].height
      BY DEF Gone
    <3>2. ~(s[b].low >= s[r].low /\ s[b].high <= s[r].high /\ s[b].height <= s[r].height)
      BY DEF Gone
    <3>3. /\ s[b].low \in Int /\ s[b].high \in Int /\ s[b].height \in Nat
          /\ s[c].low \in Int /\ s[c].high \in Int /\ s[c].height \in Nat
      BY SpanFields
    <3> HIDE DEF J, R
    <3>4. CASE b = n
      <4>1. s[c].low <= s[n].low /\ s[n].low < k /\ k <= s[c].low
        BY ONLY <1>1, <2>3, <3>1, <3>4
      <4>2. s[n].low \in Int /\ k \in Int
        BY ONLY <1>1
      <4> QED
        BY ONLY <3>3, <4>1, <4>2
    <3>5. CASE b # n
      <4>1. /\ s[c].low <= s[b].low /\ s[b].high <= s[c].high
            /\ s[b].height = s[c].height - 1
        BY ONLY <2>3, <3>5
      <4>2. s[r].low \in Int /\ s[r].high \in Int /\ s[r].height \in Nat
        BY ONLY <1>1
      <4>3. PICK bl, bh, bt, cl, ch, ct, rl, rh, ht :
              /\ bl = s[b].low /\ bh = s[b].high /\ bt = s[b].height
              /\ cl = s[c].low /\ ch = s[c].high /\ ct = s[c].height
              /\ rl = s[r].low /\ rh = s[r].high /\ ht = s[r].height
        OBVIOUS
      <4>4. /\ bl \in Int /\ bh \in Int /\ cl \in Int /\ ch \in Int /\ rl \in Int /\ rh \in Int
            /\ ct \in Nat /\ ht \in Nat
            /\ cl <= bl /\ bh <= ch /\ bt = ct - 1 /\ rl <= cl /\ ch <= rh /\ ct <= ht
        BY ONLY <3>1, <3>3, <4>1, <4>2, <4>3
      <4>5. rl <= bl /\ bh <= rh /\ bt <= ht
        BY ONLY <4>4
      <4> QED
        BY ONLY <3>2, <4>3, <4>5
    <3> QED
      BY <3>4, <3>5
  <2> QED
    BY <1>4, <2>1, <2>4 DEF HasParent
<1>11. Shape(h, t, t)
  BY <1>4, <1>7 DEF Shape
<1>12. Rooted(rt, t, t)
  BY <1>1, <1>4, <1>r, <1>8, <1>9 DEF Rooted
<1>k. R = Kept(s, r)
  BY <1>d DEF Kept
<1>u. \A x \in D : s[x].height > s[n].height => x \in R
  <2> SUFFICES ASSUME NEW x \in D, s[x].height > s[n].height, x \in Gone(s, r) PROVE FALSE
    OBVIOUS
  <2>1. s[x].height <= s[r].height
    BY DEF Gone
  <2>2. s[x].height \in Nat /\ s[n].height \in Nat /\ s[r].height = s[n].height
    BY <1>1, SpanFields
  <2> QED
    BY <2>1, <2>2
<1> QED
  BY <1>k, <1>u, <1>4, <1>5, <1>6, <1>10, <1>11, <1>12 DEF Sound

-----------------------------------------------------------------------------
(* Activations.                                                            *)

\* An activation of node_insert for a child.
LEMMA PathDown ==
  ASSUME NEW D, NEW s \in [D -> SpanOf], NEW h, NEW rt, NEW fr \in Seq(Frame), NEW nd \in Nat,
         Path(h, s, rt, fr, nd), nd \in D, ~h[nd].leaf,
         NEW idx \in Nat, idx \in 0..Len(h[nd].keys),
         NEW c, c = h[nd].kids[idx + 1], s[c].height = s[nd].height - 1, s[c].height \in Nat,
         NEW fr2, fr2 = Append(fr, [node |-> nd, idx |-> idx])
  PROVE  fr2 \in Seq(Frame) /\ Path(h, s, rt, fr2, c)
<1> DEFINE f == [node |-> nd, idx |-> idx]  N == Len(fr)
<1>1. f \in Frame /\ f.node = nd /\ f.idx = idx
  BY DEF Frame
<1>2. /\ fr2 \in Seq(Frame) /\ Len(fr2) = N + 1 /\ fr2[N + 1] = f
      /\ \A j \in 1..N : fr2[j] = fr[j]
  <2> HIDE DEF f
  <2> QED
    BY <1>1, AppendProperties DEF f
<1>3. N \in Nat /\ s[nd].height \in Nat
  BY SpanFields
<1>c. s[c].height \in Nat /\ s[c].height = s[nd].height - 1
  OBVIOUS
<1> HIDE DEF f, N
<1>4. fr2 # <<>> /\ (IF fr = <<>> THEN nd ELSE fr[1].node) = rt /\ (fr = <<>> <=> N = 0)
  <2>1. fr = <<>> <=> N = 0
    BY DEF N
  <2>2. fr2 # <<>>
    BY ONLY <1>2, <1>3, EmptySeq
  <2> QED
    BY <2>1, <2>2 DEF Path
<1>5. fr2[1].node = rt
  <2>1. CASE N = 0
    BY ONLY <1>1, <1>2, <1>4, <2>1
  <2>2. CASE N # 0
    <3>1. fr2[1] = fr[1]
      BY ONLY <1>2, <1>3, <2>2
    <3> QED
      BY ONLY <1>4, <2>2, <3>1
  <2> QED
    BY <2>1, <2>2
<1>6. ASSUME NEW j \in 1..N + 1
      PROVE  /\ fr2[j].node \in D /\ ~h[fr2[j].node].leaf
             /\ fr2[j].idx \in 0..Len(h[fr2[j].node].keys)
             /\ s[fr2[j].node].height = s[c].height + (N + 1) + 1 - j
             /\ h[fr2[j].node].kids[fr2[j].idx + 1] = IF j = N + 1 THEN c ELSE fr2[j + 1].node
  <2>1. CASE j = N + 1
    <3>1. fr2[j].node = nd /\ fr2[j].idx = idx
      BY ONLY <1>1, <1>2, <2>1
    <3>2. s[nd].height = s[c].height + (N + 1) + 1 - j
      BY ONLY <1>3, <1>c, <2>1
    <3> QED
      BY <2>1, <3>1, <3>2
  <2>2. CASE j # N + 1
    <3>1. j \in 1..N /\ fr2[j] = fr[j]
      BY ONLY <1>2, <1>3, <2>2, <1>6
    <3>2. /\ fr[j].node \in D /\ ~h[fr[j].node].leaf
          /\ fr[j].idx \in 0..Len(h[fr[j].node].keys)
          /\ s[fr[j].node].height = s[nd].height + N + 1 - j
          /\ h[fr[j].node].kids[fr[j].idx + 1] = IF j = N THEN nd ELSE fr[j + 1].node
      BY <3>1 DEF Path, N
    <3>3. s[fr[j].node].height = s[c].height + (N + 1) + 1 - j
      <4>1. s[fr[j].node].height = s[nd].height + N + 1 - j
        BY ONLY <3>2
      <4>2. j \in Nat
        BY ONLY <1>3, <3>1
      <4>3. PICK x, y, z : x = s[fr[j].node].height /\ y = s[nd].height /\ z = s[c].height
        OBVIOUS
      <4>4. x = y + N + 1 - j /\ z = y - 1 /\ y \in Nat /\ z \in Nat /\ N \in Nat
        BY ONLY <1>3, <1>c, <4>1, <4>3
      <4>5. x = z + (N + 1) + 1 - j
        BY ONLY <4>2, <4>4
      <4> QED
        BY ONLY <4>3, <4>5
    <3>4. fr2[j + 1].node = IF j = N THEN nd ELSE fr[j + 1].node
      <4>1. CASE j = N
        BY ONLY <1>1, <1>2, <4>1
      <4>2. CASE j # N
        <5>1. j + 1 \in 1..N
          BY ONLY <1>3, <3>1, <4>2
        <5> QED
          BY ONLY <1>2, <4>2, <5>1
      <4> QED
        BY <4>1, <4>2
    <3> QED
      BY ONLY <2>2, <3>1, <3>2, <3>3, <3>4
  <2> QED
    BY <2>1, <2>2
<1>7. DOMAIN s = D
  OBVIOUS
<1> QED
  BY ONLY <1>2, <1>4, <1>5, <1>6, <1>7 DEF Path

\* Nodes above the one that the call is at are not changed under its activations.
LEMMA PathSame ==
  ASSUME NEW D, NEW s \in [D -> SpanOf], NEW h, NEW rt, NEW fr \in Seq(Frame), NEW nd \in D,
         Path(h, s, rt, fr, nd), NEW g, NEW t, t[nd].height = s[nd].height,
         \A b \in D : s[b].height > s[nd].height =>
           b \in DOMAIN t /\ g[b] = h[b] /\ t[b].height = s[b].height
  PROVE  Path(g, t, rt, fr, nd)
<1>1. Len(fr) \in Nat /\ s[nd].height \in Nat
  BY SpanFields
<1>2. ASSUME NEW j \in 1..Len(fr)
      PROVE  /\ fr[j].node \in DOMAIN t /\ g[fr[j].node] = h[fr[j].node]
             /\ t[fr[j].node].height = s[fr[j].node].height
  <2>1. fr[j].node \in D /\ s[fr[j].node].height = s[nd].height + Len(fr) + 1 - j
    BY DEF Path
  <2>2. s[fr[j].node].height > s[nd].height
    BY ONLY <1>1, <1>2, <2>1
  <2> QED
    BY <2>1, <2>2
<1> QED
  BY <1>2 DEF Path

\* The return to the caller.
LEMMA PathUp ==
  ASSUME NEW D, NEW s \in [D -> SpanOf], NEW h, NEW rt, NEW fr \in Seq(Frame), NEW nd \in D,
         Path(h, s, rt, fr, nd), fr # <<>>
  PROVE  /\ Front(fr) \in Seq(Frame) /\ Last(fr) \in Frame
         /\ Path(h, s, rt, Front(fr), Last(fr).node)
         /\ Last(fr).node \in D /\ ~h[Last(fr).node].leaf
         /\ Last(fr).idx \in 0..Len(h[Last(fr).node].keys)
         /\ h[Last(fr).node].kids[Last(fr).idx + 1] = nd
         /\ s[Last(fr).node].height = s[nd].height + 1
<1> DEFINE N == Len(fr)  f == fr[N]  q == SubSeq(fr, 1, N - 1)
<1>1. N \in Nat /\ N # 0 /\ s[nd].height \in Nat
  BY SpanFields, EmptySeq
<1>2. Front(fr) = q /\ Last(fr) = f
  BY DEF Front, Last
<1>3. f \in Frame
  BY <1>1, ElementOfSeq
<1>4. q \in Seq(Frame) /\ Len(q) = N - 1 /\ \A j \in 1..N - 1 : q[j] = fr[j]
  <2>1. /\ 1 \in 1..Len(fr) + 1 /\ N - 1 \in 0..Len(fr) /\ 1 <= (N - 1) + 1
        /\ (N - 1) - 1 + 1 = N - 1 /\ \A i \in 1..N - 1 : 1 + i - 1 = i
    BY <1>1
  <2>2. /\ SubSeq(fr, 1, N - 1) \in Seq(Frame) /\ Len(SubSeq(fr, 1, N - 1)) = (N - 1) - 1 + 1
        /\ \A i \in 1..(N - 1) - 1 + 1 : SubSeq(fr, 1, N - 1)[i] = fr[1 + i - 1]
    BY <2>1, Part
  <2> QED
    BY ONLY <2>1, <2>2 DEF q
<1>5. \A j \in 1..N :
        /\ fr[j].node \in D /\ ~h[fr[j].node].leaf
        /\ fr[j].idx \in 0..Len(h[fr[j].node].keys)
        /\ s[fr[j].node].height = s[nd].height + N + 1 - j
        /\ h[fr[j].node].kids[fr[j].idx + 1] = IF j = N THEN nd ELSE fr[j + 1].node
  BY DEF Path
<1>6. fr[1].node = rt
  BY DEF Path
<1> HIDE DEF q, N
<1>n. N \in 1..N
  BY ONLY <1>1
<1>7. /\ f.node \in D /\ ~h[f.node].leaf
      /\ f.idx \in 0..Len(h[f.node].keys) /\ h[f.node].kids[f.idx + 1] = nd
      /\ s[f.node].height = s[nd].height + N + 1 - N
  BY ONLY <1>5, <1>n
<1>8. s[f.node].height = s[nd].height + 1
  BY ONLY <1>1, <1>7
<1>9. (IF q = <<>> THEN f.node ELSE q[1].node) = rt
  <2>1. CASE N = 1
    <3>1. q = <<>>
      BY ONLY <1>4, <2>1, EmptySeq
    <3> QED
      BY <1>6, <2>1, <3>1
  <2>2. CASE N # 1
    <3>1. 1 \in 1..N - 1 /\ Len(q) # 0
      BY ONLY <1>1, <1>4, <2>2
    <3>2. q # <<>> /\ q[1] = fr[1]
      BY ONLY <1>4, <3>1, EmptySeq
    <3> QED
      BY <1>6, <3>2
  <2> QED
    BY <2>1, <2>2
<1>10. ASSUME NEW j \in 1..N - 1
       PROVE  /\ q[j].node \in D /\ ~h[q[j].node].leaf
              /\ q[j].idx \in 0..Len(h[q[j].node].keys)
              /\ s[q[j].node].height = s[f.node].height + (N - 1) + 1 - j
              /\ h[q[j].node].kids[q[j].idx + 1] = IF j = N - 1 THEN f.node ELSE q[j + 1].node
  <2>1. j \in 1..N /\ q[j] = fr[j] /\ j # N
    BY ONLY <1>1, <1>4, <1>10
  <2>2. /\ fr[j].node \in D /\ ~h[fr[j].node].leaf
        /\ fr[j].idx \in 0..Len(h[fr[j].node].keys)
        /\ s[fr[j].node].height = s[nd].height + N + 1 - j
        /\ h[fr[j].node].kids[fr[j].idx + 1] = fr[j + 1].node
    BY ONLY <1>5, <2>1
  <2>3. s[fr[j].node].height = s[f.node].height + (N - 1) + 1 - j
    BY ONLY <1>1, <1>8, <2>1, <2>2
  <2>4. fr[j + 1].node = IF j = N - 1 THEN f.node ELSE q[j + 1].node
    <3>1. CASE j = N - 1
      <4>1. j + 1 = N
        BY ONLY <1>1, <3>1
      <4> QED
        BY <3>1, <4>1
    <3>2. CASE j # N - 1
      <4>1. j + 1 \in 1..N - 1
        BY ONLY <1>1, <1>10, <3>2
      <4> QED
        BY ONLY <1>4, <3>2, <4>1
    <3> QED
      BY <3>1, <3>2
  <2> QED
    BY ONLY <2>1, <2>2, <2>3, <2>4
<1>11. DOMAIN s = D /\ Len(q) = N - 1
  BY <1>4
<1>12. Path(h, s, rt, q, f.node)
  BY ONLY <1>9, <1>10, <1>11 DEF Path
<1> HIDE DEF f
<1> QED
  BY ONLY <1>2, <1>3, <1>4, <1>7, <1>8, <1>12

-----------------------------------------------------------------------------
(* The entries in the leaves.                                              *)

\* A key is only in the leaf that covers it.
LEMMA OneLeaf ==
  ASSUME NEW D, NEW s \in [D -> SpanOf], NEW h, NEW rt, Sound(h, rt, s),
         NEW a \in D, h[a] \in Node, h[a].leaf, NEW i \in 1..Len(h[a].keys),
         NEW b \in D, h[b].leaf, s[b].low <= h[a].keys[i], h[a].keys[i] < s[b].high
  PROVE  a = b
<1>1. /\ Fits(h[a], s, s[a]) /\ Fits(h[b], s, s[b]) /\ Nested(s)
  BY DEF Sound, Shape
<1>2. s[a].height = 0 /\ s[b].height = 0
  BY <1>1 DEF Fits
<1>3. /\ s[a].low <= h[a].keys[i] /\ h[a].keys[i] < s[a].high
  BY <1>1 DEF Fits, Within
<1>4. h[a].keys[i] \in Int
  <2>1. h[a].keys \in Seq(Number)
    BY DEF Node
  <2> QED
    BY <2>1 DEF Number
<1>5. \/ s[a].high <= s[b].low \/ s[b].high <= s[a].low
      \/ s[a].height = s[b].height => a = b
  BY <1>1, <1>2 DEF Nested
<1>6. /\ s[a].low \in Int /\ s[a].high \in Int /\ s[b].low \in Int /\ s[b].high \in Int
  BY SpanFields
<1>7. s[b].low <= h[a].keys[i] /\ h[a].keys[i] < s[b].high
  OBVIOUS
<1> QED
  BY ONLY <1>2, <1>3, <1>4, <1>5, <1>6, <1>7

\* What leaf_find_position finds in the leaf that covers a key.
LEMMA LeafHasKey ==
  ASSUME NEW D, NEW s \in [D -> SpanOf], NEW h, \A b \in D : h[b] \in Node,
         NEW rt, Sound(h, rt, s), NEW m, Contents(h, s, m),
         NEW nd \in D, h[nd].leaf, NEW k \in Number, s[nd].low <= k, k < s[nd].high,
         NEW pos, pos = LeafFindPosition(h[nd].keys, k)
  PROVE  /\ k \in DOMAIN m <=> pos < Len(h[nd].keys) /\ h[nd].keys[pos + 1] = k
         /\ k \in DOMAIN m => m[k] = h[nd].vals[pos + 1]
         /\ pos \in 0..Len(h[nd].keys)
<1> DEFINE q == h[nd].keys
<1>d. DOMAIN s = D
  OBVIOUS
<1>1. q \in Seq(Number) /\ Len(q) \in Nat /\ Ascends(q) /\ \A i \in 1..Len(q) : q[i] \in Int
  <2>1. q \in Seq(Number) /\ Ascends(q)
    BY DEF Sound, Shape, Fits, Node
  <2> QED
    BY <2>1 DEF Number
<1>2. pos \in 0..Len(q) /\ (\A i \in 1..pos : q[i] < k) /\ (pos < Len(q) => q[pos + 1] >= k)
  BY <1>1, LeafPosition
<1>k. k \in Int
  BY DEF Number
<1> HIDE DEF q
<1>3. ASSUME NEW i \in 1..Len(q), q[i] = k PROVE i = pos + 1
  <2>1. ~(i \in 1..pos)
    BY ONLY <1>2, <1>3, <1>k
  <2>2. i > pos + 1 => FALSE
    <3> SUFFICES ASSUME i > pos + 1 PROVE FALSE
      OBVIOUS
    <3>1. pos + 1 \in 1..Len(q) /\ pos + 1 < i /\ pos < Len(q)
      BY ONLY <1>1, <1>2, <1>3, i > pos + 1
    <3>2. q[pos + 1] >= k /\ q[pos + 1] < q[i] /\ q[pos + 1] \in Int
      BY ONLY <1>1, <1>2, <1>3, <3>1 DEF Ascends
    <3> QED
      BY ONLY <1>3, <1>k, <3>2
  <2> QED
    BY ONLY <1>1, <1>2, <1>3, <2>1, <2>2
<1>4. ASSUME k \in DOMAIN m PROVE pos < Len(q) /\ q[pos + 1] = k
  <2>1. PICK a \in D : h[a].leaf /\ \E i \in 1..Len(h[a].keys) : h[a].keys[i] = k
    BY <1>d, <1>4 DEF Contents
  <2>2. PICK i \in 1..Len(h[a].keys) : h[a].keys[i] = k
    BY <2>1
  <2>3. a = nd
    BY <2>1, <2>2, OneLeaf
  <2>4. i \in 1..Len(q) /\ q[i] = k
    BY <2>2, <2>3 DEF q
  <2>5. i = pos + 1
    BY <2>4, <1>3
  <2> QED
    BY <1>1, <1>2, <2>4, <2>5
<1>5. ASSUME pos < Len(q), q[pos + 1] = k PROVE k \in DOMAIN m /\ m[k] = h[nd].vals[pos + 1]
  <2>1. pos + 1 \in 1..Len(q)
    BY <1>1, <1>2, <1>5
  <2>2. h[nd].keys[pos + 1] = k /\ pos + 1 \in 1..Len(h[nd].keys)
    BY <1>5, <2>1 DEF q
  <2> QED
    BY <1>d, <2>2 DEF Contents
<1> QED
  BY <1>2, <1>4, <1>5 DEF q

\* The leaf x is the leaf n with a key put in, or with its value replaced.
Puts(n, x, k, v) ==
  /\ n.leaf /\ x.leaf
  /\ \A i \in 1..Len(x.keys) :
       \/ x.keys[i] = k /\ x.vals[i] = v
       \/ /\ x.keys[i] # k
          /\ \E j \in 1..Len(n.keys) : x.keys[i] = n.keys[j] /\ x.vals[i] = n.vals[j]
  /\ \A j \in 1..Len(n.keys) : \E i \in 1..Len(x.keys) : x.keys[i] = n.keys[j]
  /\ \E i \in 1..Len(x.keys) : x.keys[i] = k

\* What a leaf that covers the key does to the contents of the tree.
LEMMA PutInLeaf ==
  ASSUME NEW D, NEW s \in [D -> SpanOf], NEW h, NEW g, \A b \in D : h[b] \in Node,
         NEW rt, Sound(h, rt, s), NEW m, Contents(h, s, m),
         NEW nd \in D, NEW k \in Number, s[nd].low <= k, k < s[nd].high, NEW v,
         Puts(h[nd], g[nd], k, v), \A b \in D : b # nd => g[b] = h[b]
  PROVE  Contents(g, s, Put(m, k, v))
<1>g. /\ h[nd].leaf /\ g[nd].leaf
      /\ \A i \in 1..Len(g[nd].keys) :
           \/ g[nd].keys[i] = k /\ g[nd].vals[i] = v
           \/ /\ g[nd].keys[i] # k
              /\ \E j \in 1..Len(h[nd].keys) :
                   g[nd].keys[i] = h[nd].keys[j] /\ g[nd].vals[i] = h[nd].vals[j]
      /\ \A j \in 1..Len(h[nd].keys) : \E i \in 1..Len(g[nd].keys) : g[nd].keys[i] = h[nd].keys[j]
      /\ \E i \in 1..Len(g[nd].keys) : g[nd].keys[i] = k
  BY DEF Puts
<1>d. DOMAIN s = D
  OBVIOUS
<1>p. /\ DOMAIN Put(m, k, v) = DOMAIN m \cup {k} /\ Put(m, k, v)[k] = v
      /\ \A x \in DOMAIN m : x # k => Put(m, k, v)[x] = m[x]
  BY DEF Put
<1>1. ASSUME NEW a \in D, g[a].leaf, NEW i \in 1..Len(g[a].keys)
      PROVE  g[a].keys[i] \in DOMAIN Put(m, k, v) /\ g[a].vals[i] = Put(m, k, v)[g[a].keys[i]]
  <2>1. CASE a = nd
    <3>1. CASE g[nd].keys[i] = k /\ g[nd].vals[i] = v
      BY <1>p, <2>1, <3>1
    <3>2. CASE ~(g[nd].keys[i] = k /\ g[nd].vals[i] = v)
      <4>1. PICK j \in 1..Len(h[nd].keys) :
              /\ g[nd].keys[i] # k
              /\ g[nd].keys[i] = h[nd].keys[j] /\ g[nd].vals[i] = h[nd].vals[j]
        BY <1>1, <1>g, <2>1, <3>2
      <4>2. h[nd].keys[j] \in DOMAIN m /\ h[nd].vals[j] = m[h[nd].keys[j]]
        BY <1>d, <1>g DEF Contents
      <4> QED
        BY <1>p, <2>1, <4>1, <4>2
    <3> QED
      BY <3>1, <3>2
  <2>2. CASE a # nd
    <3>1. g[a] = h[a]
      BY <2>2
    <3>2. h[a].keys[i] \in DOMAIN m /\ h[a].vals[i] = m[h[a].keys[i]]
      BY <1>1, <1>d, <3>1 DEF Contents
    <3>3. h[a].keys[i] # k
      BY <1>1, <1>g, <2>2, <3>1, OneLeaf
    <3> QED
      BY <1>p, <3>1, <3>2, <3>3
  <2> QED
    BY <2>1, <2>2
<1>2. ASSUME NEW x \in DOMAIN m \cup {k}
      PROVE  \E a \in D : g[a].leaf /\ \E i \in 1..Len(g[a].keys) : g[a].keys[i] = x
  <2>1. CASE x = k
    BY <1>g, <2>1
  <2>2. CASE x # k
    <3>1. PICK a \in D : h[a].leaf /\ \E i \in 1..Len(h[a].keys) : h[a].keys[i] = x
      BY <1>d, <1>2, <2>2 DEF Contents
    <3>2. CASE a = nd
      BY <1>g, <3>1, <3>2
    <3>3. CASE a # nd
      BY <3>1, <3>3
    <3> QED
      BY <3>2, <3>3
  <2> QED
    BY <2>1, <2>2
<1> QED
  BY <1>d, <1>p, <1>1, <1>2 DEF Contents

\* A leaf with keys is inhabited, and so is an inner node.
LEMMA LeafInhabited ==
  ASSUME NEW s, NEW h, NEW m, Contents(h, s, m), NEW a \in DOMAIN s, h[a].leaf,
         NEW J, NEW p, Fits(h[a], J, p), Len(h[a].keys) \in Nat, Len(h[a].keys) > 0
  PROVE  Inhabited(p, m)
<1>1. 1 \in 1..Len(h[a].keys)
  OBVIOUS
<1>2. h[a].keys[1] \in DOMAIN m
  BY <1>1 DEF Contents
<1>3. p.low <= h[a].keys[1] /\ h[a].keys[1] < p.high
  BY <1>1 DEF Fits, Within
<1> QED
  BY <1>2, <1>3 DEF Inhabited

\* An inner node has the keys of its first child.
LEMMA InnerInhabited ==
  ASSUME NEW D, NEW s \in [D -> SpanOf], NEW m, DOMAIN m \subseteq Int,
         NEW n \in Node, ~n.leaf, NEW p \in SpanOf, Fits(n, s, p), \A b \in D : Inhabited(s[b], m)
  PROVE  Inhabited(p, m)
<1>1. /\ Len(n.kids) = Len(n.keys) + 1 /\ Len(n.keys) \in Nat
      /\ \A i \in 1..Len(n.kids) :
           /\ SegLow(n, p, i) \in Int /\ SegHigh(n, p, i) \in Int
           /\ p.low <= SegLow(n, p, i) /\ SegHigh(n, p, i) <= p.high
  BY Segments
<1>2. 1 \in 1..Len(n.kids)
  BY <1>1
<1>3. n.kids[1] \in D /\ s[n.kids[1]].low = SegLow(n, p, 1) /\ s[n.kids[1]].high = SegHigh(n, p, 1)
  <2>1. /\ n.kids[1] \in D
        /\ s[n.kids[1]] = [low |-> SegLow(n, p, 1), high |-> SegHigh(n, p, 1), height |-> p.height - 1]
    BY <1>2 DEF Fits
  <2> QED
    BY ONLY <2>1
<1>4. PICK k \in DOMAIN m : s[n.kids[1]].low <= k /\ k < s[n.kids[1]].high
  BY <1>3 DEF Inhabited
<1>5. p.low \in Int /\ p.high \in Int /\ k \in Int
  BY SpanFields
<1>6. SegLow(n, p, 1) \in Int /\ SegHigh(n, p, 1) \in Int /\ p.low <= SegLow(n, p, 1) /\ SegHigh(n, p, 1) <= p.high
  BY <1>1, <1>2
<1>7. p.low <= k /\ k < p.high
  BY ONLY <1>3, <1>4, <1>5, <1>6
<1> QED
  BY <1>7 DEF Inhabited

\* The first A entries of the leaf n are those of l, the other B those of r.
Shared(n, A, B, l, r) ==
  /\ n.leaf /\ l.leaf /\ r.leaf
  /\ Len(n.keys) = A + B /\ Len(l.keys) = A /\ Len(r.keys) = B
  /\ \A i \in 1..A : l.keys[i] = n.keys[i] /\ l.vals[i] = n.vals[i]
  /\ \A i \in 1..B : r.keys[i] = n.keys[A + i] /\ r.vals[i] = n.vals[A + i]

\* Both halves of a leaf have its entries.
LEMMA ContentsHalves ==
  ASSUME NEW D, NEW s, NEW h, NEW g, NEW m, Contents(h, s, m), D = DOMAIN s,
         NEW a \in D, NEW new, new \notin D, NEW t, DOMAIN t = More(D, new),
         \A b \in D : b # a => g[b] = h[b], NEW A \in Nat, NEW B \in Nat,
         Shared(h[a], A, B, g[a], g[new])
  PROVE  Contents(g, t, m)
<1> USE DEF More
<1>h. /\ h[a].leaf /\ g[a].leaf /\ g[new].leaf
      /\ Len(h[a].keys) = A + B /\ Len(g[a].keys) = A /\ Len(g[new].keys) = B
      /\ \A i \in 1..A : g[a].keys[i] = h[a].keys[i] /\ g[a].vals[i] = h[a].vals[i]
      /\ \A i \in 1..B : g[new].keys[i] = h[a].keys[A + i] /\ g[new].vals[i] = h[a].vals[A + i]
  BY DEF Shared
<1> USE <1>h
<1>1. \A i \in 1..A + B : h[a].keys[i] \in DOMAIN m /\ h[a].vals[i] = m[h[a].keys[i]]
  BY DEF Contents
<1>2. ASSUME NEW b \in D \cup {new}, g[b].leaf, NEW i \in 1..Len(g[b].keys)
      PROVE  g[b].keys[i] \in DOMAIN m /\ g[b].vals[i] = m[g[b].keys[i]]
  <2>1. CASE b = new
    <3>1. i \in 1..B /\ A + i \in 1..A + B
      BY <1>2, <2>1
    <3> QED
      BY <1>1, <2>1, <3>1
  <2>2. CASE b = a
    <3>1. i \in 1..A /\ i \in 1..A + B
      BY <1>2, <2>2
    <3> QED
      BY <1>1, <2>2, <3>1
  <2>3. CASE b # a /\ b # new
    <3>1. b \in D /\ g[b] = h[b]
      BY <2>3
    <3> QED
      BY <1>2, <3>1 DEF Contents
  <2> QED
    BY <2>1, <2>2, <2>3
<1>3. ASSUME NEW x \in DOMAIN m
      PROVE  \E b \in D \cup {new} : g[b].leaf /\ \E i \in 1..Len(g[b].keys) : g[b].keys[i] = x
  <2>1. PICK b \in D : h[b].leaf /\ \E i \in 1..Len(h[b].keys) : h[b].keys[i] = x
    BY DEF Contents
  <2>2. CASE b # a
    <3>1. g[b] = h[b] /\ b \in D \cup {new}
      BY <2>2
    <3> QED
      BY <2>1, <3>1
  <2>3. CASE b = a
    <3>1. PICK i \in 1..A + B : h[a].keys[i] = x
      BY <2>1, <2>3
    <3>2. CASE i <= A
      <4>1. i \in 1..Len(g[a].keys) /\ g[a].keys[i] = x
        BY <3>1, <3>2
      <4> QED
        BY <4>1
    <3>3. CASE i > A
      <4>1. i - A \in 1..B /\ A + (i - A) = i
        BY <3>3
      <4>2. i - A \in 1..Len(g[new].keys) /\ g[new].keys[i - A] = x
        BY <3>1, <4>1
      <4> QED
        BY <4>2
    <3> QED
      BY <3>2, <3>3
  <2> QED
    BY <2>2, <2>3
<1> QED
  BY <1>2, <1>3 DEF Contents

\* What happens to inner nodes does not change the entries.
LEMMA ContentsInner ==
  ASSUME NEW s, NEW h, NEW g, NEW m, Contents(h, s, m), NEW t, DOMAIN s \subseteq DOMAIN t,
         \A b \in DOMAIN t : g[b].leaf => b \in DOMAIN s /\ h[b].leaf /\ g[b] = h[b],
         \A b \in DOMAIN s : h[b].leaf => g[b] = h[b]
  PROVE  Contents(g, t, m)
<1>1. ASSUME NEW b \in DOMAIN t, g[b].leaf, NEW i \in 1..Len(g[b].keys)
      PROVE  g[b].keys[i] \in DOMAIN m /\ g[b].vals[i] = m[g[b].keys[i]]
  BY <1>1 DEF Contents
<1>2. ASSUME NEW x \in DOMAIN m
      PROVE  \E b \in DOMAIN t : g[b].leaf /\ \E i \in 1..Len(g[b].keys) : g[b].keys[i] = x
  <2>1. PICK b \in DOMAIN s : h[b].leaf /\ \E i \in 1..Len(h[b].keys) : h[b].keys[i] = x
    BY DEF Contents
  <2> QED
    BY <2>1
<1> QED
  BY <1>1, <1>2 DEF Contents

\* With a right half goes what its leaves had, and every node that is left keeps a key.
LEMMA ContentsLose ==
  ASSUME NEW D, NEW s, NEW h, NEW rt, NEW n, NEW r, NEW k, NEW m, NEW t,
         s \in [D -> SpanOf], \A b \in D : h[b] \in Node, Parted(h, rt, s, n, r, k),
         Contents(h, s, m), DOMAIN m \subseteq Int, \A b \in D : Inhabited(s[b], m),
         t = ClosedOf(s, r)
  PROVE  /\ Contents(h, t, Without(m, k..s[r].high - 1))
         /\ \A b \in D \ Gone(s, r) : Inhabited(t[b], Without(m, k..s[r].high - 1))
<1> DEFINE w == Without(m, k..s[r].high - 1)  R == D \ Gone(s, r)
<1>1. /\ n \in D /\ r \in D /\ s[n].high = k /\ s[r].low = k /\ s[r].height = s[n].height
      /\ \A x \in D : s[x].low < s[x].high
      /\ s[n].low \in Int /\ s[r].high \in Int /\ s[n].height \in Nat /\ k \in Int
      /\ s[n].low < k /\ k < s[r].high
  BY ONLY s \in [D -> SpanOf], Parted(h, rt, s, n, r, k), PartedFacts
<1>2. Detached(s, n, r) /\ Nested(s) /\ DOMAIN t = R /\ DOMAIN s = D
  <2>1. Detached(s, n, r)
    BY PartedIsDetached
  <2>2. Nested(s)
    BY DEF Parted
  <2>3. DOMAIN t = D \ Gone(s, r)
    BY DEF ClosedOf
  <2> QED
    BY <2>1, <2>2, <2>3
<1>w. /\ DOMAIN w = DOMAIN m \ (k..s[r].high - 1) /\ \A x \in DOMAIN w : w[x] = m[x]
  BY DEF Without
<1>3. \A x \in R :
        /\ t[x].low = s[x].low
        /\ t[x].high = IF s[x].high = s[r].low THEN s[r].high ELSE s[x].high
  BY <1>1, <1>2, NestedClosed
<1> HIDE DEF w
<1>4. \A b \in D : Fits(h[b], JointOf(s, n, r), s[b])
  BY DEF Parted, Shape
<1>5. ASSUME NEW b \in D, h[b].leaf, NEW i \in 1..Len(h[b].keys)
      PROVE  /\ h[b].keys[i] \in Int /\ s[b].low <= h[b].keys[i] /\ h[b].keys[i] < s[b].high
             /\ h[b].keys[i] \in DOMAIN m /\ h[b].vals[i] = m[h[b].keys[i]]
             /\ s[b].height = 0
  <2>1. h[b].keys \in Seq(Number)
    BY DEF Node
  <2>2. h[b].keys[i] \in Int
    BY <2>1 DEF Number
  <2>3. Within(h[b].keys, s[b].low, s[b].high) /\ s[b].height = 0
    BY <1>4, <1>5 DEF Fits
  <2> QED
    BY <1>2, <1>5, <2>2, <2>3 DEF Within, Contents
<1>6. ASSUME NEW b \in R, h[b].leaf, NEW i \in 1..Len(h[b].keys)
      PROVE  h[b].keys[i] \in DOMAIN w /\ h[b].vals[i] = w[h[b].keys[i]]
  <2>1. /\ h[b].keys[i] \in Int /\ s[b].low <= h[b].keys[i] /\ h[b].keys[i] < s[b].high
        /\ h[b].keys[i] \in DOMAIN m /\ h[b].vals[i] = m[h[b].keys[i]]
        /\ s[b].height = 0
    BY <1>5, <1>6
  <2>2. s[b].height <= s[r].height => s[b].high <= s[r].low \/ s[r].high <= s[b].low
    BY <1>1, <1>2, Beside
  <2>3. s[b].low \in Int /\ s[b].high \in Int
    BY SpanFields
  <2>4. h[b].keys[i] \notin k..s[r].high - 1
    <3>0. /\ s[r].low = k /\ k \in Int /\ s[r].high \in Int /\ s[r].height \in Nat
      BY ONLY <1>1
    <3>1. s[b].high <= k \/ s[r].high <= s[b].low
      BY ONLY <2>1, <2>2, <3>0
    <3>2. PICK x, low, high : x = h[b].keys[i] /\ low = s[b].low /\ high = s[b].high
      OBVIOUS
    <3>3. /\ x \in Int /\ low \in Int /\ high \in Int /\ low <= x /\ x < high
          /\ high <= k \/ s[r].high <= low
      BY ONLY <2>1, <2>3, <3>1, <3>2
    <3>4. PICK top : top = s[r].high
      OBVIOUS
    <3>5. x \notin k..top - 1
      BY ONLY <3>0, <3>3, <3>4
    <3> QED
      BY ONLY <3>2, <3>4, <3>5
  <2> QED
    BY <1>w, <2>1, <2>4
<1>7. ASSUME NEW x \in DOMAIN w
      PROVE  \E b \in R : h[b].leaf /\ \E i \in 1..Len(h[b].keys) : h[b].keys[i] = x
  <2>1. x \in DOMAIN m /\ x \notin k..s[r].high - 1
    BY <1>w
  <2>2. PICK b \in D : h[b].leaf /\ \E i \in 1..Len(h[b].keys) : h[b].keys[i] = x
    BY <1>2, <2>1 DEF Contents
  <2>3. PICK i \in 1..Len(h[b].keys) : h[b].keys[i] = x
    BY <2>2
  <2>4. x \in Int /\ s[b].low <= x /\ x < s[b].high
    BY <1>5, <2>2, <2>3
  <2>5. b \notin Gone(s, r)
    <3>1. b \in Gone(s, r) => s[b].low >= s[r].low /\ s[b].high <= s[r].high
      BY DEF Gone
    <3>2. s[b].low \in Int /\ s[b].high \in Int
      BY SpanFields
    <3> QED
      BY ONLY <1>1, <2>1, <2>4, <3>1, <3>2
  <2> QED
    BY <2>2, <2>5
<1>8. ASSUME NEW b \in R PROVE Inhabited(t[b], w)
  <2>0. /\ t[b].low = s[b].low
        /\ t[b].high = IF s[b].high = s[r].low THEN s[r].high ELSE s[b].high
    BY <1>3
  <2>1. s[b].low \in Int /\ s[b].high \in Int /\ s[b].height \in Nat /\ s[b].low < s[b].high
    BY <1>1, SpanFields
  <2>2. /\ s[b].height <= s[r].height => s[b].high <= s[r].low \/ s[r].high <= s[b].low
    BY <1>1, <1>2, Beside
  <2>3. PICK x \in DOMAIN m : s[b].low <= x /\ x < s[b].high
    BY DEF Inhabited
  <2>4. CASE x \notin k..s[r].high - 1
    <3>1. x \in DOMAIN w /\ x \in Int
      BY <1>w, <2>4
    <3>2. t[b].low <= x /\ x < t[b].high
      BY ONLY <1>1, <2>0, <2>1, <2>3, <3>1
    <3> QED
      BY <3>1, <3>2 DEF Inhabited
  <2>5. CASE x \in k..s[r].high - 1
    <3>1. PICK y \in DOMAIN m : s[n].low <= y /\ y < s[n].high
      BY <1>1 DEF Inhabited
    <3>2. y \in Int /\ y \notin k..s[r].high - 1
      BY <1>1, <3>1
    <3>3. s[b].height > s[r].height
      <4>1. s[r].height \in Nat
        BY <1>1
      <4> QED
        BY ONLY <1>1, <2>1, <2>2, <2>3, <2>5, <4>1
    <3>4. \/ s[b].low <= s[n].low /\ s[r].high <= s[b].high
          \/ s[b].high <= s[n].low
          \/ s[r].high <= s[b].low
      BY <1>2, <3>3 DEF Detached
    <3>5. t[b].low <= y /\ y < t[b].high
      BY ONLY <1>1, <2>0, <2>1, <2>3, <2>5, <3>1, <3>2, <3>4
    <3>6. y \in DOMAIN w
      BY <1>w, <3>2
    <3> QED
      BY <3>5, <3>6 DEF Inhabited
  <2> QED
    BY <2>4, <2>5
<1>9. Contents(h, t, w)
  BY <1>2, <1>6, <1>7 DEF Contents
<1> QED
  BY <1>8, <1>9 DEF w

-----------------------------------------------------------------------------
(* Outcomes.                                                               *)

\* A new key is counted, a known one is not.
LEMMA CardinalityPut ==
  ASSUME NEW m, IsFiniteSet(DOMAIN m), NEW k, NEW v
  PROVE  /\ IsFiniteSet(DOMAIN Put(m, k, v)) /\ DOMAIN Put(m, k, v) = DOMAIN m \cup {k}
         /\ Cardinality(DOMAIN Put(m, k, v)) =
              IF k \in DOMAIN m THEN Cardinality(DOMAIN m) ELSE Cardinality(DOMAIN m) + 1
         /\ Cardinality(DOMAIN m) \in Nat
<1>1. DOMAIN Put(m, k, v) = DOMAIN m \cup {k}
  BY DEF Put
<1>2. k \in DOMAIN m => DOMAIN m \cup {k} = DOMAIN m
  OBVIOUS
<1> QED
  BY <1>1, <1>2, FS_AddElement, FS_CardinalityType

\* Replacing a value that is what it was.
LEMMA WithoutNew ==
  ASSUME NEW m, m = [x \in DOMAIN m |-> m[x]], NEW k \in Int, k \notin DOMAIN m, NEW v
  PROVE  Without(Put(m, k, v), k..k) = m
<1>1. k..k = {k}
  OBVIOUS
<1>2. DOMAIN Put(m, k, v) = DOMAIN m \cup {k} /\ \A x \in DOMAIN m : Put(m, k, v)[x] = m[x]
  BY DEF Put
<1>3. /\ Without(Put(m, k, v), k..k) = [x \in DOMAIN Put(m, k, v) \ (k..k) |-> Put(m, k, v)[x]]
  BY DEF Without
<1>4. DOMAIN Put(m, k, v) \ (k..k) = DOMAIN m
  BY <1>1, <1>2
<1> QED
  BY <1>2, <1>3, <1>4

\* The keys that drop out with a range of ints are those between two of them.
LEMMA LossBetweenKeys ==
  ASSUME NEW F, F \subseteq Ints, NEW a \in Int, NEW b \in Int, NEW x \in F, a <= x, x < b
  PROVE  \E p \in F, q \in F : p <= q /\ F \ (p..q) = F \ (a..b - 1)
<1>i. IntMax \in Nat
  BY IntMaxAssumption DEF IntMaxAssumption
<1>1. PICK p \in F : a <= p /\ p < b /\ \A y \in F : a <= y /\ y < b => p <= y
  <2> DEFINE T == {y \in Nat : /\ y - (IntMax + 1) \in F
                               /\ a <= y - (IntMax + 1) /\ y - (IntMax + 1) < b}
  <2>1. x + (IntMax + 1) \in T
    BY <1>i DEF Ints
  <2>2. PICK y \in T : \A z \in T : y <= z
    <3>1. T \subseteq Nat /\ T # {}
      BY <2>1
    <3> HIDE DEF T
    <3> QED
      BY <3>1, LeastNumber
  <2>3. ASSUME NEW z \in F, a <= z, z < b PROVE y - (IntMax + 1) <= z
    <3>1. z + (IntMax + 1) \in T
      BY <1>i, <2>3 DEF Ints
    <3>2. y <= z + (IntMax + 1) /\ y \in Nat /\ z \in Int
      BY <2>2, <3>1 DEF Ints
    <3> QED
      BY <1>i, <3>2
  <2> QED
    BY <2>2, <2>3
<1>2. PICK q \in F : a <= q /\ q < b /\ \A y \in F : a <= y /\ y < b => y <= q
  <2> DEFINE T == {y \in Nat : IntMax - y \in F /\ a <= IntMax - y /\ IntMax - y < b}
  <2>1. IntMax - x \in T
    <3>1. IntMax - x \in Nat /\ IntMax - (IntMax - x) = x
      BY <1>i DEF Ints
    <3> QED
      BY <3>1
  <2>2. PICK y \in T : \A z \in T : y <= z
    <3>1. T \subseteq Nat /\ T # {}
      BY <2>1
    <3> HIDE DEF T
    <3> QED
      BY <3>1, LeastNumber
  <2>3. ASSUME NEW z \in F, a <= z, z < b PROVE z <= IntMax - y
    <3>1. IntMax - z \in Nat /\ IntMax - (IntMax - z) = z
      BY <1>i DEF Ints
    <3>2. IntMax - z \in T
      BY <2>3, <3>1
    <3>3. y <= IntMax - z /\ y \in Nat /\ z \in Int
      BY <2>2, <3>2 DEF Ints
    <3> QED
      BY <1>i, <3>3
  <2> QED
    BY <2>2, <2>3
<1>3. p <= q
  BY <1>1, <1>2
<1>4. ASSUME NEW y \in F PROVE y \in p..q <=> y \in a..b - 1
  <2>1. p \in Int /\ q \in Int /\ y \in Int
    BY <1>i DEF Ints
  <2>2. /\ a <= y /\ y < b => p <= y /\ y <= q
        /\ a <= p /\ q < b
    BY <1>1, <1>2
  <2> QED
    BY ONLY <2>1, <2>2, a \in Int, b \in Int
<1>5. F \ (p..q) = F \ (a..b - 1)
  BY <1>4
<1> QED
  BY <1>3, <1>5

\* Losing a range of keys after an insertion is one of the outcomes in IndexOps.
LEMMA LossOutcome ==
  ASSUME NEW m, NEW k, NEW v, NEW a, NEW b, NEW x, NEW c,
         k \notin DOMAIN m, DOMAIN m \cup {k} \subseteq Ints, a \in Int, b \in Int,
         x \in DOMAIN m \cup {k}, a <= x, x < b, c \in BOOLEAN
  PROVE  [map |-> Without(Put(m, k, v), a..b - 1), ok |-> c] \in FailedInsertOutcomes(m, k, v)
<1> DEFINE full == Put(m, k, v)  F == DOMAIN m \cup {k}
<1>1. DOMAIN full = F
  BY DEF Put
<1>2. PICK p \in F, q \in F : p <= q /\ F \ (p..q) = F \ (a..b - 1)
  <2> HIDE DEF F
  <2>1. F \subseteq Ints /\ x \in F
    BY DEF F
  <2> QED
    BY <2>1, LossBetweenKeys
<1>3. Without(full, p..q) = Without(full, a..b - 1)
  <2>1. /\ Without(full, p..q) = [y \in F \ (p..q) |-> full[y]]
        /\ Without(full, a..b - 1) = [y \in F \ (a..b - 1) |-> full[y]]
    BY <1>1 DEF Without
  <2> QED
    BY <1>2, <2>1
<1>4. <<p, q>> \in {z \in (DOMAIN full) \X (DOMAIN full) : z[1] <= z[2]}
  BY <1>1, <1>2
<1>5. FailedInsertOutcomes(m, k, v) =
        {[map |-> Without(full, z[1]..z[2]), ok |-> d] :
           z \in {y \in (DOMAIN full) \X (DOMAIN full) : y[1] <= y[2]}, d \in BOOLEAN}
  BY DEF FailedInsertOutcomes
<1> HIDE DEF full, F
<1>6. [map |-> Without(full, p..q), ok |-> c] \in FailedInsertOutcomes(m, k, v)
  <2>1. <<p, q>>[1] = p /\ <<p, q>>[2] = q
    OBVIOUS
  <2>2. [map |-> Without(full, <<p, q>>[1]..<<p, q>>[2]), ok |-> c] \in FailedInsertOutcomes(m, k, v)
    BY <1>4, <1>5
  <2> QED
    BY <2>1, <2>2
<1> QED
  BY <1>3, <1>6 DEF full

\* Out of memory before the key was put in: nothing changes.
LEMMA NothingInserted ==
  ASSUME NEW m, NEW k, NEW v, NEW c,
         m = [x \in DOMAIN m |-> m[x]], k \in Ints, k \notin DOMAIN m, DOMAIN m \subseteq Ints,
         c \in BOOLEAN
  PROVE  [map |-> m, ok |-> c] \in FailedInsertOutcomes(m, k, v)
<1>1. k \in Int
  BY IntMaxAssumption DEF Ints, IntMaxAssumption
<1>2. k + 1 \in Int /\ k <= k /\ k < k + 1 /\ k + 1 - 1 = k /\ k \in DOMAIN m \cup {k}
      /\ DOMAIN m \cup {k} \subseteq Ints
  BY <1>1
<1>3. [map |-> Without(Put(m, k, v), k..k), ok |-> c] \in FailedInsertOutcomes(m, k, v)
  <2> DEFINE next == k + 1
  <2>1. next \in Int /\ k < next /\ next - 1 = k
    BY <1>1
  <2> HIDE DEF next
  <2>2. [map |-> Without(Put(m, k, v), k..next - 1), ok |-> c] \in FailedInsertOutcomes(m, k, v)
    BY <1>1, <1>2, <2>1, LossOutcome
  <2> QED
    BY <2>1, <2>2
<1>4. Without(Put(m, k, v), k..k) = m
  BY <1>1, WithoutNew
<1> QED
  BY <1>2, <1>3, <1>4
=============================================================================
