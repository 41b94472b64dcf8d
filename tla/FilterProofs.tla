---------------------------- MODULE FilterProofs ----------------------------
(***************************************************************************)
(* Lemmas about loops that walk a sequence and append some of its elements *)
(* to a result, the shape of db_init's reading of the file and of a        *)
(* select's scan.  Picks states such a loop as the equation of a recursive *)
(* function; the lemmas show that it has a solution, that the solution is  *)
(* unique, and how it changes when the sequence grows.                     *)
(***************************************************************************)
EXTENDS Integers, Sequences, WellFoundedInduction, TLAPS

\* Every set of natural numbers that is not empty has a least element.
LEMMA LeastNumber ==
  ASSUME NEW T, T \subseteq Nat, T # {}
  PROVE  \E x \in T : \A y \in T : x <= y
<1> DEFINE R == OpToRel(<, Nat)
<1>1. IsWellFoundedOn(R, Nat)
  BY NatLessThanWellFounded
<1>2. \A x, y \in Nat : <<x, y>> \in R <=> x < y
  BY DEF OpToRel
<1> HIDE DEF R
<1>3. PICK x \in T : \A y \in T : ~ (<<y, x>> \in R)
  BY <1>1, WFMin
<1>4. ASSUME NEW y \in T PROVE x <= y
  <2>1. x \in Nat /\ y \in Nat /\ ~ (<<y, x>> \in R)
    BY <1>3
  <2>2. ~ (y < x)
    BY <1>2, <2>1
  <2> QED
    BY <2>1, <2>2
<1> QED
  BY <1>4

\* Induction: a set with 0 and the successor of each of its members up to m
\* contains every number up to m.
LEMMA SetInduction ==
  ASSUME NEW m \in Nat, NEW T, 0 \in T, \A n \in 0..m - 1 : n \in T => n + 1 \in T
  PROVE  0..m \subseteq T
<1> SUFFICES ASSUME (0..m) \ T # {} PROVE FALSE
  OBVIOUS
<1>1. PICK x \in (0..m) \ T : \A y \in (0..m) \ T : x <= y
  <2> DEFINE U == (0..m) \ T
  <2>1. U \subseteq Nat /\ U # {}
    OBVIOUS
  <2> HIDE DEF U
  <2>2. \E x \in U : \A y \in U : x <= y
    BY <2>1, LeastNumber
  <2> QED
    BY <2>2 DEF U
<1>2. x # 0
  OBVIOUS
<1>3. x - 1 \in 0..m - 1 /\ x - 1 \in T
  BY <1>1, <1>2
<1> QED
  BY <1>3

\* g[n] is the result after n rounds of the loop over s, which appends the
\* elements at the positions in K, for n up to m.
Picks(s, K, m, g) ==
  g = [n \in 0..m |->
         IF n = 0 THEN <<>>
         ELSE IF n \in K THEN Append(g[n - 1], s[n]) ELSE g[n - 1]]

\* The loop has a result after every round.
LEMMA PicksExist ==
  ASSUME NEW S, NEW s \in Seq(S), NEW K
  PROVE  \A m \in 0..Len(s) : \E g \in [0..m -> Seq(S)] : Picks(s, K, m, g)
<1> DEFINE T == {m \in Nat : \E g \in [0..m -> Seq(S)] : Picks(s, K, m, g)}
<1>1. 0 \in T
  <2> DEFINE g == [n \in 0..0 |-> <<>>]
  <2>1. g \in [0..0 -> Seq(S)]
    OBVIOUS
  <2>2. Picks(s, K, 0, g)
    BY DEF Picks
  <2> QED
    BY <2>1, <2>2
<1>2. ASSUME NEW n \in 0..Len(s) - 1, n \in T PROVE n + 1 \in T
  <2>1. PICK g \in [0..n -> Seq(S)] : Picks(s, K, n, g)
    BY <1>2
  <2> DEFINE last == IF n + 1 \in K THEN Append(g[n], s[n + 1]) ELSE g[n]
  <2> DEFINE h == [i \in 0..n + 1 |-> IF i = n + 1 THEN last ELSE g[i]]
  <2>2. n \in Nat /\ g[n] \in Seq(S) /\ s[n + 1] \in S
    OBVIOUS
  <2>3. last \in Seq(S)
    BY <2>2
  <2>4. h \in [0..n + 1 -> Seq(S)]
    BY <2>3
  <2>5. Picks(s, K, n + 1, h)
    <3>1. ASSUME NEW i \in 0..n + 1
          PROVE  h[i] = IF i = 0 THEN <<>>
                        ELSE IF i \in K THEN Append(h[i - 1], s[i]) ELSE h[i - 1]
      <4>1. CASE i = n + 1
        BY <4>1, <2>2
      <4>2. CASE i # n + 1
        <5>1. i \in 0..n /\ h[i] = g[i] /\ (i # 0 => h[i - 1] = g[i - 1])
          BY <4>2
        <5> HIDE DEF h
        <5> QED
          BY <5>1, <2>1 DEF Picks
      <4> QED
        BY <4>1, <4>2
    <3> HIDE DEF last
    <3>2. h = [i \in 0..n + 1 |-> h[i]]
      OBVIOUS
    <3> HIDE DEF h
    <3> QED
      BY <3>1, <3>2 DEF Picks
  <2> HIDE DEF h
  <2> QED
    BY <2>2, <2>4, <2>5
<1> HIDE DEF T
<1>3. 0..Len(s) \subseteq T
  BY <1>1, <1>2, SetInduction
<1> QED
  BY <1>3 DEF T

\* Functions that obey the equation agree where their sequences and sets do.
LEMMA PicksAgree ==
  ASSUME NEW S, NEW s \in Seq(S), NEW K, NEW t \in Seq(S), NEW L,
         NEW m \in 0..Len(s), m <= Len(t),
         NEW g, Picks(s, K, Len(s), g), NEW h, Picks(t, L, Len(t), h),
         \A i \in 1..m : s[i] = t[i] /\ (i \in K <=> i \in L)
  PROVE  g[m] = h[m]
<1> DEFINE T == {n \in 0..m : g[n] = h[n]}
<1>1. 0 \in T
  BY DEF Picks
<1>2. ASSUME NEW n \in 0..m - 1, n \in T PROVE n + 1 \in T
  <2>1. /\ g[n] = h[n] /\ n + 1 # 0 /\ (n + 1) - 1 = n /\ n + 1 \in 1..m
        /\ n + 1 \in 0..Len(s) /\ n + 1 \in 0..Len(t)
    BY <1>2
  <2>2. g[n + 1] = IF n + 1 \in K THEN Append(g[n], s[n + 1]) ELSE g[n]
    BY <2>1 DEF Picks
  <2>3. h[n + 1] = IF n + 1 \in L THEN Append(h[n], t[n + 1]) ELSE h[n]
    BY <2>1 DEF Picks
  <2> QED
    BY <2>1, <2>2, <2>3
<1> HIDE DEF T
<1>3. 0..m \subseteq T
  <2>1. m \in Nat
    OBVIOUS
  <2> QED
    BY <1>1, <1>2, <2>1, SetInduction
<1> QED
  BY <1>3 DEF T

\* The loop has one result only.
LEMMA PicksUnique ==
  ASSUME NEW S, NEW s \in Seq(S), NEW K,
         NEW g, Picks(s, K, Len(s), g), NEW h, Picks(s, K, Len(s), h)
  PROVE  g[Len(s)] = h[Len(s)]
<1>1. Len(s) \in 0..Len(s) /\ Len(s) <= Len(s)
  OBVIOUS
<1> QED
  BY <1>1, PicksAgree

\* The loop over a longer sequence appends the new element last, or leaves it out.
LEMMA PicksAppend ==
  ASSUME NEW S, NEW s \in Seq(S), NEW K, NEW t \in Seq(S), NEW L,
         Len(t) = Len(s) + 1,
         \A i \in 1..Len(s) : s[i] = t[i] /\ (i \in K <=> i \in L),
         NEW g, Picks(s, K, Len(s), g), NEW h, Picks(t, L, Len(t), h)
  PROVE  h[Len(t)] = IF Len(t) \in L THEN Append(g[Len(s)], t[Len(t)]) ELSE g[Len(s)]
<1>1. Len(s) \in 0..Len(s) /\ Len(s) <= Len(t) /\ Len(s) \in Nat
  OBVIOUS
<1>2. g[Len(s)] = h[Len(s)]
  BY <1>1, PicksAgree
<1>3. h[Len(t)] = IF Len(t) \in L THEN Append(h[Len(t) - 1], t[Len(t)]) ELSE h[Len(t) - 1]
  <2>1. Len(t) \in 0..Len(t) /\ Len(t) # 0
    BY <1>1
  <2> QED
    BY <2>1 DEF Picks
<1>4. Len(t) - 1 = Len(s)
  BY <1>1
<1> QED
  BY <1>2, <1>3, <1>4
=============================================================================
