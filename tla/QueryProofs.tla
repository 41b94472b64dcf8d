---------------------------- MODULE QueryProofs -----------------------------
(***************************************************************************)
(* Proofs about Query, for texts of any length, in two parts.              *)
(*                                                                         *)
(* The text of replies: what json_escape_dup writes is one escape after    *)
(* the other, the place of each is the sum of the lengths before it        *)
(* (EscapePlaces), and a reader of JSON at the escape of a character goes  *)
(* on with the next one (EscapeIsRead).                                    *)
(*                                                                         *)
(* The meaning of queries: a place the parser has reached Stands in front  *)
(* of one of the lexemes, each of its functions takes the next lexeme or   *)
(* fails (SymbolRead to EndRead), so it reads the sentences of the         *)
(* language, all of them and nothing else (ParserIsRight).  The blanks     *)
(* around a raw body change no lexeme (BlanksAround), and the string of a  *)
(* JSON body is read as the text that was written into it                  *)
(* (EscapesAreString).                                                     *)
(***************************************************************************)
EXTENDS Query, FilterProofs, SequenceTheorems, TLAPS

-----------------------------------------------------------------------------
(* Numbers and sequences.                                                  *)

\* The minimum of a set of numbers is one of them, and no other is smaller.
LEMMA MinIsLeast ==
  ASSUME NEW T, T \subseteq Nat, T # {}
  PROVE  Min(T) \in T /\ \A y \in T : Min(T) <= y
<1>1. \E x \in T : \A y \in T : x <= y
  BY LeastNumber
<1> QED
  BY <1>1 DEF Min

-----------------------------------------------------------------------------
(* Recursive functions that look ahead: the value at a place is made from   *)
(* the value at a later one, up to a place in K.                            *)

Looks(m, K, pre, next, f) ==
  \A i \in 1..m : f[i] = IF i \in K THEN <<>> ELSE pre[i] \o f[next[i]]

\* Such a function exists: it is built from the last place to the first.
LEMMA LooksExist ==
  ASSUME NEW m \in Nat, NEW S, NEW K, NEW pre, NEW next,
         \A i \in 1..m : i \notin K => pre[i] \in Seq(S) /\ next[i] \in i + 1..m
  PROVE  \E f \in [1..m -> Seq(S)] : Looks(m, K, pre, next, f)
<1> DEFINE Step(f, i) == f[i] = IF i \in K THEN <<>> ELSE pre[i] \o f[next[i]]
           T == {d \in Nat : \E f \in [1..m -> Seq(S)] :
                               \A i \in 1..m : i > m - d => Step(f, i)}
<1>1. 0 \in T
  <2> DEFINE f == [i \in 1..m |-> <<>>]
  <2>1. f \in [1..m -> Seq(S)]
    BY EmptySeq
  <2>2. \A i \in 1..m : ~(i > m - 0)
    OBVIOUS
  <2> HIDE DEF f
  <2> QED
    BY <2>1, <2>2
<1>2. ASSUME NEW d \in 0..m - 1, d \in T PROVE d + 1 \in T
  <2>1. PICK f \in [1..m -> Seq(S)] : \A i \in 1..m : i > m - d => Step(f, i)
    BY <1>2
  <2> DEFINE k == m - d
             v == IF k \in K THEN <<>> ELSE pre[k] \o f[next[k]]
             g == [f EXCEPT ![k] = v]
  <2>2. k \in 1..m
    OBVIOUS
  <2>3. v \in Seq(S)
    <3>1. CASE k \in K
      BY <3>1, EmptySeq
    <3>2. CASE k \notin K
      <4>1. pre[k] \in Seq(S) /\ next[k] \in 1..m
        BY <2>2, <3>2
      <4>2. f[next[k]] \in Seq(S)
        BY <4>1
      <4> QED
        BY <3>2, <4>1, <4>2, ConcatProperties
    <3> QED
      BY <3>1, <3>2
  <2> HIDE DEF v
  <2>4. g \in [1..m -> Seq(S)] /\ g[k] = v /\ \A i \in 1..m : i # k => g[i] = f[i]
    BY <2>2, <2>3
  <2> HIDE DEF g
  <2>5. ASSUME NEW i \in 1..m, i > m - (d + 1) PROVE Step(g, i)
    <3>1. i \in k..m
      BY <2>5
    <3>2. i \notin K => next[i] \in i + 1..m /\ next[i] \in 1..m /\ next[i] # k
      BY <3>1
    <3>3. CASE i = k
      BY <2>4, <3>2, <3>3 DEF v
    <3>4. CASE i # k
      <4>1. i > m - d
        BY <3>1, <3>4
      <4> QED
        BY <2>1, <2>4, <3>2, <3>4, <4>1
    <3> QED
      BY <3>3, <3>4
  <2>6. d + 1 \in Nat
    OBVIOUS
  <2> HIDE DEF Step
  <2> QED
    BY <2>4, <2>5, <2>6
<1> HIDE DEF T
<1>3. 0..m \subseteq T
  BY <1>1, <1>2, SetInduction
<1>4. m \in T
  BY <1>3
<1>5. PICK f \in [1..m -> Seq(S)] : \A i \in 1..m : i > m - m => Step(f, i)
  BY <1>4 DEF T
<1>6. \A i \in 1..m : i > m - m
  OBVIOUS
<1> QED
  BY <1>5, <1>6 DEF Looks

-----------------------------------------------------------------------------
(* The text of a response.                                                  *)

\* E[k] is what json_escape_dup has written after k characters of t.
Escaping(t, E) ==
  E[0] = <<>> /\ \A k \in 1..Len(t) : E[k] = E[k - 1] \o JsonEscape(t[k])

\* An escape has one to six characters.
LEMMA EscapeOfChar ==
  ASSUME NEW c \in Chars
  PROVE  /\ JsonEscape(c) \in Seq(Chars) /\ Len(JsonEscape(c)) \in 1..6
         /\ \A i \in 1..Len(JsonEscape(c)) :
              JsonEscape(c)[i] \notin {"lf", "cr", "tab", "vt"}
<1>1. c \in {"quote", "bslash"} => JsonEscape(c) = <<"bslash", c>>
  BY DEF JsonEscape
<1>2. c = "lf" => JsonEscape(c) = <<"bslash", "n">>
  BY DEF JsonEscape
<1>3. c = "cr" => JsonEscape(c) = <<"bslash", "r">>
  BY DEF JsonEscape
<1>4. c = "tab" => JsonEscape(c) = <<"bslash", "t">>
  BY DEF JsonEscape
<1>5. c = "vt" => JsonEscape(c) = <<"bslash", "u", "0", "0", "0", "b">>
  BY DEF JsonEscape
<1>6. c \notin {"quote", "bslash", "lf", "cr", "tab", "vt"} => JsonEscape(c) = <<c>>
  BY DEF JsonEscape
<1>7. /\ "bslash" \in Chars /\ "n" \in Chars /\ "r" \in Chars /\ "t" \in Chars
      /\ "u" \in Chars /\ "0" \in Chars /\ "b" \in Chars
  BY DEF Chars, Letters, Digits
<1> DEFINE e == JsonEscape(c)
<1> HIDE DEF e
<1>8. CASE c \in {"quote", "bslash"}
  <2>1. e = <<"bslash", c>>
    BY <1>1, <1>8 DEF e
  <2>2. e \in Seq(Chars) /\ Len(e) = 2 /\ e[1] = "bslash" /\ e[2] = c
    BY <1>7, <2>1
  <2> QED
    BY <1>8, <2>2 DEF e
<1>9. CASE c \in {"lf", "cr", "tab"}
  <2>1. PICK x \in {"n", "r", "t"} : e = <<"bslash", x>>
    BY <1>2, <1>3, <1>4, <1>9 DEF e
  <2>2. e \in Seq(Chars) /\ Len(e) = 2 /\ e[1] = "bslash" /\ e[2] \in {"n", "r", "t"}
    BY <1>7, <2>1
  <2> QED
    BY <2>2 DEF e
<1>10. CASE c = "vt"
  <2>1. e = <<"bslash", "u", "0", "0", "0", "b">>
    BY <1>5, <1>10 DEF e
  <2>2. e \in Seq(Chars) /\ Len(e) = 6
    BY <1>7, <2>1
  <2>3. \A i \in 1..6 : e[i] \in {"bslash", "u", "0", "b"}
    BY <2>1
  <2> QED
    BY <2>2, <2>3 DEF e
<1>11. CASE c \notin {"quote", "bslash", "lf", "cr", "tab", "vt"}
  <2>1. e = <<c>>
    BY <1>6, <1>11 DEF e
  <2>2. e \in Seq(Chars) /\ Len(e) = 1 /\ e[1] = c
    BY <2>1
  <2> QED
    BY <1>11, <2>2 DEF e
<1> QED
  BY <1>8, <1>9, <1>10, <1>11

\* The loop of json_escape_dup writes one escape after the other.
LEMMA EscapingIs ==
  ASSUME NEW t \in Seq(Chars)
  PROVE  \E E \in [0..Len(t) -> Seq(Chars)] :
           Escaping(t, E) /\ JsonEscapeDup(t) = E[Len(t)]
<1> DEFINE n == Len(t)
           seqs == [i \in DOMAIN t |-> JsonEscape(t[i])]
           T == {d \in Nat : \E E \in [0..n -> Seq(Chars)] :
                   E[0] = <<>> /\ \A k \in 1..d : E[k] = E[k - 1] \o JsonEscape(t[k])}
<1>1. n \in Nat /\ DOMAIN t = 1..n /\ \A i \in 1..n : t[i] \in Chars
  BY LenProperties, ElementOfSeq
<1>2. \A i \in 1..n : JsonEscape(t[i]) \in Seq(Chars)
  BY <1>1, EscapeOfChar
<1> HIDE DEF n
<1>3. 0 \in T
  <2> DEFINE E == [k \in 0..n |-> <<>>]
  <2>1. E \in [0..n -> Seq(Chars)] /\ E[0] = <<>>
    BY <1>1, EmptySeq
  <2>2. \A k \in 1..0 : FALSE
    OBVIOUS
  <2> HIDE DEF E
  <2> QED
    BY <2>1, <2>2
<1>4. ASSUME NEW d \in 0..n - 1, d \in T PROVE d + 1 \in T
  <2>1. PICK E \in [0..n -> Seq(Chars)] :
          E[0] = <<>> /\ \A k \in 1..d : E[k] = E[k - 1] \o JsonEscape(t[k])
    BY <1>4
  <2> DEFINE v == E[d] \o JsonEscape(t[d + 1])
             F == [E EXCEPT ![d + 1] = v]
  <2>2. d \in 0..n /\ d + 1 \in 1..n /\ d + 1 \in Nat
    BY <1>1
  <2>3. v \in Seq(Chars)
    <3>1. E[d] \in Seq(Chars)
      BY <2>2
    <3> QED
      BY <1>2, <2>2, <3>1, ConcatProperties
  <2>4. F \in [0..n -> Seq(Chars)] /\ F[d + 1] = v /\ \A k \in 0..d : F[k] = E[k]
    BY <1>1, <2>2, <2>3
  <2> HIDE DEF F
  <2>5. ASSUME NEW k \in 1..d + 1 PROVE F[k] = F[k - 1] \o JsonEscape(t[k])
    <3>1. CASE k = d + 1
      <4>1. k - 1 = d /\ d \in 0..d
        BY <2>2, <3>1
      <4> QED
        BY <2>4, <3>1, <4>1
    <3>2. CASE k # d + 1
      <4>1. k \in 1..d /\ k \in 0..d /\ k - 1 \in 0..d
        BY <2>2, <3>2
      <4> QED
        BY <2>1, <2>4, <4>1
    <3> QED
      BY <3>1, <3>2
  <2>6. F[0] = <<>>
    BY <2>1, <2>2, <2>4
  <2> QED
    BY <2>2, <2>4, <2>5, <2>6
<1> HIDE DEF T
<1>5. n \in T
  <2>1. 0..n \subseteq T
    BY <1>1, <1>3, <1>4, SetInduction
  <2> QED
    BY <1>1, <2>1
<1>6. PICK E \in [0..n -> Seq(Chars)] :
        E[0] = <<>> /\ \A k \in 1..n : E[k] = E[k - 1] \o JsonEscape(t[k])
  BY <1>5 DEF T
<1>7. Escaping(t, E)
  BY <1>6 DEF Escaping, n
<1>8. Len(seqs) = n /\ \A i \in 1..n : seqs[i] = JsonEscape(t[i])
  BY <1>1
<1>9. CASE n = 0
  <2>1. FlattenSeq(seqs) = seqs
    BY <1>8, <1>9 DEF FlattenSeq
  <2>2. seqs = <<>>
    BY <1>1, <1>9
  <2> QED
    BY <1>6, <1>7, <1>9, <2>1, <2>2 DEF JsonEscapeDup, n
<1>10. CASE n # 0
  <2> DEFINE Eq(f) == f = [i \in 1..n |-> IF i = 1 THEN seqs[i] ELSE f[i - 1] \o seqs[i]]
             flat == CHOOSE f : Eq(f)
  <2>1. FlattenSeq(seqs) = flat[n]
    BY <1>8, <1>10 DEF FlattenSeq
  <2>2. Eq(flat)
    <3> DEFINE g == [i \in 1..n |-> E[i]]
    <3>1. ASSUME NEW i \in 1..n
          PROVE  g[i] = IF i = 1 THEN seqs[i] ELSE g[i - 1] \o seqs[i]
      <4>1. E[i] = E[i - 1] \o seqs[i]
        BY <1>6, <1>8
      <4>2. CASE i = 1
        <5>1. E[i] = <<>> \o JsonEscape(t[i])
          <6>1. i - 1 = 0
            BY <4>2
          <6> QED
            BY <1>6, <6>1
        <5> QED
          BY <1>2, <1>8, <4>2, <5>1, ConcatEmptySeq
      <4>3. CASE i # 1
        <5>1. i - 1 \in 1..n
          BY <1>1, <4>3
        <5> QED
          BY <4>1, <4>3, <5>1
      <4> QED
        BY <4>2, <4>3
    <3>2. g = [i \in 1..n |-> g[i]]
      OBVIOUS
    <3> HIDE DEF g, seqs
    <3>3. Eq(g)
      BY <3>1, <3>2
    <3> QED
      BY <3>3
  <2> HIDE DEF flat
  <2> DEFINE U == {d \in Nat : d + 1 <= n => flat[d + 1] = E[d + 1]}
  <2>3. 0 \in U
    <3>1. 1 \in 1..n /\ flat[1] = seqs[1]
      BY <1>1, <1>10, <2>2
    <3>2. E[1] = <<>> \o JsonEscape(t[1])
      <4>1. 1 - 1 = 0
        OBVIOUS
      <4> QED
        BY <1>6, <3>1, <4>1
    <3>3. E[1] = seqs[1]
      BY <1>2, <1>8, <3>1, <3>2, ConcatEmptySeq
    <3> QED
      BY <3>1, <3>3
  <2>4. ASSUME NEW d \in 0..n - 1, d \in U PROVE d + 1 \in U
    <3>1. ASSUME d + 2 <= n PROVE flat[d + 2] = E[d + 2]
      <4>1. d + 2 \in 1..n /\ d + 2 # 1 /\ (d + 2) - 1 = d + 1 /\ d + 1 <= n
        BY <1>1, <3>1
      <4>2. flat[d + 2] = flat[d + 1] \o seqs[d + 2]
        BY <2>2, <4>1
      <4>3. E[d + 2] = E[d + 1] \o seqs[d + 2]
        BY <1>6, <1>8, <4>1
      <4> QED
        BY <2>4, <4>1, <4>2, <4>3
    <3>2. d + 1 + 1 = d + 2 /\ d + 1 \in Nat
      OBVIOUS
    <3> QED
      BY <3>1, <3>2
  <2> HIDE DEF U
  <2>5. n - 1 \in U
    <3>1. 0..n \subseteq U
      BY <1>1, <2>3, <2>4, SetInduction
    <3> QED
      BY <1>1, <1>10, <3>1
  <2>6. flat[n] = E[n]
    <3>1. n - 1 + 1 = n
      BY <1>1
    <3> QED
      BY <1>1, <2>5, <3>1 DEF U
  <2> QED
    BY <1>7, <2>1, <2>6 DEF JsonEscapeDup, n
<1> QED
  BY <1>9, <1>10

\* Where the escape of the character k + 1 stands in the escaped text.
LEMMA EscapePlaces ==
  ASSUME NEW t \in Seq(Chars), NEW E \in [0..Len(t) -> Seq(Chars)], Escaping(t, E),
         NEW k \in 0..Len(t) - 1
  PROVE  /\ t[k + 1] \in Chars
         /\ Len(E[k]) \in Nat /\ Len(E[Len(t)]) \in Nat
         /\ Len(E[k + 1]) = Len(E[k]) + Len(JsonEscape(t[k + 1]))
         /\ Len(E[k + 1]) <= Len(E[Len(t)])
         /\ \A j \in 1..Len(JsonEscape(t[k + 1])) :
              E[Len(t)][Len(E[k]) + j] = JsonEscape(t[k + 1])[j]
<1> DEFINE n == Len(t)  esc == JsonEscape(t[k + 1])
           Begins(x, y) == Len(x) <= Len(y) /\ \A j \in 1..Len(x) : y[j] = x[j]
           T == {d \in Nat : k + 1 + d <= n => Begins(E[k + 1], E[k + 1 + d])}
<1>1. n \in Nat /\ k \in Nat /\ k + 1 \in 1..n /\ t[k + 1] \in Chars
  BY LenProperties, ElementOfSeq
<1>2. \A i \in 0..n : E[i] \in Seq(Chars) /\ Len(E[i]) \in Nat
  BY LenProperties
<1>3. /\ esc \in Seq(Chars) /\ Len(esc) \in 1..6
      /\ E[k + 1] = E[k] \o esc
  <2>1. E[k + 1] = E[k + 1 - 1] \o esc /\ k + 1 - 1 = k
    <3>1. \A j \in 1..n : E[j] = E[j - 1] \o JsonEscape(t[j])
      BY DEF Escaping
    <3>2. k + 1 - 1 = k
      BY <1>1
    <3> DEFINE i == k + 1
    <3>3. i \in 1..n
      BY <1>1
    <3> HIDE DEF i
    <3>4. E[i] = E[i - 1] \o JsonEscape(t[i])
      BY ONLY <3>1, <3>3
    <3> QED
      BY <3>2, <3>4 DEF i
  <2> QED
    BY <1>1, <2>1, EscapeOfChar
<1> HIDE DEF n, esc
<1>4. /\ Len(E[k + 1]) = Len(E[k]) + Len(esc)
      /\ \A j \in 1..Len(E[k]) + Len(esc) :
           E[k + 1][j] = IF j <= Len(E[k]) THEN E[k][j] ELSE esc[j - Len(E[k])]
  <2>1. E[k] \in Seq(Chars)
    BY <1>1, <1>2
  <2> QED
    BY <1>3, <2>1, ConcatProperties
<1>5. 0 \in T
  <2>1. k + 1 + 0 = k + 1 /\ Len(E[k + 1]) \in Nat
    BY <1>1, <1>2
  <2> QED
    BY <2>1
<1>6. ASSUME NEW d \in 0..n - 1, d \in T PROVE d + 1 \in T
  <2>1. d + 1 \in Nat
    OBVIOUS
  <2>2. SUFFICES ASSUME k + 1 + (d + 1) <= n PROVE Begins(E[k + 1], E[k + 1 + (d + 1)])
    BY <2>1
  <2> DEFINE i == k + 1 + d
  <2>3. i \in 0..n /\ i + 1 \in 1..n /\ k + 1 + (d + 1) = i + 1 /\ i <= n
    BY <1>1, <2>2
  <2>4. E[i + 1] = E[i] \o JsonEscape(t[i + 1])
    <3>1. i + 1 - 1 = i
      BY <1>1, <2>3
    <3>2. E[i + 1] = E[i + 1 - 1] \o JsonEscape(t[i + 1])
      <4>1. \A j \in 1..n : E[j] = E[j - 1] \o JsonEscape(t[j])
        BY DEF Escaping, n
      <4>2. i + 1 \in 1..n
        BY <2>3
      <4> HIDE DEF i
      <4> QED
        BY ONLY <4>1, <4>2
    <3> HIDE DEF i
    <3> QED
      BY <3>1, <3>2
  <2>5. Begins(E[k + 1], E[i])
    BY <1>6, <2>3
  <2> HIDE DEF i
  <2>6. E[i] \in Seq(Chars) /\ JsonEscape(t[i + 1]) \in Seq(Chars) /\ Len(E[i]) \in Nat
        /\ Len(JsonEscape(t[i + 1])) \in Nat /\ Len(E[k + 1]) \in Nat
    <3>1. t[i + 1] \in Chars
      BY <2>3, ElementOfSeq DEF n
    <3> QED
      BY <1>1, <1>2, <2>3, <3>1, EscapeOfChar
  <2>7. /\ Len(E[i + 1]) = Len(E[i]) + Len(JsonEscape(t[i + 1]))
        /\ \A j \in 1..Len(E[i]) : E[i + 1][j] = E[i][j]
    <3> DEFINE x == E[i]  y == JsonEscape(t[i + 1])
    <3>1. x \in Seq(Chars) /\ y \in Seq(Chars) /\ E[i + 1] = x \o y
      BY <2>4, <2>6
    <3>2. Len(x) \in Nat /\ Len(y) \in Nat
      BY <2>6
    <3> HIDE DEF x, y
    <3>3. /\ Len(x \o y) = Len(x) + Len(y)
          /\ \A j \in 1..Len(x) + Len(y) :
               (x \o y)[j] = IF j <= Len(x) THEN x[j] ELSE y[j - Len(x)]
      BY <3>1, ConcatProperties
    <3>4. \A j \in 1..Len(x) : j \in 1..Len(x) + Len(y) /\ j <= Len(x)
      BY <3>2
    <3> QED
      BY <3>1, <3>3, <3>4 DEF x, y
  <2>8. Begins(E[k + 1], E[i + 1])
    <3>1. \A j \in 1..Len(E[k + 1]) : j \in 1..Len(E[i])
      BY <2>5, <2>6
    <3>2. Len(E[k + 1]) <= Len(E[i + 1])
      <4> DEFINE x == Len(E[k + 1])  y == Len(E[i])  z == Len(E[i + 1])
                 u == Len(JsonEscape(t[i + 1]))
      <4>1. x \in Nat /\ y \in Nat /\ u \in Nat /\ z = y + u /\ x <= y
        BY <2>5, <2>6, <2>7
      <4> HIDE DEF x, y, z, u
      <4>2. x <= z
        BY <4>1
      <4> QED
        BY <4>2 DEF x, z
    <3> QED
      BY <2>5, <2>7, <3>1, <3>2
  <2> QED
    BY <2>3, <2>8
<1> HIDE DEF T
<1>7. n - (k + 1) \in T
  <2>1. 0..n \subseteq T
    BY <1>1, <1>5, <1>6, SetInduction
  <2>2. n - (k + 1) \in 0..n
    BY <1>1
  <2> QED
    BY <2>1, <2>2
<1>8. Begins(E[k + 1], E[n])
  <2>1. k + 1 + (n - (k + 1)) = n
    BY <1>1
  <2> QED
    BY <1>1, <1>7, <2>1 DEF T
<1>9. \A j \in 1..Len(esc) : E[n][Len(E[k]) + j] = esc[j]
  <2> TAKE j \in 1..Len(esc)
  <2>1. Len(E[k]) \in Nat /\ Len(E[k]) + j \in 1..Len(E[k + 1])
    BY <1>1, <1>2, <1>3, <1>4
  <2> DEFINE m == Len(E[k])  i == m + j
  <2>2. /\ i \in 1..m + Len(esc) /\ ~(i <= m) /\ i - m = j
    BY <1>3, <2>1
  <2> HIDE DEF i
  <2>3. E[k + 1][i] = IF i <= m THEN E[k][i] ELSE esc[i - m]
    BY <1>4, <2>2
  <2>4. E[k + 1][i] = esc[j]
    BY <2>2, <2>3
  <2>5. E[n][i] = E[k + 1][i]
    BY <1>8, <2>1 DEF i
  <2> QED
    BY <2>4, <2>5 DEF i
<1>10. k \in 0..n /\ n \in 0..n
  BY <1>1
<1>11. Len(E[k + 1]) = Len(E[k]) + Len(esc)
  BY <1>4
<1> QED
  BY <1>1, <1>2, <1>8, <1>9, <1>10, <1>11 DEF n, esc

\* Six times the text is room enough, and no control character is written.
LEMMA EscapedFits ==
  ASSUME NEW t \in Seq(Chars)
  PROVE  /\ JsonEscapeDup(t) \in Seq(Chars)
         /\ Len(JsonEscapeDup(t)) + 1 <= 6 * Len(t) + 1
         /\ Range(JsonEscapeDup(t)) \cap {"lf", "cr", "tab", "vt"} = {}
<1>1. PICK E \in [0..Len(t) -> Seq(Chars)] :
        Escaping(t, E) /\ JsonEscapeDup(t) = E[Len(t)]
  BY EscapingIs
<1> DEFINE n == Len(t)
           Fits(x, d) == /\ Len(x) <= 6 * d
                         /\ \A i \in 1..Len(x) : x[i] \notin {"lf", "cr", "tab", "vt"}
           T == {d \in Nat : d <= n => Fits(E[d], d)}
<1>2. n \in Nat /\ \A i \in 0..n : E[i] \in Seq(Chars) /\ Len(E[i]) \in Nat
  BY LenProperties
<1> HIDE DEF n
<1>3. 0 \in T
  <2>1. E[0] = <<>> /\ Len(E[0]) = 0
    BY <1>1, EmptySeq DEF Escaping
  <2> QED
    BY <2>1
<1>4. ASSUME NEW d \in 0..n - 1, d \in T PROVE d + 1 \in T
  <2>1. d + 1 \in Nat /\ d \in 0..n /\ d + 1 \in 1..n /\ d + 1 - 1 = d /\ d <= n
    BY <1>2
  <2> DEFINE esc == JsonEscape(t[d + 1])
  <2>2. E[d + 1] = E[d] \o esc
    <3>1. E[d + 1] = E[d + 1 - 1] \o esc
      <4>1. \A j \in 1..n : E[j] = E[j - 1] \o JsonEscape(t[j])
        BY <1>1 DEF Escaping, n
      <4> QED
        BY <2>1, <4>1
    <3> QED
      BY <2>1, <3>1
  <2>3. /\ esc \in Seq(Chars) /\ Len(esc) \in 1..6
        /\ \A i \in 1..Len(esc) : esc[i] \notin {"lf", "cr", "tab", "vt"}
    <3>1. t[d + 1] \in Chars
      BY <2>1, ElementOfSeq DEF n
    <3> QED
      BY <3>1, EscapeOfChar
  <2> HIDE DEF esc
  <2>4. E[d] \in Seq(Chars) /\ Len(E[d]) \in Nat /\ Fits(E[d], d)
    BY <1>2, <1>4, <2>1
  <2>5. /\ Len(E[d + 1]) = Len(E[d]) + Len(esc)
        /\ \A j \in 1..Len(E[d]) + Len(esc) :
             E[d + 1][j] = IF j <= Len(E[d]) THEN E[d][j] ELSE esc[j - Len(E[d])]
    BY <2>2, <2>3, <2>4, ConcatProperties
  <2>6. Len(E[d + 1]) <= 6 * (d + 1)
    <3> DEFINE x == Len(E[d])  y == Len(esc)  z == Len(E[d + 1])
    <3>1. x \in Nat /\ y \in 1..6 /\ x <= 6 * d /\ z = x + y /\ d \in Nat
      BY <2>1, <2>3, <2>4, <2>5
    <3> HIDE DEF x, y, z
    <3>2. z <= 6 * (d + 1)
      BY <3>1
    <3> QED
      BY <3>2 DEF z
  <2>7. ASSUME NEW j \in 1..Len(E[d + 1])
        PROVE  E[d + 1][j] \notin {"lf", "cr", "tab", "vt"}
    <3>1. CASE j <= Len(E[d])
      BY <2>4, <2>5, <3>1
    <3>2. CASE ~(j <= Len(E[d]))
      <4>1. j - Len(E[d]) \in 1..Len(esc)
        BY <2>3, <2>4, <2>5, <3>2
      <4> QED
        BY <2>3, <2>4, <2>5, <3>2, <4>1
    <3> QED
      BY <3>1, <3>2
  <2> QED
    BY <2>1, <2>6, <2>7
<1> HIDE DEF T
<1>5. n \in T
  <2>1. 0..n \subseteq T
    BY <1>2, <1>3, <1>4, SetInduction
  <2> QED
    BY <1>2, <2>1
<1>6. E[n] \in Seq(Chars) /\ Len(E[n]) \in Nat /\ Fits(E[n], n)
  BY <1>2, <1>5 DEF T
<1>7. Range(E[n]) = {E[n][i] : i \in 1..Len(E[n])}
  BY <1>6, RangeEquality
<1> QED
  BY <1>1, <1>2, <1>6, <1>7 DEF n

\* What a reader of JSON does at each place of a string.
Reads(s, r) ==
  \A i \in 1..Len(s) :
    /\ At(s, i) = "quote" => r[i] = <<>>
    /\ At(s, i) = "bslash" /\ At(s, i + 1) = "u" => r[i] = <<"vt">> \o r[i + 6]
    /\ At(s, i) = "bslash" /\ At(s, i + 1) # "u" =>
         r[i] = <<Unescaped(At(s, i + 1))>> \o r[i + 2]
    /\ At(s, i) \notin {"quote", "bslash"} => r[i] = <<At(s, i)>> \o r[i + 1]

\* JsonRead is the function that Reads describes.
LEMMA JsonReadIs ==
  ASSUME NEW s \in Seq(Chars)
  PROVE  \E r : Reads(s, r) /\ JsonRead(s) = r[1]
<1> DEFINE m == Len(s) + 6
           Code(i) == At(s, i) = "bslash" /\ At(s, i + 1) = "u"
           Short(i) == At(s, i) = "bslash" /\ At(s, i + 1) # "u"
           K == {i \in 1..m : i > Len(s) \/ At(s, i) = "quote"}
           pre == [i \in 1..m |-> IF Code(i) THEN <<"vt">>
                                  ELSE IF Short(i) THEN <<Unescaped(At(s, i + 1))>>
                                  ELSE <<At(s, i)>>]
           next == [i \in 1..m |-> IF Code(i) THEN i + 6
                                   ELSE IF Short(i) THEN i + 2 ELSE i + 1]
           S == Chars \cup {"nul"}
           Body(r, i) == CASE i > Len(s) \/ At(s, i) = "quote" -> <<>>
                           [] At(s, i) = "bslash" /\ At(s, i + 1) = "u" -> <<"vt">> \o r[i + 6]
                           [] At(s, i) = "bslash" /\ At(s, i + 1) # "u" ->
                                <<Unescaped(At(s, i + 1))>> \o r[i + 2]
                           [] OTHER -> <<At(s, i)>> \o r[i + 1]
           Eq(r) == r = [i \in 1..m |-> Body(r, i)]
           read == CHOOSE r : Eq(r)
<1>1. Len(s) \in Nat /\ m \in Nat /\ m = Len(s) + 6
  BY LenProperties
<1>2. \A i \in Int : At(s, i) \in S
  <2> TAKE i \in Int
  <2>1. CASE i \in 1..Len(s)
    BY <2>1, ElementOfSeq DEF At
  <2>2. CASE i \notin 1..Len(s)
    BY <2>2 DEF At
  <2> QED
    BY <2>1, <2>2
<1>3. \A x \in S : Unescaped(x) \in S
  <2>1. {"lf", "cr", "tab"} \subseteq S
    BY DEF Chars, Blanks
  <2> QED
    BY <2>1 DEF Unescaped
<1>4. "vt" \in S
  BY DEF Chars, Blanks
<1> HIDE DEF m, S
<1>5. ASSUME NEW i \in 1..m, i \notin K
      PROVE  pre[i] \in Seq(S) /\ next[i] \in i + 1..m
  <2>1. i \in 1..Len(s) /\ i \in Int /\ i + 1 \in Int
    BY <1>1, <1>5
  <2>2. next[i] \in {i + 6, i + 2, i + 1}
    OBVIOUS
  <2>3. next[i] \in i + 1..m
    BY <1>1, <2>1, <2>2
  <2>4. PICK x \in S : pre[i] = <<x>>
    BY <1>2, <1>3, <1>4, <2>1
  <2> QED
    BY <2>3, <2>4
<1> HIDE DEF K, pre, next
<1>6. PICK f \in [1..m -> Seq(S)] : Looks(m, K, pre, next, f)
  BY <1>1, <1>5, LooksExist
<1>7. ASSUME NEW i \in 1..m PROVE f[i] = Body(f, i)
  <2>1. f[i] = IF i \in K THEN <<>> ELSE pre[i] \o f[next[i]]
    BY <1>6 DEF Looks
  <2>2. CASE i \in K
    <3>1. f[i] = <<>> /\ (i > Len(s) \/ At(s, i) = "quote")
      BY <2>1, <2>2 DEF K
    <3>2. At(s, i) # "bslash"
      BY <1>1, <3>1 DEF At
    <3> QED
      BY <3>1, <3>2
  <2>3. CASE i \notin K
    <3>1. ~(i > Len(s)) /\ At(s, i) # "quote"
      BY <2>3 DEF K
    <3>2. CASE Code(i)
      BY <2>1, <2>3, <3>1, <3>2 DEF pre, next
    <3>3. CASE Short(i)
      BY <2>1, <2>3, <3>1, <3>3 DEF pre, next
    <3>4. CASE At(s, i) # "bslash"
      BY <2>1, <2>3, <3>1, <3>4 DEF pre, next
    <3> QED
      BY <3>2, <3>3, <3>4
  <2> QED
    BY <2>2, <2>3
<1> HIDE DEF Body
<1>8. Eq(read)
  <2>1. f = [i \in 1..m |-> Body(f, i)]
    BY <1>7
  <2> QED
    BY <2>1
<1>9. JsonRead(s) = read[1]
  BY DEF JsonRead, Body, m
<1> HIDE DEF read
<1>10. ASSUME NEW i \in 1..Len(s) PROVE read[i] = Body(read, i) /\ ~(i > Len(s))
  <2>1. i \in 1..m /\ ~(i > Len(s))
    BY <1>1
  <2>2. read = [j \in 1..m |-> Body(read, j)]
    BY <1>8
  <2>3. read[i] = [j \in 1..m |-> Body(read, j)][i]
    BY <2>2
  <2> QED
    BY ONLY <2>1, <2>3
<1>11. Reads(s, read)
  BY <1>10 DEF Body, Reads
<1> QED
  BY <1>9, <1>11

\* The escape of one character is read as that character.
LEMMA EscapeIsRead ==
  ASSUME NEW s \in Seq(Chars), NEW r, Reads(s, r), NEW c \in Chars, NEW p \in Nat,
         p + Len(JsonEscape(c)) <= Len(s),
         \A j \in 1..Len(JsonEscape(c)) : s[p + j] = JsonEscape(c)[j]
  PROVE  r[p + 1] = <<c>> \o r[p + Len(JsonEscape(c)) + 1]
<1>1. Len(s) \in Nat
  BY LenProperties
<1>2. CASE c \in {"quote", "bslash"}
  <2>1. JsonEscape(c) = <<"bslash", c>>
    BY <1>2 DEF JsonEscape
  <2>2. Len(JsonEscape(c)) = 2 /\ JsonEscape(c)[1] = "bslash" /\ JsonEscape(c)[2] = c
    BY <2>1
  <2>3. /\ p + 1 \in 1..Len(s) /\ s[p + 1] = "bslash"
        /\ p + 1 + 1 \in 1..Len(s) /\ s[p + 2] = c /\ p + 1 + 1 = p + 2
    BY <1>1, <2>2
  <2>4. At(s, p + 1) = "bslash" /\ At(s, p + 1 + 1) = c
    BY <2>3 DEF At
  <2>5. Unescaped(c) = c /\ c # "u"
    BY <1>2 DEF Unescaped
  <2>6. r[p + 1] = <<c>> \o r[p + 1 + 2]
    BY <2>3, <2>4, <2>5 DEF Reads
  <2>7. p + 1 + 2 = p + 2 + 1
    OBVIOUS
  <2> QED
    BY <2>2, <2>6, <2>7
<1>3. CASE c \in {"lf", "cr", "tab"}
  <2>1. PICK x \in {"n", "r", "t"} : JsonEscape(c) = <<"bslash", x>> /\ Unescaped(x) = c
    <3>1. CASE c = "lf"
      BY <3>1 DEF JsonEscape, Unescaped
    <3>2. CASE c = "cr"
      BY <3>2 DEF JsonEscape, Unescaped
    <3>3. CASE c = "tab"
      BY <3>3 DEF JsonEscape, Unescaped
    <3> QED
      BY <1>3, <3>1, <3>2, <3>3
  <2>2. Len(JsonEscape(c)) = 2 /\ JsonEscape(c)[1] = "bslash" /\ JsonEscape(c)[2] = x
    BY <2>1
  <2>3. /\ p + 1 \in 1..Len(s) /\ s[p + 1] = "bslash"
        /\ p + 1 + 1 \in 1..Len(s) /\ s[p + 2] = x /\ p + 1 + 1 = p + 2
    BY <1>1, <2>2
  <2>4. At(s, p + 1) = "bslash" /\ At(s, p + 1 + 1) = x /\ x # "u"
    BY <2>3 DEF At
  <2>5. r[p + 1] = <<c>> \o r[p + 1 + 2]
    BY <2>1, <2>3, <2>4 DEF Reads
  <2>6. p + 1 + 2 = p + 2 + 1
    OBVIOUS
  <2> QED
    BY <2>2, <2>5, <2>6
<1>4. CASE c = "vt"
  <2>1. JsonEscape(c) = <<"bslash", "u", "0", "0", "0", "b">>
    BY <1>4 DEF JsonEscape
  <2>2. Len(JsonEscape(c)) = 6 /\ JsonEscape(c)[1] = "bslash" /\ JsonEscape(c)[2] = "u"
    BY <2>1
  <2>3. /\ p + 1 \in 1..Len(s) /\ s[p + 1] = "bslash"
        /\ p + 1 + 1 \in 1..Len(s) /\ s[p + 2] = "u" /\ p + 1 + 1 = p + 2
    BY <1>1, <2>2
  <2>4. At(s, p + 1) = "bslash" /\ At(s, p + 1 + 1) = "u"
    BY <2>3 DEF At
  <2>5. r[p + 1] = <<"vt">> \o r[p + 1 + 6]
    BY <2>3, <2>4 DEF Reads
  <2>6. p + 1 + 6 = p + 6 + 1
    OBVIOUS
  <2> QED
    BY <1>4, <2>2, <2>5, <2>6
<1>5. CASE c \notin {"quote", "bslash", "lf", "cr", "tab", "vt"}
  <2>1. JsonEscape(c) = <<c>>
    BY <1>5 DEF JsonEscape
  <2>2. Len(JsonEscape(c)) = 1 /\ JsonEscape(c)[1] = c
    BY <2>1
  <2>3. p + 1 \in 1..Len(s) /\ s[p + 1] = c
    BY <1>1, <2>2
  <2>4. At(s, p + 1) = c
    BY <2>3 DEF At
  <2>5. r[p + 1] = <<c>> \o r[p + 1 + 1]
    BY <1>5, <2>3, <2>4 DEF Reads
  <2> QED
    BY <2>2, <2>5
<1> QED
  BY <1>2, <1>3, <1>4, <1>5

\* A reader undoes the escapes one after the other.
LEMMA EscapesAreRead ==
  ASSUME NEW t \in Seq(Chars), NEW s \in Seq(Chars), NEW r, Reads(s, r),
         Len(JsonEscapeDup(t)) < Len(s), s[Len(JsonEscapeDup(t)) + 1] = "quote",
         \A i \in 1..Len(JsonEscapeDup(t)) : s[i] = JsonEscapeDup(t)[i]
  PROVE  r[1] = t
<1>1. PICK E \in [0..Len(t) -> Seq(Chars)] :
        Escaping(t, E) /\ JsonEscapeDup(t) = E[Len(t)]
  BY EscapingIs
<1> DEFINE n == Len(t)
           U == {d \in Nat : d <= n => r[Len(E[n - d]) + 1] = SubSeq(t, n - d + 1, n)}
<1>2. n \in Nat /\ Len(s) \in Nat /\ \A i \in 0..n : Len(E[i]) \in Nat
  BY LenProperties
<1>3. /\ JsonEscapeDup(t) = E[n] /\ Len(E[n]) < Len(s) /\ s[Len(E[n]) + 1] = "quote"
      /\ \A i \in 1..Len(E[n]) : s[i] = E[n][i]
  BY <1>1
<1>4. ASSUME NEW k \in 0..n - 1
      PROVE  /\ t[k + 1] \in Chars
             /\ Len(E[k + 1]) = Len(E[k]) + Len(JsonEscape(t[k + 1]))
             /\ Len(E[k + 1]) <= Len(E[n])
             /\ \A j \in 1..Len(JsonEscape(t[k + 1])) :
                  E[n][Len(E[k]) + j] = JsonEscape(t[k + 1])[j]
  BY <1>1, EscapePlaces
<1>5. Len(E[0]) = 0
  <2>1. E[0] = <<>>
    BY <1>1 DEF Escaping
  <2> QED
    BY <2>1, EmptySeq
<1> HIDE DEF n
<1>6. 0 \in U
  <2>1. Len(E[n]) + 1 \in 1..Len(s) /\ n - 0 = n /\ n - 0 + 1 > n
    BY <1>2, <1>3
  <2>2. At(s, Len(E[n]) + 1) = "quote"
    BY <1>3, <2>1 DEF At
  <2>3. r[Len(E[n]) + 1] = <<>>
    BY <2>1, <2>2 DEF Reads
  <2>4. SubSeq(t, n - 0 + 1, n) = <<>>
    BY <1>2, <2>1, SubSeqEmpty
  <2> QED
    BY <2>1, <2>3, <2>4
<1>7. ASSUME NEW d \in 0..n - 1, d \in U PROVE d + 1 \in U
  <2> DEFINE k == n - d - 1
             esc == JsonEscape(t[k + 1])
             p == Len(E[k])
  <2>1. /\ k \in 0..n - 1 /\ k \in 0..n /\ k + 1 \in 0..n /\ n - (d + 1) = k
        /\ n - d = k + 1 /\ k + 1 \in 1..n /\ n \in k + 1..n /\ d <= n /\ d + 1 \in Nat
    BY <1>2
  <2> HIDE DEF k
  <2>2. /\ t[k + 1] \in Chars /\ Len(E[k + 1]) = p + Len(esc) /\ Len(E[k + 1]) <= Len(E[n])
        /\ \A j \in 1..Len(esc) : E[n][p + j] = esc[j]
    BY <1>4, <2>1
  <2>3. p \in Nat /\ Len(esc) \in 1..6 /\ Len(E[n]) \in Nat
    <3>1. n \in 0..n
      BY <1>2
    <3> QED
      BY <1>2, <2>1, <2>2, <3>1, EscapeOfChar
  <2>4. r[p + 1] = <<t[k + 1]>> \o r[p + Len(esc) + 1]
    <3>1. p + Len(esc) <= Len(s)
      <4>1. p + Len(esc) <= Len(E[n])
        BY <2>2
      <4> HIDE DEF p, esc
      <4> QED
        BY <1>2, <1>3, <2>3, <4>1
    <3>2. \A j \in 1..Len(esc) : s[p + j] = esc[j]
      <4> TAKE j \in 1..Len(esc)
      <4>1. p + j \in 1..Len(E[n])
        <5>1. p + Len(esc) <= Len(E[n])
          BY <2>2
        <5> HIDE DEF p, esc
        <5> QED
          BY <2>3, <5>1
      <4>2. s[p + j] = E[n][p + j]
        BY <1>3, <4>1
      <4> QED
        BY <2>2, <4>2
    <3> DEFINE c == t[k + 1]
    <3>3. c \in Chars /\ esc = JsonEscape(c)
      BY <2>2
    <3> HIDE DEF p, c, esc
    <3>4. r[p + 1] = <<c>> \o r[p + Len(JsonEscape(c)) + 1]
      BY <2>3, <3>1, <3>2, <3>3, EscapeIsRead
    <3> QED
      BY <3>3, <3>4 DEF c
  <2>5. r[Len(E[k + 1]) + 1] = SubSeq(t, k + 2, n)
    <3>1. r[Len(E[n - d]) + 1] = SubSeq(t, n - d + 1, n)
      BY <1>7, <2>1
    <3>2. n - d + 1 = k + 2
      BY <1>2, <2>1
    <3> QED
      BY <2>1, <3>1, <3>2
  <2>6. SubSeq(t, k + 1, n) = <<t[k + 1]>> \o SubSeq(t, k + 2, n)
    <3>1. k + 1 + 1 = k + 2
      BY <2>1
    <3>2. k + 1 \in 1..Len(t) /\ n \in k + 1..Len(t)
      BY <2>1 DEF n
    <3> QED
      BY <3>1, <3>2, SubSeqRecursiveFirst
  <2>7. r[p + 1] = SubSeq(t, k + 1, n)
    BY <2>2, <2>4, <2>5, <2>6
  <2>8. r[Len(E[n - (d + 1)]) + 1] = SubSeq(t, n - (d + 1) + 1, n)
    BY <2>1, <2>7
  <2> QED
    BY <2>1, <2>8
<1> HIDE DEF U
<1>8. n \in U
  <2>1. 0..n \subseteq U
    BY <1>2, <1>6, <1>7, SetInduction
  <2> QED
    BY <1>2, <2>1
<1>9. r[Len(E[n - n]) + 1] = SubSeq(t, n - n + 1, n)
  BY <1>2, <1>8 DEF U
<1>10. n - n = 0 /\ n - n + 1 = 1 /\ Len(E[0]) + 1 = 1
  BY <1>2, <1>5
<1>11. SubSeq(t, 1, n) = t
  BY SubSeqFull DEF n
<1> QED
  BY <1>9, <1>10, <1>11

\* A reader of a reply finds the text in the string, and stops at its end.
LEMMA JsonReadBack ==
  ASSUME NEW t \in Seq(Chars)
  PROVE  JsonRead(JsonEscapeDup(t) \o <<"quote", ",", "quote">>) = t
<1> DEFINE esc == JsonEscapeDup(t)
           rest == <<"quote", ",", "quote">>
           s == esc \o rest
<1>1. esc \in Seq(Chars) /\ Len(esc) \in Nat
  BY EscapedFits, LenProperties
<1>2. rest \in Seq(Chars) /\ Len(rest) = 3 /\ rest[1] = "quote"
  <2>1. "quote" \in Chars /\ "," \in Chars
    BY DEF Chars
  <2>2. <<"quote", ",", "quote">> \in Seq(Chars)
    <3>1. \A x, y \in Chars : <<x, y, x>> \in Seq(Chars)
      OBVIOUS
    <3> QED
      BY <2>1, <3>1
  <2>3. Len(<<"quote", ",", "quote">>) = 3 /\ <<"quote", ",", "quote">>[1] = "quote"
    OBVIOUS
  <2> QED
    BY <2>2, <2>3
<1> HIDE DEF esc, rest
<1>3. /\ s \in Seq(Chars) /\ Len(s) = Len(esc) + 3
      /\ \A i \in 1..Len(esc) + 3 : s[i] = IF i <= Len(esc) THEN esc[i] ELSE rest[i - Len(esc)]
  <2>1. /\ esc \o rest \in Seq(Chars) /\ Len(esc \o rest) = Len(esc) + Len(rest)
        /\ \A i \in 1..Len(esc) + Len(rest) :
             (esc \o rest)[i] = IF i <= Len(esc) THEN esc[i] ELSE rest[i - Len(esc)]
    BY <1>1, <1>2, ConcatProperties
  <2> QED
    BY <1>2, <2>1
<1>4. Len(esc) < Len(s) /\ \A i \in 1..Len(esc) : s[i] = esc[i]
  BY <1>1, <1>3
<1>5. s[Len(esc) + 1] = "quote"
  <2>1. Len(esc) + 1 \in 1..Len(esc) + 3 /\ ~(Len(esc) + 1 <= Len(esc))
        /\ Len(esc) + 1 - Len(esc) = 1
    BY <1>1
  <2> QED
    BY <1>2, <1>3, <2>1
<1> HIDE DEF s
<1>6. PICK r : Reads(s, r) /\ JsonRead(s) = r[1]
  BY <1>3, JsonReadIs
<1>7. r[1] = t
  BY <1>3, <1>4, <1>5, <1>6, EscapesAreRead DEF esc
<1> QED
  BY <1>6, <1>7 DEF s, esc, rest

-----------------------------------------------------------------------------
(* The texts of the behaviours.                                            *)

TextInv == text \in Seq(Chars)

\* The texts a client starts from are texts.
LEMMA TextInitially == Init => TextInv
  BY TextsAssumption DEF Init, TextInv

\* A character more.
LEMMA WriteKeepsTexts ==
  ASSUME TextInv, Write
  PROVE  TextInv'
<1>1. PICK i \in 1..Len(text) + 1, c \in Characters : Edit(InsertAt(text, i, c))
  BY DEF Write
<1>2. text \in Seq(Chars) /\ Len(text) \in Nat /\ c \in Chars
  BY TextsAssumption, LenProperties DEF TextInv
<1>3. SubSeq(text, 1, i - 1) \in Seq(Chars)
  <2>1. \A j \in 1..i - 1 : text[j] \in Chars
    BY <1>2, ElementOfSeq
  <2> QED
    BY <1>2, <2>1, SubSeqProperties
<1>4. SubSeq(text, i, Len(text)) \in Seq(Chars)
  <2>1. \A j \in i..Len(text) : text[j] \in Chars
    BY <1>2, ElementOfSeq
  <2> QED
    BY <1>2, <2>1, SubSeqProperties
<1>5. <<c>> \in Seq(Chars)
  BY <1>2
<1>6. InsertAt(text, i, c) \in Seq(Chars)
  <2>1. SubSeq(text, 1, i - 1) \o <<c>> \in Seq(Chars)
    BY <1>3, <1>5, ConcatProperties
  <2> QED
    BY <1>4, <2>1, ConcatProperties DEF InsertAt
<1> QED
  BY <1>1, <1>6 DEF Edit, TextInv

\* Another character at a place.
LEMMA ReplaceKeepsTexts ==
  ASSUME TextInv, Replace
  PROVE  TextInv'
<1>1. PICK i \in DOMAIN text, c \in Characters : Edit([text EXCEPT ![i] = c])
  BY DEF Replace
<1>2. text \in Seq(Chars) /\ i \in 1..Len(text) /\ c \in Chars
  BY TextsAssumption, LenProperties DEF TextInv
<1>3. [text EXCEPT ![i] = c] \in Seq(Chars)
  BY <1>2, ExceptSeq
<1> QED
  BY <1>1, <1>3 DEF Edit, TextInv

\* A character less.
LEMMA EraseKeepsTexts ==
  ASSUME TextInv, Erase
  PROVE  TextInv'
<1>1. PICK i \in DOMAIN text : Edit(RemoveAt(text, i))
  BY DEF Erase
<1>2. text \in Seq(Chars) /\ Len(text) \in Nat /\ i \in 1..Len(text)
  BY LenProperties DEF TextInv
<1>3. SubSeq(text, 1, i - 1) \in Seq(Chars)
  <2>1. \A j \in 1..i - 1 : text[j] \in Chars
    BY <1>2, ElementOfSeq
  <2> QED
    BY <1>2, <2>1, SubSeqProperties
<1>4. SubSeq(text, i + 1, Len(text)) \in Seq(Chars)
  <2>1. \A j \in i + 1..Len(text) : text[j] \in Chars
    BY <1>2, ElementOfSeq
  <2> QED
    BY <1>2, <2>1, SubSeqProperties
<1>5. RemoveAt(text, i) \in Seq(Chars)
  BY <1>3, <1>4, ConcatProperties DEF RemoveAt
<1> QED
  BY <1>1, <1>5 DEF Edit, TextInv

\* Every step leaves a text.
LEMMA NextKeepsTexts ==
  ASSUME TextInv, [Next]_vars
  PROVE  TextInv'
<1>1. CASE Write
  BY <1>1, WriteKeepsTexts
<1>2. CASE Replace
  BY <1>2, ReplaceKeepsTexts
<1>3. CASE Erase
  BY <1>3, EraseKeepsTexts
<1>4. CASE Post
  BY <1>4 DEF Post, TextInv
<1>5. CASE UNCHANGED vars
  BY <1>5 DEF vars, TextInv
<1> QED
  BY <1>1, <1>2, <1>3, <1>4, <1>5 DEF Next

\* Whatever text a client sends, and whatever of it the server stores and sends
\* back: the strings json_escape_dup writes end where the server ends them, a
\* reader finds the text in them, and they fit into the memory reserved.
THEOREM ReplyTextIsSafe == Spec => []ReplyTextSurvives
<1>1. TextInv /\ [Next]_vars => TextInv'
  BY NextKeepsTexts
<1>2. TextInv => ReplyTextSurvives
  BY JsonReadBack, EscapedFits DEF TextInv, ReplyTextSurvives
<1> QED
  BY <1>1, <1>2, TextInitially, PTL DEF Spec

-----------------------------------------------------------------------------
(* Runs of characters, and the lexemes of a text.                          *)

\* Skip goes to the end of a run of characters of C.
LEMMA SkipIs ==
  ASSUME NEW s \in Seq(Chars), NEW i \in 1..Len(s) + 1, NEW C
  PROVE  /\ Skip(s, i, C) \in i..Len(s) + 1
         /\ \A j \in i..Skip(s, i, C) - 1 : s[j] \in C
         /\ Skip(s, i, C) <= Len(s) => s[Skip(s, i, C)] \notin C
<1> DEFINE T == {j \in i..Len(s) : s[j] \notin C} \cup {Len(s) + 1}
<1>1. Len(s) \in Nat
  BY LenProperties
<1>2. T \subseteq Nat /\ T # {} /\ \A y \in T : y \in i..Len(s) + 1
  BY <1>1
<1>3. \A y \in T : y = Len(s) + 1 \/ s[y] \notin C
  OBVIOUS
<1>4. \A y \in i..Len(s) : s[y] \notin C => y \in T
  OBVIOUS
<1>5. Skip(s, i, C) = Min(T)
  BY DEF Skip
<1> HIDE DEF T
<1>6. Min(T) \in T /\ \A y \in T : Min(T) <= y
  BY <1>2, MinIsLeast
<1>7. Min(T) \in i..Len(s) + 1
  BY <1>2, <1>6
<1>8. ASSUME NEW j \in i..Min(T) - 1 PROVE s[j] \in C
  <2>1. j \in i..Len(s) /\ ~(Min(T) <= j)
    BY <1>1, <1>7
  <2> QED
    BY <1>4, <1>6, <2>1
<1>9. Min(T) <= Len(s) => s[Min(T)] \notin C
  BY <1>1, <1>3, <1>6, <1>7
<1> QED
  BY <1>5, <1>7, <1>8, <1>9

\* There is only one end of a run.
LEMMA RunEnds ==
  ASSUME NEW s \in Seq(Chars), NEW i \in 1..Len(s) + 1, NEW C, NEW k \in i..Len(s) + 1,
         \A j \in i..k - 1 : s[j] \in C, k <= Len(s) => s[k] \notin C
  PROVE  Skip(s, i, C) = k
<1> DEFINE m == Skip(s, i, C)
<1>1. Len(s) \in Nat /\ i \in Nat /\ k \in Nat
  BY LenProperties
<1>2. /\ m \in i..Len(s) + 1 /\ \A j \in i..m - 1 : s[j] \in C
      /\ m <= Len(s) => s[m] \notin C
  BY SkipIs
<1> HIDE DEF m
<1>3. ~(m < k)
  <2> SUFFICES ASSUME m < k PROVE FALSE
    OBVIOUS
  <2>1. m \in i..k - 1 /\ m <= Len(s)
    BY <1>1, <1>2
  <2> QED
    BY <1>2, <2>1
<1>4. ~(k < m)
  <2> SUFFICES ASSUME k < m PROVE FALSE
    OBVIOUS
  <2>1. k \in i..m - 1 /\ k <= Len(s)
    BY <1>1, <1>2
  <2> QED
    BY <1>2, <2>1
<1> QED
  BY <1>1, <1>2, <1>3, <1>4 DEF m

\* The maximum of a finite set of numbers is one of them, and no other is larger.
LEMMA MaxIsGreatest ==
  ASSUME NEW n \in Nat, NEW T, T \subseteq 0..n, T # {}
  PROVE  Max(T) \in T /\ \A y \in T : Max(T) >= y
<1> DEFINE U == {n - x : x \in T}
<1>1. U \subseteq Nat /\ U # {}
  <2>1. PICK x \in T : TRUE
    OBVIOUS
  <2>2. n - x \in U
    OBVIOUS
  <2>3. \A y \in T : n - y \in Nat
    OBVIOUS
  <2> QED
    BY <2>2, <2>3
<1>2. PICK u \in U : \A y \in U : u <= y
  BY <1>1, LeastNumber
<1>3. PICK x \in T : u = n - x
  BY <1>2
<1>4. ASSUME NEW y \in T PROVE x >= y
  <2>1. n - y \in U
    OBVIOUS
  <2> HIDE DEF U
  <2>2. n - x <= n - y
    BY <1>2, <1>3, <2>1
  <2> QED
    BY <2>2
<1> HIDE DEF U
<1>5. \E z \in T : \A y \in T : z >= y
  BY <1>4
<1> QED
  BY <1>5 DEF Max

\* What a part of a text is made of.
LEMMA PartIs ==
  ASSUME NEW s \in Seq(Chars), NEW i \in 1..Len(s), NEW j \in i..Len(s)
  PROVE  /\ SubSeq(s, i, j) \in Seq(Chars) /\ SubSeq(s, i, j) # <<>>
         /\ Len(SubSeq(s, i, j)) = j - i + 1
         /\ DOMAIN SubSeq(s, i, j) = 1..j - i + 1
         /\ \A k \in 1..j - i + 1 : SubSeq(s, i, j)[k] = s[i + k - 1]
         /\ \A C : Range(SubSeq(s, i, j)) \subseteq C <=> \A k \in i..j : s[k] \in C
<1> DEFINE x == SubSeq(s, i, j)
<1>1. Len(s) \in Nat /\ i \in Int /\ j \in Int /\ i <= j
  BY LenProperties
<1>2. \A k \in i..j : s[k] \in Chars
  BY <1>1, ElementOfSeq
<1>3. /\ x \in Seq(Chars) /\ Len(x) = j - i + 1
      /\ \A k \in 1..j - i + 1 : x[k] = s[i + k - 1]
  BY <1>1, <1>2, SubSeqProperties
<1> HIDE DEF x
<1>4. x # <<>> /\ DOMAIN x = 1..j - i + 1
  <2>1. j - i + 1 # 0
    BY <1>1
  <2> QED
    BY <1>3, <2>1, LenProperties, EmptySeq
<1>5. Range(x) = {x[k] : k \in 1..j - i + 1}
  BY <1>3, RangeEquality
<1>6. ASSUME NEW C PROVE Range(x) \subseteq C <=> \A k \in i..j : s[k] \in C
  <2>1. ASSUME Range(x) \subseteq C, NEW k \in i..j PROVE s[k] \in C
    <3>1. k - i + 1 \in 1..j - i + 1 /\ i + (k - i + 1) - 1 = k
      BY <1>1
    <3>2. x[k - i + 1] = s[k]
      BY <1>3, <3>1
    <3> QED
      BY <1>5, <2>1, <3>1, <3>2
  <2>2. ASSUME \A k \in i..j : s[k] \in C PROVE Range(x) \subseteq C
    <3>1. ASSUME NEW k \in 1..j - i + 1 PROVE x[k] \in C
      <4>1. i + k - 1 \in i..j
        BY <1>1
      <4> QED
        BY <1>3, <2>2, <4>1
    <3> QED
      BY <1>5, <3>1
  <2> QED
    BY <2>1, <2>2
<1> QED
  BY <1>3, <1>4, <1>6 DEF x

\* Without its first character.
LEMMA TailOfPart ==
  ASSUME NEW s \in Seq(Chars), NEW i \in 1..Len(s), NEW j \in i..Len(s)
  PROVE  Tail(SubSeq(s, i, j)) = SubSeq(s, i + 1, j)
  BY HeadTailOfSubSeq

\* The characters that begin a lexeme are of different kinds.
LEMMA KindsDiffer ==
  /\ Letters \cap Digits = {} /\ Letters \cap Blanks = {} /\ Digits \cap Blanks = {}
  /\ \A c \in {"+", "-", "'", "(", ")", ",", "=", "*", ";", "{"} :
       c \notin Letters /\ c \notin Digits /\ c \notin Blanks
  /\ "'" \notin {"+", "-"} /\ "nul" \notin Chars
  BY DEF Letters, Keywords, Digits, Blanks, Chars

\* When a part of a text is a word, a number or a string.
LEMMA LongIs ==
  ASSUME NEW s \in Seq(Chars), NEW i \in 1..Len(s), NEW j \in i..Len(s)
  PROVE  /\ IsWord(SubSeq(s, i, j)) <=>
              s[i] \in Letters /\ \A k \in i..j : s[k] \in Letters \cup Digits
         /\ IsUnsigned(SubSeq(s, i, j)) <=> \A k \in i..j : s[k] \in Digits
         /\ IsSigned(SubSeq(s, i, j)) <=>
              s[i] \in {"+", "-"} /\ i < j /\ \A k \in i + 1..j : s[k] \in Digits
         /\ IsString(SubSeq(s, i, j)) <=>
              i < j /\ s[i] = "'" /\ s[j] = "'" /\ \A k \in i + 1..j - 1 : s[k] # "'"
<1> DEFINE x == SubSeq(s, i, j)
<1>1. Len(s) \in Nat /\ i \in Int /\ j \in Int /\ i <= j
  BY LenProperties
<1>2. /\ x \in Seq(Chars) /\ x # <<>> /\ Len(x) = j - i + 1 /\ DOMAIN x = 1..j - i + 1
      /\ \A k \in 1..j - i + 1 : x[k] = s[i + k - 1]
      /\ \A C : Range(x) \subseteq C <=> \A k \in i..j : s[k] \in C
  BY PartIs
<1>3. Tail(x) = SubSeq(s, i + 1, j)
  BY TailOfPart
<1> HIDE DEF x
<1>4. x[1] = s[i]
  <2>1. 1 \in 1..j - i + 1 /\ i + 1 - 1 = i
    BY <1>1
  <2> QED
    BY <1>2, <2>1
<1>5. IsWord(x) <=> s[i] \in Letters /\ \A k \in i..j : s[k] \in Letters \cup Digits
  BY <1>2, <1>4 DEF IsWord
<1>6. IsUnsigned(x) <=> \A k \in i..j : s[k] \in Digits
  BY <1>2 DEF IsUnsigned
<1>7. IsSigned(x) <=> s[i] \in {"+", "-"} /\ i < j /\ \A k \in i + 1..j : s[k] \in Digits
  <2>1. CASE i < j
    <3>1. i + 1 \in 1..Len(s) /\ j \in i + 1..Len(s)
      BY <1>1, <2>1
    <3>2. Tail(x) # <<>>
      <4>1. SubSeq(s, i + 1, j) # <<>>
        BY <3>1, PartIs
      <4> QED
        BY <1>3, <4>1
    <3>3. Range(Tail(x)) \subseteq Digits <=> \A k \in i + 1..j : s[k] \in Digits
      BY <1>3, <3>1, PartIs
    <3> QED
      BY <1>2, <1>4, <2>1, <3>2, <3>3 DEF IsSigned, IsUnsigned
  <2>2. CASE ~(i < j)
    <3>1. Tail(x) = <<>>
      BY <1>1, <1>3, <2>2, SubSeqEmpty
    <3> QED
      BY <2>2, <3>1 DEF IsSigned, IsUnsigned
  <2> QED
    BY <2>1, <2>2
<1>8. IsString(x) <=>
        i < j /\ s[i] = "'" /\ s[j] = "'" /\ \A k \in i + 1..j - 1 : s[k] # "'"
  <2> DEFINE L == j - i + 1  Q == {k \in DOMAIN x : x[k] = "'"}
  <2>1. L \in Nat /\ L >= 1 /\ (Len(x) > 1 <=> i < j)
    BY <1>1, <1>2
  <2>2. x[L] = s[j]
    <3>1. L \in 1..L /\ i + L - 1 = j
      BY <1>1
    <3> QED
      BY <1>2, <3>1
  <2>3. ASSUME i < j, s[i] = "'", s[j] = "'", \A k \in i + 1..j - 1 : s[k] # "'"
        PROVE  Q = {1, L}
    <3>1. ASSUME NEW k \in 1..L, k # 1, k # L PROVE x[k] # "'"
      <4>1. i + k - 1 \in i + 1..j - 1
        BY <1>1, <3>1
      <4> QED
        BY <1>2, <2>3, <3>1, <4>1
    <3>2. 1 \in 1..L /\ L \in 1..L
      BY <2>1
    <3> HIDE DEF L
    <3>3. DOMAIN x = 1..L
      BY <1>2 DEF L
    <3> QED
      BY <1>4, <2>2, <2>3, <3>1, <3>2, <3>3
  <2>4. ASSUME i < j, Q = {1, L}
        PROVE  s[i] = "'" /\ s[j] = "'" /\ \A k \in i + 1..j - 1 : s[k] # "'"
    <3>1. x[1] = "'" /\ x[L] = "'"
      BY <2>4
    <3>2. ASSUME NEW k \in i + 1..j - 1 PROVE s[k] # "'"
      <4>1. k - i + 1 \in 1..L /\ k - i + 1 # 1 /\ k - i + 1 # L /\ i + (k - i + 1) - 1 = k
        BY <1>1
      <4>2. x[k - i + 1] = s[k]
        BY <1>2, <4>1
      <4>3. k - i + 1 \notin Q
        BY <2>4, <4>1
      <4> QED
        BY <1>2, <4>1, <4>2, <4>3
    <3> QED
      BY <1>4, <2>2, <3>1, <3>2
  <2>5. IsString(x) <=> Len(x) > 1 /\ Q = {1, L}
    BY <1>2 DEF IsString
  <2> HIDE DEF Q, L
  <2> QED
    BY <2>1, <2>3, <2>4, <2>5
<1> QED
  BY <1>5, <1>6, <1>7, <1>8 DEF x

\* A lexeme goes on for as long as there is a longer one.
LEMMA EndIs ==
  ASSUME NEW s \in Seq(Chars), NEW i \in 1..Len(s)
  PROVE  /\ EndOfLexeme(s, i) \in i..Len(s)
         /\ EndOfLexeme(s, i) = i \/ IsLong(SubSeq(s, i, EndOfLexeme(s, i)))
         /\ \A j \in i..Len(s) : IsLong(SubSeq(s, i, j)) => j <= EndOfLexeme(s, i)
<1> DEFINE T == {j \in i..Len(s) : IsLong(SubSeq(s, i, j))} \cup {i}
<1>1. Len(s) \in Nat
  BY LenProperties
<1>2. T \subseteq 0..Len(s) /\ T # {} /\ \A y \in T : y \in i..Len(s)
  BY <1>1
<1>3. \A y \in T : y = i \/ IsLong(SubSeq(s, i, y))
  OBVIOUS
<1>4. \A j \in i..Len(s) : IsLong(SubSeq(s, i, j)) => j \in T
  OBVIOUS
<1>5. EndOfLexeme(s, i) = Max(T)
  BY DEF EndOfLexeme
<1> HIDE DEF T
<1>6. Max(T) \in T /\ \A y \in T : Max(T) >= y
  BY <1>1, <1>2, MaxIsGreatest
<1>7. \A j \in i..Len(s) : IsLong(SubSeq(s, i, j)) => j <= Max(T)
  BY <1>1, <1>2, <1>4, <1>6
<1> QED
  BY <1>2, <1>3, <1>5, <1>6, <1>7

\* There is only one such end.
LEMMA LexemeEnds ==
  ASSUME NEW s \in Seq(Chars), NEW i \in 1..Len(s), NEW e \in i..Len(s),
         e = i \/ IsLong(SubSeq(s, i, e)),
         \A j \in e + 1..Len(s) : ~IsLong(SubSeq(s, i, j))
  PROVE  EndOfLexeme(s, i) = e
<1> DEFINE m == EndOfLexeme(s, i)
<1>1. Len(s) \in Nat /\ i \in Nat /\ e \in Nat
  BY LenProperties
<1>2. /\ m \in i..Len(s) /\ (m = i \/ IsLong(SubSeq(s, i, m)))
      /\ \A j \in i..Len(s) : IsLong(SubSeq(s, i, j)) => j <= m
  BY EndIs
<1> HIDE DEF m
<1>3. e <= m
  BY <1>1, <1>2
<1>4. ~(e < m)
  <2> SUFFICES ASSUME e < m PROVE FALSE
    OBVIOUS
  <2>1. m \in e + 1..Len(s) /\ m # i
    BY <1>1, <1>2
  <2> QED
    BY <1>2, <2>1
<1> QED
  BY <1>1, <1>2, <1>3, <1>4 DEF m

\* The lexeme that begins at i.
LexemeAt(s, i) == LexemeOf(SubSeq(s, i, EndOfLexeme(s, i)))

\* The part of a text that is one character.
LEMMA OneCharacter ==
  ASSUME NEW s \in Seq(Chars), NEW i \in 1..Len(s)
  PROVE  SubSeq(s, i, i) = <<s[i]>>
<1>1. i \in i..Len(s) /\ i + 1 > i /\ i + 1 \in Int /\ i \in Int
  BY LenProperties
<1>2. SubSeq(s, i, i) = <<s[i]>> \o SubSeq(s, i + 1, i)
  BY <1>1, SubSeqRecursiveFirst
<1>3. SubSeq(s, i + 1, i) = <<>>
  BY <1>1, SubSeqEmpty
<1>4. <<s[i]>> \in Seq(Chars)
  BY ElementOfSeq
<1> QED
  BY <1>2, <1>3, <1>4, ConcatEmptySeq

\* Words.
LEMMA WordLexeme ==
  ASSUME NEW s \in Seq(Chars), NEW i \in 1..Len(s), s[i] \in Letters
  PROVE  LET w == Skip(s, i, Letters \cup Digits)
         IN  /\ w \in i + 1..Len(s) + 1 /\ EndOfLexeme(s, i) = w - 1
             /\ LexemeAt(s, i) = Lexeme("mark", 0, SubSeq(s, i, w - 1))
<1> DEFINE w == Skip(s, i, Letters \cup Digits)
<1>0. s[i] \notin Digits /\ s[i] \notin {"+", "-"} /\ s[i] # "'"
  BY KindsDiffer
<1>1. Len(s) \in Nat /\ i \in Nat /\ i \in 1..Len(s) + 1
  BY LenProperties
<1>2. /\ w \in i..Len(s) + 1 /\ \A j \in i..w - 1 : s[j] \in Letters \cup Digits
      /\ w <= Len(s) => s[w] \notin Letters \cup Digits
  BY <1>1, SkipIs
<1> HIDE DEF w
<1>3. w # i
  BY <1>1, <1>2
<1>4. w - 1 \in i..Len(s) /\ i \in i..w - 1 /\ w - 1 \in i..w - 1
  BY <1>1, <1>2, <1>3
<1>5. IsWord(SubSeq(s, i, w - 1)) /\ ~IsUnsigned(SubSeq(s, i, w - 1))
      /\ ~IsSigned(SubSeq(s, i, w - 1)) /\ ~IsString(SubSeq(s, i, w - 1))
  BY <1>2, <1>4, <1>0, LongIs
<1>6. ASSUME NEW j \in w - 1 + 1..Len(s) PROVE ~IsLong(SubSeq(s, i, j))
  <2>1. j \in i..Len(s) /\ w \in i..j /\ i \in i..j /\ w <= Len(s)
    BY <1>1, <1>2
  <2>2. ~IsWord(SubSeq(s, i, j))
    BY <1>2, <2>1, LongIs
  <2>3. ~IsUnsigned(SubSeq(s, i, j)) /\ ~IsSigned(SubSeq(s, i, j)) /\ ~IsString(SubSeq(s, i, j))
    BY <2>1, <1>0, LongIs
  <2> QED
    BY <2>2, <2>3 DEF IsLong
<1>7. EndOfLexeme(s, i) = w - 1
  BY <1>4, <1>5, <1>6, LexemeEnds DEF IsLong
<1>8. LexemeAt(s, i) = Lexeme("mark", 0, SubSeq(s, i, w - 1))
  BY <1>5, <1>7 DEF LexemeAt, LexemeOf
<1>9. w \in i + 1..Len(s) + 1
  BY <1>1, <1>2, <1>3
<1> QED
  BY <1>7, <1>8, <1>9 DEF w

\* Numbers without a sign.
LEMMA NumberLexeme ==
  ASSUME NEW s \in Seq(Chars), NEW i \in 1..Len(s), s[i] \in Digits
  PROVE  LET w == Skip(s, i, Digits)
         IN  /\ w \in i + 1..Len(s) + 1 /\ EndOfLexeme(s, i) = w - 1
             /\ LexemeAt(s, i) = Num(Number(SubSeq(s, i, w - 1)))
<1> DEFINE w == Skip(s, i, Digits)
<1>0. s[i] \notin Letters /\ s[i] \notin {"+", "-"} /\ s[i] # "'"
  BY KindsDiffer
<1>1. Len(s) \in Nat /\ i \in Nat /\ i \in 1..Len(s) + 1
  BY LenProperties
<1>2. /\ w \in i..Len(s) + 1 /\ \A j \in i..w - 1 : s[j] \in Digits
      /\ w <= Len(s) => s[w] \notin Digits
  BY <1>1, SkipIs
<1> HIDE DEF w
<1>3. w # i
  BY <1>1, <1>2
<1>4. w - 1 \in i..Len(s) /\ i \in i..w - 1
  BY <1>1, <1>2, <1>3
<1>5. IsUnsigned(SubSeq(s, i, w - 1))
  BY <1>2, <1>4, LongIs
<1>6. ASSUME NEW j \in w - 1 + 1..Len(s) PROVE ~IsLong(SubSeq(s, i, j))
  <2>1. j \in i..Len(s) /\ w \in i..j /\ i \in i..j /\ w <= Len(s)
    BY <1>1, <1>2
  <2>2. ~IsUnsigned(SubSeq(s, i, j))
    BY <1>2, <2>1, LongIs
  <2>3. ~IsWord(SubSeq(s, i, j)) /\ ~IsSigned(SubSeq(s, i, j)) /\ ~IsString(SubSeq(s, i, j))
    BY <2>1, <1>0, LongIs
  <2> QED
    BY <2>2, <2>3 DEF IsLong
<1>7. EndOfLexeme(s, i) = w - 1
  BY <1>4, <1>5, <1>6, LexemeEnds DEF IsLong
<1>8. LexemeAt(s, i) = Num(Number(SubSeq(s, i, w - 1)))
  <2>1. ~IsSigned(SubSeq(s, i, w - 1)) /\ ~IsString(SubSeq(s, i, w - 1))
    BY <1>4, <1>0, LongIs
  <2> QED
    BY <1>5, <1>7, <2>1 DEF LexemeAt, LexemeOf
<1>9. w \in i + 1..Len(s) + 1
  BY <1>1, <1>2, <1>3
<1> QED
  BY <1>7, <1>8, <1>9 DEF w

\* Numbers with a sign, and signs without a number.
LEMMA SignedLexeme ==
  ASSUME NEW s \in Seq(Chars), NEW i \in 1..Len(s), s[i] \in {"+", "-"}
  PROVE  LET w == Skip(s, i + 1, Digits)
             n == Number(SubSeq(s, i + 1, w - 1))
         IN  /\ w \in i + 1..Len(s) + 1 /\ EndOfLexeme(s, i) = w - 1
             /\ w > i + 1 => LexemeAt(s, i) = Num(IF s[i] = "-" THEN -n ELSE n)
             /\ w = i + 1 => LexemeAt(s, i) = Mark(s[i])
<1> DEFINE w == Skip(s, i + 1, Digits)  n == Number(SubSeq(s, i + 1, w - 1))
<1>0. s[i] \notin Letters /\ s[i] \notin Digits /\ s[i] # "'"
  BY KindsDiffer
<1>1. Len(s) \in Nat /\ i \in Nat /\ i + 1 \in 1..Len(s) + 1
  BY LenProperties
<1>2. /\ w \in i + 1..Len(s) + 1 /\ \A j \in i + 1..w - 1 : s[j] \in Digits
      /\ w <= Len(s) => s[w] \notin Digits
  BY <1>1, SkipIs
<1> HIDE DEF w
<1>3. w - 1 \in i..Len(s) /\ i \in i..w - 1
  BY <1>1, <1>2
<1>4. w > i + 1 => IsSigned(SubSeq(s, i, w - 1))
  BY <1>1, <1>2, <1>3, LongIs
<1>5. ASSUME NEW j \in w - 1 + 1..Len(s) PROVE ~IsLong(SubSeq(s, i, j))
  <2>1. j \in i..Len(s) /\ w \in i + 1..j /\ i \in i..j /\ w <= Len(s)
    BY <1>1, <1>2
  <2>2. ~IsSigned(SubSeq(s, i, j))
    BY <1>2, <2>1, LongIs
  <2>3. ~IsWord(SubSeq(s, i, j)) /\ ~IsUnsigned(SubSeq(s, i, j)) /\ ~IsString(SubSeq(s, i, j))
    BY <2>1, <1>0, LongIs
  <2> QED
    BY <2>2, <2>3 DEF IsLong
<1>6. EndOfLexeme(s, i) = w - 1
  <2>1. w - 1 = i \/ IsLong(SubSeq(s, i, w - 1))
    BY <1>1, <1>2, <1>4 DEF IsLong
  <2> QED
    BY <1>3, <1>5, <2>1, LexemeEnds
<1>7. ~IsUnsigned(SubSeq(s, i, w - 1)) /\ ~IsString(SubSeq(s, i, w - 1))
  BY <1>3, <1>0, LongIs
<1>8. ASSUME w > i + 1 PROVE LexemeAt(s, i) = Num(IF s[i] = "-" THEN -n ELSE n)
  <2>1. Tail(SubSeq(s, i, w - 1)) = SubSeq(s, i + 1, w - 1)
    BY <1>3, TailOfPart
  <2>2. SubSeq(s, i, w - 1)[1] = s[i]
    <3>1. 1 \in 1..w - 1 - i + 1 /\ i + 1 - 1 = i
      BY <1>1, <1>2
    <3>2. \A k \in 1..w - 1 - i + 1 : SubSeq(s, i, w - 1)[k] = s[i + k - 1]
      BY <1>3, PartIs
    <3>3. SubSeq(s, i, w - 1)[1] = s[i + 1 - 1]
      BY <3>1, <3>2
    <3> QED
      BY <3>1, <3>3
  <2> QED
    BY <1>4, <1>6, <1>7, <1>8, <2>1, <2>2 DEF LexemeAt, LexemeOf
<1>9. ASSUME w = i + 1 PROVE LexemeAt(s, i) = Mark(s[i])
  <2>1. w - 1 = i /\ ~(i < i)
    BY <1>1, <1>9
  <2>2. ~IsSigned(SubSeq(s, i, w - 1))
    BY <1>3, <2>1, LongIs
  <2>3. SubSeq(s, i, w - 1) = <<s[i]>>
    BY <2>1, OneCharacter
  <2> QED
    BY <1>6, <1>7, <2>2, <2>3 DEF LexemeAt, LexemeOf, Mark
<1> QED
  BY <1>2, <1>6, <1>8, <1>9 DEF w

\* Strings, and quotes without a second one.
LEMMA StringLexeme ==
  ASSUME NEW s \in Seq(Chars), NEW i \in 1..Len(s), s[i] = "'"
  PROVE  /\ \A q \in i + 1..Len(s) :
              s[q] = "'" /\ (\A k \in i + 1..q - 1 : s[k] # "'") =>
                EndOfLexeme(s, i) = q /\ LexemeAt(s, i) = Str(SubSeq(s, i + 1, q - 1))
         /\ (\A k \in i + 1..Len(s) : s[k] # "'") =>
              EndOfLexeme(s, i) = i /\ LexemeAt(s, i) = Mark("'")
<1>0. s[i] \notin Letters /\ s[i] \notin Digits /\ s[i] \notin {"+", "-"}
  BY KindsDiffer
<1>1. Len(s) \in Nat /\ i \in Nat
  BY LenProperties
<1>2. ASSUME NEW j \in i..Len(s)
      PROVE  /\ ~IsWord(SubSeq(s, i, j)) /\ ~IsUnsigned(SubSeq(s, i, j))
             /\ ~IsSigned(SubSeq(s, i, j))
  <2>1. i \in i..j
    BY <1>1
  <2> QED
    BY <2>1, <1>0, LongIs
<1>3. ASSUME NEW q \in i + 1..Len(s), s[q] = "'", \A k \in i + 1..q - 1 : s[k] # "'"
      PROVE  EndOfLexeme(s, i) = q /\ LexemeAt(s, i) = Str(SubSeq(s, i + 1, q - 1))
  <2>1. q \in i..Len(s) /\ i < q
    BY <1>1
  <2>2. IsString(SubSeq(s, i, q))
    BY <1>3, <2>1, LongIs
  <2>3. ASSUME NEW j \in q + 1..Len(s) PROVE ~IsLong(SubSeq(s, i, j))
    <3>1. j \in i..Len(s) /\ q \in i + 1..j - 1
      BY <1>1, <2>1
    <3>2. ~IsString(SubSeq(s, i, j))
      BY <1>3, <3>1, LongIs
    <3> QED
      BY <1>2, <3>1, <3>2 DEF IsLong
  <2>4. EndOfLexeme(s, i) = q
    BY <2>1, <2>2, <2>3, LexemeEnds DEF IsLong
  <2>5. SubSeq(SubSeq(s, i, q), 2, Len(SubSeq(s, i, q)) - 1) = SubSeq(s, i + 1, q - 1)
    <3>1. Len(SubSeq(s, i, q)) = q - i + 1
      BY <2>1, PartIs
    <3>2. q - i + 1 - 1 = q - i /\ 2 \in 1..q - i + 1 /\ q - i \in 1..q - i + 1
          /\ i + 2 - 1 = i + 1 /\ i + (q - i) - 1 = q - 1 /\ q \in 1..Len(s)
      BY <1>1, <2>1
    <3>3. SubSeq(SubSeq(s, i, q), 2, q - i) = SubSeq(s, i + 2 - 1, i + (q - i) - 1)
      BY <3>2, SubSeqOfSubSeq
    <3> QED
      BY <3>1, <3>2, <3>3
  <2> QED
    BY <1>2, <2>1, <2>2, <2>4, <2>5 DEF LexemeAt, LexemeOf
<1>4. ASSUME \A k \in i + 1..Len(s) : s[k] # "'"
      PROVE  EndOfLexeme(s, i) = i /\ LexemeAt(s, i) = Mark("'")
  <2>1. i \in i..Len(s) /\ ~(i < i)
    BY <1>1
  <2>2. ASSUME NEW j \in i + 1..Len(s) PROVE ~IsLong(SubSeq(s, i, j))
    <3>1. j \in i..Len(s) /\ s[j] # "'"
      BY <1>1, <1>4
    <3>2. ~IsString(SubSeq(s, i, j))
      BY <3>1, LongIs
    <3> QED
      BY <1>2, <3>1, <3>2 DEF IsLong
  <2>3. EndOfLexeme(s, i) = i
    BY <2>1, <2>2, LexemeEnds
  <2>4. ~IsString(SubSeq(s, i, i))
    BY <2>1, LongIs
  <2>5. SubSeq(s, i, i) = <<"'">>
    BY OneCharacter
  <2> QED
    BY <1>2, <2>1, <2>3, <2>4, <2>5 DEF LexemeAt, LexemeOf, Mark
<1> QED
  BY <1>3, <1>4

\* Any other character stands for itself.
LEMMA OtherLexeme ==
  ASSUME NEW s \in Seq(Chars), NEW i \in 1..Len(s),
         s[i] \notin Letters \cup Digits \cup {"+", "-", "'"}
  PROVE  EndOfLexeme(s, i) = i /\ LexemeAt(s, i) = Mark(s[i])
<1>1. Len(s) \in Nat /\ i \in Nat /\ i \in i..Len(s)
  BY LenProperties
<1>2. ASSUME NEW j \in i..Len(s)
      PROVE  /\ ~IsWord(SubSeq(s, i, j)) /\ ~IsUnsigned(SubSeq(s, i, j))
             /\ ~IsSigned(SubSeq(s, i, j)) /\ ~IsString(SubSeq(s, i, j))
  <2>1. i \in i..j
    BY <1>1
  <2> QED
    BY <2>1, LongIs
<1>3. \A j \in i + 1..Len(s) : ~IsLong(SubSeq(s, i, j))
  <2> TAKE j \in i + 1..Len(s)
  <2>1. j \in i..Len(s)
    BY <1>1
  <2> QED
    BY <1>2, <2>1 DEF IsLong
<1>4. EndOfLexeme(s, i) = i
  BY <1>1, <1>3, LexemeEnds
<1> QED
  BY <1>1, <1>2, <1>4, OneCharacter DEF LexemeAt, LexemeOf, Mark

-----------------------------------------------------------------------------
(* The lexemes of a text, one after the other.                             *)

\* F[i] is what is cut from the text from place i on.
Cuts(s, F) ==
  /\ \E S : F \in [1..Len(s) + 1 -> Seq(S)]
  /\ F[Len(s) + 1] = <<>>
  /\ \A i \in 1..Len(s) :
       F[i] = IF s[i] \in Blanks THEN F[i + 1]
              ELSE <<LexemeAt(s, i)>> \o F[EndOfLexeme(s, i) + 1]

\* Lexemes is the function that Cuts describes.
LEMMA LexemesAreCut ==
  ASSUME NEW s \in Seq(Chars)
  PROVE  \E F : Cuts(s, F) /\ Lexemes(s) = F[1]
<1> DEFINE m == Len(s) + 1
           K == {m}
           S == {LexemeAt(s, i) : i \in 1..Len(s)}
           pre == [i \in 1..m |-> IF s[i] \in Blanks THEN <<>> ELSE <<LexemeAt(s, i)>>]
           next == [i \in 1..m |-> IF s[i] \in Blanks THEN i + 1 ELSE EndOfLexeme(s, i) + 1]
           Body(r, i) == IF i > Len(s) THEN <<>>
                         ELSE IF s[i] \in Blanks THEN r[i + 1]
                         ELSE <<LexemeOf(SubSeq(s, i, EndOfLexeme(s, i)))>>
                                \o r[EndOfLexeme(s, i) + 1]
           Eq(r) == r = [i \in 1..Len(s) + 1 |-> Body(r, i)]
           from == CHOOSE r : Eq(r)
<1>1. Len(s) \in Nat /\ m \in Nat /\ m = Len(s) + 1
  BY LenProperties
<1>2. \A i \in 1..m : i \notin K => i \in 1..Len(s)
  BY <1>1
<1>3. \A i \in 1..Len(s) : i \in 1..m /\ i \notin K
  BY <1>1
<1>4. \A i \in 1..Len(s) : LexemeAt(s, i) \in S
  OBVIOUS
<1> HIDE DEF m, S
<1>5. ASSUME NEW i \in 1..m, i \notin K
      PROVE  pre[i] \in Seq(S) /\ next[i] \in i + 1..m
  <2>1. i \in 1..Len(s) /\ EndOfLexeme(s, i) \in i..Len(s)
    BY <1>2, <1>5, EndIs
  <2>2. pre[i] \in Seq(S)
    BY <1>4, <2>1, EmptySeq
  <2>3. next[i] \in {i + 1, EndOfLexeme(s, i) + 1}
    OBVIOUS
  <2> HIDE DEF next
  <2>4. next[i] \in i + 1..m
    BY <1>1, <2>1, <2>3
  <2> QED
    BY <2>2, <2>4
<1>6. PICK f \in [1..m -> Seq(S)] : Looks(m, K, pre, next, f)
  BY <1>1, <1>5, LooksExist
<1>7. m \in 1..m
  BY <1>1
<1>8. f[m] = <<>>
  BY <1>6, <1>7 DEF Looks
<1>9. ASSUME NEW i \in 1..Len(s)
      PROVE  f[i] = IF s[i] \in Blanks THEN f[i + 1]
                    ELSE <<LexemeAt(s, i)>> \o f[EndOfLexeme(s, i) + 1]
  <2>1. f[i] = pre[i] \o f[next[i]] /\ next[i] \in i + 1..m /\ i \in 1..m
    BY <1>3, <1>5, <1>6 DEF Looks
  <2>2. CASE s[i] \in Blanks
    <3>0. pre[i] = <<>> /\ next[i] = i + 1 /\ i + 1 \in 1..m
      BY <1>3, <2>1, <2>2
    <3>1. f[i] = <<>> \o f[i + 1] /\ i + 1 \in 1..m
      BY ONLY <2>1, <3>0
    <3>2. f[i + 1] \in Seq(S)
      BY <3>1
    <3> QED
      BY <2>2, <3>1, <3>2, ConcatEmptySeq
  <2>3. CASE s[i] \notin Blanks
    BY <2>1, <2>3
  <2> QED
    BY <2>2, <2>3
<1> HIDE DEF pre, next, K
<1>10. Cuts(s, f)
  BY <1>1, <1>6, <1>8, <1>9 DEF Cuts
<1>11. \A i \in 1..m : f[i] = Body(f, i)
  <2> TAKE i \in 1..m
  <2>1. CASE i = m
    BY <1>1, <1>8, <2>1
  <2>2. CASE i # m
    <3>1. i \in 1..Len(s) /\ ~(i > Len(s))
      BY <1>1, <2>2
    <3> QED
      BY <1>9, <3>1 DEF LexemeAt
  <2> QED
    BY <2>1, <2>2
<1> HIDE DEF Body
<1>12. Eq(f)
  BY <1>1, <1>6, <1>11
<1>13. Eq(from)
  BY <1>12
<1> HIDE DEF from
<1> DEFINE T == {d \in Nat : \A i \in 1..m : i > m - d => from[i] = f[i]}
<1>14. ASSUME NEW d \in 0..m - 1, d \in T PROVE d + 1 \in T
  <2>1. ASSUME NEW i \in 1..m, i > m - (d + 1) PROVE from[i] = f[i]
    <3>1. from[i] = Body(from, i) /\ f[i] = Body(f, i)
      BY <1>1, <1>11, <1>13
    <3>2. CASE i = m
      <4>1. i > Len(s)
        BY <1>1, <3>2
      <4> QED
        BY <3>1, <4>1 DEF Body
    <3>3. CASE i # m
      <4>1. /\ i \in 1..Len(s) /\ ~(i > Len(s)) /\ i + 1 \in 1..m /\ i + 1 > m - d
        BY <1>1, <2>1, <3>3
      <4> DEFINE e == EndOfLexeme(s, i)
      <4>2. e \in i..Len(s)
        BY <4>1, EndIs
      <4> HIDE DEF e
      <4>3. e + 1 \in 1..m /\ e + 1 > m - d
        BY <1>1, <4>1, <4>2
      <4>4. from[i + 1] = f[i + 1] /\ from[e + 1] = f[e + 1]
        BY <1>14, <4>1, <4>3
      <4> QED
        BY <3>1, <4>1, <4>4 DEF Body, e
    <3> QED
      BY <3>2, <3>3
  <2> QED
    BY <2>1
<1>15. from[1] = f[1]
  <2>1. 0 \in T
    BY <1>1
  <2> HIDE DEF T
  <2>2. m \in T
    <3>1. 0..m \subseteq T
      BY <1>1, <1>14, <2>1, SetInduction
    <3> QED
      BY <1>1, <3>1
  <2>3. 1 \in 1..m /\ 1 > m - m
    BY <1>1
  <2> QED
    BY <2>2, <2>3 DEF T
<1>16. Lexemes(s) = from[1]
  BY DEF Lexemes, from, Body
<1> QED
  BY <1>10, <1>15, <1>16

\* In front of place p of the text, n - 1 lexemes have been cut off.
Stands(s, F, p, n) ==
  /\ p \in 1..Len(s) + 1 /\ n \in 1..Len(F[1]) + 1
  /\ F[p] = SubSeq(F[1], n, Len(F[1]))

\* The lexemes from p on are those from the next character on that is no blank.
LEMMA BlanksAreSkipped ==
  ASSUME NEW s \in Seq(Chars), NEW F, Cuts(s, F), NEW p \in 1..Len(s) + 1
  PROVE  F[p] = F[Skip(s, p, Blanks)]
<1> DEFINE c == Skip(s, p, Blanks)
           T == {d \in Nat : F[p] = F[p + d]}
<1>1. Len(s) \in Nat /\ p \in Nat
  BY LenProperties
<1>2. c \in p..Len(s) + 1 /\ \A j \in p..c - 1 : s[j] \in Blanks
  BY SkipIs
<1> HIDE DEF c
<1>3. 0 \in T
  BY <1>1
<1>4. ASSUME NEW d \in 0..c - p - 1, d \in T PROVE d + 1 \in T
  <2>1. p + d \in p..c - 1 /\ p + d \in 1..Len(s) /\ p + (d + 1) = p + d + 1
    BY <1>1, <1>2
  <2>2. F[p + d] = F[p + d + 1]
    BY <1>2, <2>1 DEF Cuts
  <2> QED
    BY <1>4, <2>1, <2>2
<1> HIDE DEF T
<1>5. c - p \in T
  <2>1. c - p \in Nat
    BY <1>1, <1>2
  <2>2. 0..c - p \subseteq T
    BY <1>3, <1>4, <2>1, SetInduction
  <2> QED
    BY <2>1, <2>2
<1>6. F[p] = F[p + (c - p)] /\ p + (c - p) = c
  BY <1>1, <1>2, <1>5 DEF T
<1> QED
  BY <1>6 DEF c

\* The parser starts in front of all lexemes.
LEMMA FirstPlace ==
  ASSUME NEW s \in Seq(Chars), NEW F, Cuts(s, F)
  PROVE  Stands(s, F, 1, 1)
<1>1. PICK S : F \in [1..Len(s) + 1 -> Seq(S)]
  BY DEF Cuts
<1>2. Len(s) \in Nat /\ 1 \in 1..Len(s) + 1
  BY LenProperties
<1>3. F[1] \in Seq(S)
  BY <1>1, <1>2
<1>4. Len(F[1]) \in Nat /\ F[1] = SubSeq(F[1], 1, Len(F[1]))
  BY <1>3, LenProperties, SubSeqFull
<1> QED
  BY <1>2, <1>4 DEF Stands

\* An element before a sequence makes the same sequence as another before another.
FrontedAlike(S, a, x, b, y) ==
  /\ a \in S /\ b \in S /\ x \in Seq(S) /\ y \in Seq(S)
  /\ <<a>> \o x = <<b>> \o y

\* Two sequences are the same when their first elements and their rests are.
LEMMA FirstAndRest ==
  ASSUME NEW S, NEW a, NEW b, NEW x, NEW y, FrontedAlike(S, a, x, b, y)
  PROVE  a = b /\ x = y
<1> USE DEF FrontedAlike
<1>1. <<a>> \in Seq(S) /\ <<b>> \in Seq(S) /\ Len(<<a>>) = 1 /\ Len(<<b>>) = 1
      /\ <<a>>[1] = a /\ <<b>>[1] = b
  OBVIOUS
<1>2. Len(x) \in Nat /\ Len(y) \in Nat
  BY LenProperties
<1>3. (<<a>> \o x)[1] = a /\ (<<b>> \o y)[1] = b
  BY <1>1, <1>2, ConcatProperties
<1>4. a = b
  BY <1>3
<1>5. x = y
  BY <1>1, <1>4, ConcatSimplifications
<1> QED
  BY <1>4, <1>5

\* What a function of the parser finds behind the blanks.
LEMMA NextLexeme ==
  ASSUME NEW s \in Seq(Chars), NEW F, Cuts(s, F), NEW p, NEW n, Stands(s, F, p, n)
  PROVE  LET c == Skip(s, p, Blanks)
         IN  /\ c \in 1..Len(s) + 1
             /\ c = Len(s) + 1 => n = Len(F[1]) + 1
             /\ c # Len(s) + 1 =>
                  /\ c \in 1..Len(s) /\ s[c] \notin Blanks
                  /\ n \in 1..Len(F[1]) /\ F[1][n] = LexemeAt(s, c)
                  /\ Stands(s, F, EndOfLexeme(s, c) + 1, n + 1)
<1> DEFINE c == Skip(s, p, Blanks)  L == F[1]  K == Len(F[1])
<1>1. PICK S : F \in [1..Len(s) + 1 -> Seq(S)]
  BY DEF Cuts
<1>2. /\ Len(s) \in Nat /\ 1 \in 1..Len(s) + 1
      /\ p \in 1..Len(s) + 1 /\ n \in 1..K + 1 /\ F[p] = SubSeq(L, n, K)
  BY LenProperties DEF Stands
<1>3. L \in Seq(S) /\ K \in Nat
  BY <1>1, <1>2, LenProperties
<1>4. c \in p..Len(s) + 1 /\ (c <= Len(s) => s[c] \notin Blanks)
  BY <1>2, SkipIs
<1>5. F[p] = F[c]
  BY <1>2, BlanksAreSkipped
<1> HIDE DEF c, L, K
<1>6. c \in 1..Len(s) + 1
  BY <1>2, <1>4
<1>7. ASSUME n <= K PROVE SubSeq(L, n, K) = <<L[n]>> \o SubSeq(L, n + 1, K)
  <2>1. n \in 1..Len(L) /\ K \in n..Len(L)
    BY <1>2, <1>3, <1>7 DEF K, L
  <2> QED
    BY <1>3, <2>1, SubSeqRecursiveFirst
<1>8. ASSUME n <= K PROVE L[n] \in S /\ SubSeq(L, n + 1, K) \in Seq(S)
  <2>1. n \in 1..Len(L) /\ Len(L) = K
    BY <1>2, <1>3, <1>8 DEF K, L
  <2>2. \A i \in n + 1..K : L[i] \in S
    BY <1>2, <1>3, <2>1, ElementOfSeq
  <2>3. n + 1 \in Int /\ K \in Int
    BY <1>2, <1>3
  <2> QED
    BY <1>3, <2>1, <2>2, <2>3, ElementOfSeq, SubSeqProperties
<1>9. ASSUME c = Len(s) + 1 PROVE n = K + 1
  <2>1. SubSeq(L, n, K) = <<>>
    BY <1>2, <1>5, <1>9 DEF Cuts
  <2>2. ~(n <= K)
    <3> SUFFICES ASSUME n <= K PROVE FALSE
      OBVIOUS
    <3>1. <<L[n]>> \o SubSeq(L, n + 1, K) = <<>>
      BY <1>7, <2>1
    <3>2. <<L[n]>> \in Seq(S) /\ <<L[n]>> # <<>>
      BY <1>8
    <3> QED
      BY <1>8, <3>1, <3>2, ConcatEqualIffEmpty
  <2> QED
    BY <1>2, <1>3, <2>2
<1>10. ASSUME c # Len(s) + 1
       PROVE  /\ c \in 1..Len(s) /\ s[c] \notin Blanks
              /\ n \in 1..K /\ L[n] = LexemeAt(s, c)
              /\ Stands(s, F, EndOfLexeme(s, c) + 1, n + 1)
  <2> DEFINE e == EndOfLexeme(s, c)  a == LexemeAt(s, c)  T == S \cup {a}
  <2>1. c \in 1..Len(s) /\ s[c] \notin Blanks
    BY <1>2, <1>4, <1>6, <1>10
  <2>2. SubSeq(L, n, K) = <<a>> \o F[e + 1]
    BY <1>2, <1>5, <2>1 DEF Cuts
  <2>3. e + 1 \in 1..Len(s) + 1
    <3>1. e \in c..Len(s)
      BY <2>1, EndIs
    <3> HIDE DEF e
    <3> QED
      BY <1>2, <2>1, <3>1
  <2>4. F[e + 1] \in Seq(T) /\ a \in T
    <3>1. F[e + 1] \in Seq(S)
      BY <1>1, <2>3
    <3> QED
      BY <3>1, SeqMonotonic
  <2> HIDE DEF a, e
  <2>5. n <= K
    <3> SUFFICES ASSUME ~(n <= K) PROVE FALSE
      OBVIOUS
    <3>1. SubSeq(L, n, K) = <<>>
      BY <1>2, <1>3, SubSeqEmpty
    <3>2. <<a>> \in Seq(T) /\ <<a>> # <<>>
      BY <2>4
    <3> QED
      <4> DEFINE x == F[e + 1]
      <4>1. <<a>> \o x = <<>> /\ x \in Seq(T)
        BY <2>2, <2>4, <3>1
      <4> HIDE DEF x, T
      <4> QED
        BY <3>2, <4>1, ConcatEqualIffEmpty
  <2>6. L[n] \in T /\ SubSeq(L, n + 1, K) \in Seq(T)
    BY <1>8, <2>5, SeqMonotonic
  <2>7. <<a>> \o F[e + 1] = <<L[n]>> \o SubSeq(L, n + 1, K)
    BY <1>7, <2>2, <2>5
  <2> HIDE DEF T
  <2>8. L[n] = a /\ F[e + 1] = SubSeq(L, n + 1, K)
    <3> DEFINE b == L[n]  x == F[e + 1]  y == SubSeq(L, n + 1, K)
    <3>1. FrontedAlike(T, a, x, b, y)
      BY <2>4, <2>6, <2>7 DEF FrontedAlike
    <3> HIDE DEF b, x, y
    <3>2. a = b /\ x = y
      BY <3>1, FirstAndRest
    <3> QED
      BY <3>2 DEF b, x, y
  <2>9. n \in 1..K /\ n + 1 \in 1..K + 1
    BY <1>2, <1>3, <2>5
  <2> QED
    BY <2>1, <2>3, <2>8, <2>9 DEF Stands, a, e, L, K
<1> QED
  BY <1>6, <1>9, <1>10 DEF c, L, K

\* A mark begins with the character at its place.
LEMMA MarkBegins ==
  ASSUME NEW s \in Seq(Chars), NEW i \in 1..Len(s), LexemeAt(s, i).kind = "mark"
  PROVE  LexemeAt(s, i).chars[1] = s[i]
<1>1. CASE s[i] \in Letters
  <2> DEFINE w == Skip(s, i, Letters \cup Digits)
  <2>1. w \in i + 1..Len(s) + 1 /\ LexemeAt(s, i) = Lexeme("mark", 0, SubSeq(s, i, w - 1))
    BY <1>1, WordLexeme
  <2> HIDE DEF w
  <2>2. w - 1 \in i..Len(s) /\ 1 \in 1..w - 1 - i + 1 /\ i + 1 - 1 = i
    BY <2>1, LenProperties
  <2>3. SubSeq(s, i, w - 1)[1] = s[i]
    BY <2>2, PartIs
  <2> QED
    BY <2>1, <2>3 DEF Lexeme
<1>2. CASE s[i] \in Digits
  BY <1>2, NumberLexeme DEF Num, Lexeme
<1>3. CASE s[i] \in {"+", "-"}
  <2> DEFINE w == Skip(s, i + 1, Digits)
  <2>1. w \in i + 1..Len(s) + 1 /\ w > i + 1 => LexemeAt(s, i).kind = "number"
    BY <1>3, SignedLexeme DEF Num, Lexeme
  <2>2. w = i + 1 => LexemeAt(s, i) = Mark(s[i])
    BY <1>3, SignedLexeme
  <2>3. w \in i + 1..Len(s) + 1
    BY <1>3, SignedLexeme
  <2> HIDE DEF w
  <2>4. w = i + 1
    BY <2>1, <2>3, LenProperties
  <2> QED
    BY <2>2, <2>4 DEF Mark, Lexeme
<1>4. CASE s[i] = "'"
  <2>1. CASE \A k \in i + 1..Len(s) : s[k] # "'"
    BY <1>4, <2>1, StringLexeme DEF Mark, Lexeme
  <2>2. CASE ~\A k \in i + 1..Len(s) : s[k] # "'"
    <3> DEFINE T == {k \in i + 1..Len(s) : s[k] = "'"}
    <3>1. T \subseteq Nat /\ T # {}
      BY <2>2
    <3>2. Min(T) \in T /\ \A y \in T : Min(T) <= y
      BY <3>1, MinIsLeast
    <3>3. \A k \in i + 1..Min(T) - 1 : s[k] # "'"
      <4> TAKE k \in i + 1..Min(T) - 1
      <4>1. k \in i + 1..Len(s) /\ ~(Min(T) <= k)
        BY <3>2, LenProperties
      <4> QED
        BY <3>2, <4>1
    <3>4. LexemeAt(s, i).kind = "string"
      BY <1>4, <3>2, <3>3, StringLexeme DEF Str, Lexeme
    <3> QED
      BY <3>4
  <2> QED
    BY <2>1, <2>2
<1>5. CASE s[i] \notin Letters \cup Digits \cup {"+", "-", "'"}
  BY <1>5, OtherLexeme DEF Mark, Lexeme
<1> QED
  BY <1>1, <1>2, <1>3, <1>4, <1>5

-----------------------------------------------------------------------------
(* What the functions of the parser do with a lexeme.                      *)

\* The parser has failed, or stands in front of lexeme n.
Reaches(s, F, p, n) == p = Fail \/ Stands(s, F, p, n)

Is(L, n, x) == n \in 1..Len(L) /\ L[n] = x

\* The symbols that the parser looks for.
Symbols == {"(", ")", ",", "=", "*", ";"}

\* expect_symbol takes the next lexeme if it is this symbol, and fails otherwise.
LEMMA SymbolRead ==
  ASSUME NEW s \in Seq(Chars), NEW F, Cuts(s, F), NEW p, NEW n, Reaches(s, F, p, n),
         NEW c \in Symbols
  PROVE  LET q == ExpectSymbol(s, p, c)
         IN  /\ Reaches(s, F, q, n + 1)
             /\ q # Fail <=> p # Fail /\ Is(F[1], n, Mark(c))
<1> DEFINE q == ExpectSymbol(s, p, c)  k == Skip(s, p, Blanks)
<1>1. CASE p = Fail
  BY <1>1 DEF ExpectSymbol, Reaches
<1>2. CASE p # Fail
  <2>1. Stands(s, F, p, n)
    BY <1>2 DEF Reaches
  <2>2. /\ k \in 1..Len(s) + 1
        /\ k = Len(s) + 1 => n = Len(F[1]) + 1
        /\ k # Len(s) + 1 =>
             /\ k \in 1..Len(s) /\ n \in 1..Len(F[1]) /\ F[1][n] = LexemeAt(s, k)
             /\ Stands(s, F, EndOfLexeme(s, k) + 1, n + 1)
    BY <2>1, NextLexeme
  <2>3. q = IF At(s, k) = c THEN k + 1 ELSE Fail
    BY <1>2 DEF ExpectSymbol
  <2>4. c \notin Letters \cup Digits \cup {"+", "-", "'"} /\ c # "nul"
    BY KindsDiffer DEF Symbols
  <2> HIDE DEF q, k
  <2>5. CASE At(s, k) = c
    <3>1. k \in 1..Len(s) /\ s[k] = c
      BY <2>4, <2>5 DEF At
    <3>2. k # Len(s) + 1
      BY <3>1, LenProperties
    <3>3. EndOfLexeme(s, k) = k /\ LexemeAt(s, k) = Mark(c)
      BY <2>4, <3>1, OtherLexeme
    <3>4. Stands(s, F, k + 1, n + 1) /\ Is(F[1], n, Mark(c)) /\ q = k + 1 /\ q # Fail
      BY <2>2, <2>3, <2>5, <3>1, <3>2, <3>3 DEF Is, Fail
    <3> QED
      BY <1>2, <3>4 DEF Reaches, q
  <2>6. CASE At(s, k) # c
    <3>1. q = Fail
      BY <2>3, <2>6
    <3>2. ASSUME Is(F[1], n, Mark(c)) PROVE FALSE
      <4>1. k # Len(s) + 1
        <5> SUFFICES ASSUME k = Len(s) + 1 PROVE FALSE
          OBVIOUS
        <5>1. n = Len(F[1]) + 1 /\ n \in 1..Len(F[1])
          BY <2>2, <3>2 DEF Is
        <5> QED
          BY <5>1
      <4>2. k \in 1..Len(s) /\ LexemeAt(s, k) = Mark(c)
        BY <2>2, <3>2, <4>1 DEF Is
      <4>3. s[k] = c
        BY <4>2, MarkBegins DEF Mark, Lexeme
      <4> QED
        BY <2>6, <4>2, <4>3 DEF At
    <3> QED
      BY <3>1, <3>2 DEF Reaches, q
  <2> QED
    BY <2>5, <2>6
<1> QED
  BY <1>1, <1>2

\* read_word takes the next lexeme if it is a word.
LEMMA WordRead ==
  ASSUME NEW s \in Seq(Chars), NEW F, Cuts(s, F), NEW p, NEW n, Reaches(s, F, p, n)
  PROVE  LET word == ReadWord(s, p)
         IN  /\ Reaches(s, F, word.at, n + 1)
             /\ word.at # Fail =>
                  /\ p # Fail /\ Is(F[1], n, Lexeme("mark", 0, word.value))
                  /\ word.value[1] \in Letters /\ word.value \in Seq(Chars)
             /\ word.at = Fail => word.value = <<>>
             /\ \A x : p # Fail /\ Is(F[1], n, Lexeme("mark", 0, x)) /\ x[1] \in Letters =>
                  word.at # Fail /\ word.value = x
<1> DEFINE word == ReadWord(s, p)  k == Skip(s, p, Blanks)
           w == Skip(s, k, Letters \cup Digits)
<1>1. CASE p = Fail
  BY <1>1 DEF ReadWord, Reaches, Nothing
<1>2. CASE p # Fail
  <2>1. Stands(s, F, p, n)
    BY <1>2 DEF Reaches
  <2>2. /\ k \in 1..Len(s) + 1
        /\ k = Len(s) + 1 => n = Len(F[1]) + 1
        /\ k # Len(s) + 1 =>
             /\ k \in 1..Len(s) /\ n \in 1..Len(F[1]) /\ F[1][n] = LexemeAt(s, k)
             /\ Stands(s, F, EndOfLexeme(s, k) + 1, n + 1)
    BY <2>1, NextLexeme
  <2>3. word = IF At(s, k) \in Letters THEN [at |-> w, value |-> SubSeq(s, k, w - 1)]
               ELSE Nothing
    BY <1>2 DEF ReadWord
  <2>4. "nul" \notin Letters
    BY KindsDiffer DEF Chars
  <2> HIDE DEF word, k
  <2>5. CASE At(s, k) \in Letters
    <3>1. k \in 1..Len(s) /\ s[k] \in Letters
      BY <2>4, <2>5 DEF At
    <3>2. k # Len(s) + 1
      BY <3>1, LenProperties
    <3>3. /\ w \in k + 1..Len(s) + 1 /\ EndOfLexeme(s, k) = w - 1
          /\ LexemeAt(s, k) = Lexeme("mark", 0, SubSeq(s, k, w - 1))
      BY <3>1, WordLexeme
    <3> HIDE DEF w
    <3>4. w - 1 + 1 = w /\ w # Fail /\ w - 1 \in k..Len(s) /\ k + 1 - 1 = k
          /\ 1 \in 1..w - 1 - k + 1
      BY <3>1, <3>3, LenProperties DEF Fail
    <3>5. word.at = w /\ word.value = SubSeq(s, k, w - 1)
      BY <2>3, <2>5
    <3>6. SubSeq(s, k, w - 1)[1] = s[k] /\ SubSeq(s, k, w - 1) \in Seq(Chars)
      BY <3>1, <3>4, PartIs
    <3>7. Stands(s, F, w, n + 1) /\ Is(F[1], n, Lexeme("mark", 0, word.value))
      BY <2>2, <3>2, <3>3, <3>4, <3>5 DEF Is
    <3>8. ASSUME NEW x, Is(F[1], n, Lexeme("mark", 0, x)) PROVE word.value = x
      BY <3>7, <3>8 DEF Is, Lexeme
    <3> QED
      BY <1>2, <3>1, <3>4, <3>5, <3>6, <3>7, <3>8 DEF Reaches, word
  <2>6. CASE At(s, k) \notin Letters
    <3>1. word.at = Fail /\ word.value = <<>>
      BY <2>3, <2>6 DEF Nothing
    <3>2. ASSUME NEW x, Is(F[1], n, Lexeme("mark", 0, x)), x[1] \in Letters PROVE FALSE
      <4>1. k # Len(s) + 1
        <5> SUFFICES ASSUME k = Len(s) + 1 PROVE FALSE
          OBVIOUS
        <5>1. n = Len(F[1]) + 1 /\ n \in 1..Len(F[1])
          BY <2>2, <3>2 DEF Is
        <5> QED
          BY <5>1
      <4>2. k \in 1..Len(s) /\ LexemeAt(s, k) = Lexeme("mark", 0, x)
        BY <2>2, <3>2, <4>1 DEF Is
      <4>3. s[k] = x[1]
        BY <4>2, MarkBegins DEF Lexeme
      <4> QED
        BY <2>6, <3>2, <4>2, <4>3 DEF At
    <3> QED
      BY <3>1, <3>2 DEF Reaches, word
  <2> QED
    BY <2>5, <2>6
<1> QED
  BY <1>1, <1>2

\* expect_keyword takes the next lexeme if it is this keyword.
LEMMA KeywordRead ==
  ASSUME NEW s \in Seq(Chars), NEW F, Cuts(s, F), NEW p, NEW n, Reaches(s, F, p, n),
         NEW k \in Keywords
  PROVE  LET q == ExpectKeyword(s, p, k)
         IN  /\ Reaches(s, F, q, n + 1)
             /\ q # Fail <=> p # Fail /\ Is(F[1], n, Mark(k))
<1> DEFINE word == ReadWord(s, p)  q == ExpectKeyword(s, p, k)
<1>1. /\ Reaches(s, F, word.at, n + 1)
      /\ word.at # Fail => p # Fail /\ Is(F[1], n, Lexeme("mark", 0, word.value))
      /\ word.at = Fail => word.value = <<>>
      /\ \A x : p # Fail /\ Is(F[1], n, Lexeme("mark", 0, x)) /\ x[1] \in Letters =>
           word.at # Fail /\ word.value = x
  BY WordRead
<1>2. q = IF word.value = <<k>> THEN word.at ELSE Fail
  BY DEF ExpectKeyword
<1>3. <<k>> # <<>> /\ <<k>>[1] \in Letters
  BY DEF Letters
<1> HIDE DEF word, q
<1>4. Reaches(s, F, q, n + 1)
  BY <1>1, <1>2 DEF Reaches
<1>5. ASSUME q # Fail PROVE p # Fail /\ Is(F[1], n, Mark(k))
  BY <1>1, <1>2, <1>5 DEF Mark
<1>6. ASSUME p # Fail, Is(F[1], n, Mark(k)) PROVE q # Fail
  BY <1>1, <1>2, <1>3, <1>6 DEF Mark
<1> QED
  BY <1>4, <1>5, <1>6 DEF q

\* parse_int_value takes the next lexeme if it is a number within the limits.
LEMMA NumberRead ==
  ASSUME NEW s \in Seq(Chars), NEW F, Cuts(s, F), NEW p, NEW n, Reaches(s, F, p, n)
  PROVE  LET r == ParseIntValue(s, p)
         IN  /\ Reaches(s, F, r.at, n + 1)
             /\ r.at # Fail => p # Fail /\ Is(F[1], n, Num(r.value)) /\ r.value \in 0..MaxInt
             /\ \A x \in 0..MaxInt : p # Fail /\ Is(F[1], n, Num(x)) =>
                  r.at # Fail /\ r.value = x
<1> DEFINE r == ParseIntValue(s, p)
           k == Skip(s, p, Blanks)
           first == IF At(s, k) \in {"+", "-"} THEN k + 1 ELSE k
           end == Skip(s, first, Digits)
           number == Number(SubSeq(s, first, end - 1))
           value == IF At(s, k) = "-" THEN -number ELSE number
<1>1. CASE p = Fail
  <2>1. r = Nothing
    BY <1>1 DEF ParseIntValue
  <2>2. r.at = Fail
    BY <2>1 DEF Nothing
  <2> HIDE DEF r
  <2> QED
    BY <1>1, <2>2 DEF Reaches, r
<1>2. CASE p # Fail
  <2>1. Stands(s, F, p, n)
    BY <1>2 DEF Reaches
  <2>2. /\ k \in 1..Len(s) + 1
        /\ k = Len(s) + 1 => n = Len(F[1]) + 1
        /\ k # Len(s) + 1 =>
             /\ k \in 1..Len(s) /\ n \in 1..Len(F[1]) /\ F[1][n] = LexemeAt(s, k)
             /\ Stands(s, F, EndOfLexeme(s, k) + 1, n + 1)
    BY <2>1, NextLexeme
  <2>3. r = IF end > first /\ value \in 0..MaxInt THEN [at |-> end, value |-> value]
            ELSE Nothing
    BY <1>2 DEF ParseIntValue
  <2>4. Nothing.at = Fail
    BY DEF Nothing
  <2>5. Len(s) \in Nat
    BY LenProperties
  \* The lexeme is a number where the parser has found digits, and the same one.
  <2>6. ASSUME k # Len(s) + 1, end > first
        PROVE  LexemeAt(s, k) = Num(value) /\ Stands(s, F, end, n + 1) /\ end # Fail
    <3>1. k \in 1..Len(s) /\ At(s, k) = s[k] /\ k \in Nat
      BY <2>2, <2>6 DEF At
    <3>2. CASE s[k] \in {"+", "-"}
      <4>1. first = k + 1
        BY <3>1, <3>2
      <4>2. /\ end \in k + 1..Len(s) + 1 /\ EndOfLexeme(s, k) = end - 1
            /\ end > k + 1 => LexemeAt(s, k) = Num(IF s[k] = "-" THEN -number ELSE number)
        BY <3>1, <3>2, <4>1, SignedLexeme
      <4> HIDE DEF end, number
      <4>3. end - 1 + 1 = end /\ end # 0
        BY <3>1, <4>2
      <4> QED
        BY <2>2, <2>6, <3>1, <4>1, <4>2, <4>3 DEF Fail
    <3>3. CASE s[k] \in Digits
      <4>1. first = k /\ At(s, k) # "-"
        BY <3>1, <3>3, KindsDiffer
      <4>2. /\ end \in k + 1..Len(s) + 1 /\ EndOfLexeme(s, k) = end - 1
            /\ LexemeAt(s, k) = Num(number)
        BY <3>1, <3>3, <4>1, NumberLexeme
      <4> HIDE DEF end, number
      <4>3. end - 1 + 1 = end /\ end # 0
        BY <3>1, <4>2
      <4> QED
        BY <2>2, <2>6, <4>1, <4>2, <4>3 DEF Fail
    <3>4. CASE s[k] \notin Digits /\ s[k] \notin {"+", "-"}
      <4>1. first = k
        BY <3>1, <3>4
      <4>2. k \in 1..Len(s) + 1 /\ k \in k..Len(s) + 1 /\ \A j \in k..k - 1 : s[j] \in Digits
        BY <2>2, <2>5, <3>1
      <4>3. end = k
        BY <3>4, <4>1, <4>2, RunEnds
      <4> HIDE DEF end, first
      <4> QED
        BY <2>6, <3>1, <4>1, <4>3
    <3> QED
      BY <3>2, <3>3, <3>4
  <2>7. ASSUME NEW x, Is(F[1], n, Num(x)) PROVE k # Len(s) + 1 /\ end > first
    <3>1. k # Len(s) + 1
      <4> SUFFICES ASSUME k = Len(s) + 1 PROVE FALSE
        OBVIOUS
      <4>1. n = Len(F[1]) + 1 /\ n \in 1..Len(F[1])
        BY <2>2, <2>7 DEF Is
      <4> QED
        BY <4>1
    <3>2. k \in 1..Len(s) /\ LexemeAt(s, k) = Num(x) /\ At(s, k) = s[k] /\ k \in Nat
      BY <2>2, <2>7, <3>1 DEF Is, At
    <3>3. LexemeAt(s, k).kind = "number"
      BY <3>2 DEF Num, Lexeme
    <3>4. CASE s[k] \in {"+", "-"}
      <4>1. first = k + 1
        BY <3>2, <3>4
      <4>2. end \in k + 1..Len(s) + 1 /\ (end = k + 1 => LexemeAt(s, k) = Mark(s[k]))
        BY <3>2, <3>4, <4>1, SignedLexeme
      <4>3. end # k + 1
        BY <3>3, <4>2 DEF Mark, Lexeme
      <4> HIDE DEF end, first
      <4> QED
        BY <3>1, <3>2, <4>1, <4>2, <4>3
    <3>5. CASE s[k] \in Digits
      <4>1. first = k
        BY <3>2, <3>5, KindsDiffer
      <4>2. end \in k + 1..Len(s) + 1
        BY <3>2, <3>5, <4>1, NumberLexeme
      <4> HIDE DEF end, first
      <4> QED
        BY <3>1, <3>2, <4>1, <4>2
    <3>6. CASE s[k] \notin Digits /\ s[k] \notin {"+", "-"}
      <4>1. CASE s[k] \in Letters
        BY <3>2, <3>3, <4>1, WordLexeme DEF Lexeme
      <4>2. CASE s[k] = "'"
        <5>1. CASE \A j \in k + 1..Len(s) : s[j] # "'"
          BY <3>2, <3>3, <4>2, <5>1, StringLexeme DEF Mark, Lexeme
        <5>2. CASE ~\A j \in k + 1..Len(s) : s[j] # "'"
          <6> DEFINE T == {j \in k + 1..Len(s) : s[j] = "'"}
          <6>1. T \subseteq Nat /\ T # {}
            BY <5>2, <3>2
          <6>2. Min(T) \in T /\ \A y \in T : Min(T) <= y
            BY <6>1, MinIsLeast
          <6>3. \A j \in k + 1..Min(T) - 1 : s[j] # "'"
            <7> TAKE j \in k + 1..Min(T) - 1
            <7>1. j \in k + 1..Len(s) /\ ~(Min(T) <= j)
              BY <2>5, <6>2
            <7> QED
              BY <6>2, <7>1
          <6>4. LexemeAt(s, k).kind = "string"
            <7>1. Min(T) \in k + 1..Len(s) /\ s[Min(T)] = "'"
              BY <6>2
            <7> HIDE DEF T
            <7>2. LexemeAt(s, k) = Str(SubSeq(s, k + 1, Min(T) - 1))
              BY <3>2, <4>2, <6>3, <7>1, StringLexeme
            <7> QED
              BY <7>2 DEF Str, Lexeme
          <6> QED
            BY <3>3, <6>4
        <5> QED
          BY <5>1, <5>2
      <4>3. CASE s[k] \notin Letters /\ s[k] # "'"
        <5>1. LexemeAt(s, k) = Mark(s[k])
          BY <3>2, <3>6, <4>3, OtherLexeme
        <5> QED
          BY <3>3, <5>1 DEF Mark, Lexeme
      <4> QED
        BY <4>1, <4>2, <4>3
    <3> QED
      BY <3>4, <3>5, <3>6
  <2>8. ASSUME r.at # Fail
        PROVE  Stands(s, F, r.at, n + 1) /\ Is(F[1], n, Num(r.value)) /\ r.value \in 0..MaxInt
    <3>1. end > first /\ value \in 0..MaxInt /\ r = [at |-> end, value |-> value]
      BY <2>3, <2>4, <2>8
    <3>2. k # Len(s) + 1
      <4> SUFFICES ASSUME k = Len(s) + 1 PROVE FALSE
        OBVIOUS
      <4>1. At(s, k) = "nul" /\ first = k
        BY <2>5 DEF At
      <4>2. end \in k..Len(s) + 1
        BY <2>2, <4>1, SkipIs
      <4> HIDE DEF end, first
      <4> QED
        BY <2>5, <3>1, <4>1, <4>2
    <3>3. LexemeAt(s, k) = Num(value) /\ Stands(s, F, end, n + 1)
      BY <2>6, <3>1, <3>2
    <3>4. r.at = end /\ r.value = value
      BY <3>1
    <3> HIDE DEF r, end, value, k, first
    <3> QED
      BY <2>2, <3>1, <3>2, <3>3, <3>4 DEF Is
  <2>9. ASSUME NEW x \in 0..MaxInt, Is(F[1], n, Num(x)) PROVE r.at # Fail /\ r.value = x
    <3>1. k # Len(s) + 1 /\ end > first
      BY <2>7, <2>9
    <3>2. LexemeAt(s, k) = Num(value) /\ end # Fail
      BY <2>6, <3>1
    <3>3. value = x
      <4>1. Num(value) = Num(x)
        BY <2>2, <2>9, <3>1, <3>2 DEF Is
      <4> HIDE DEF value
      <4> QED
        BY <4>1 DEF Num, Lexeme
    <3>4. r = [at |-> end, value |-> value]
      BY <2>3, <2>9, <3>1, <3>3
    <3> HIDE DEF r, end, value, k, first
    <3> QED
      BY <3>2, <3>3, <3>4
  <2> HIDE DEF r
  <2> QED
    BY <1>2, <2>8, <2>9 DEF Reaches, r
<1> QED
  BY <1>1, <1>2

\* parse_string_literal takes the next lexeme if it is a string that is not too long.
LEMMA StringRead ==
  ASSUME NEW s \in Seq(Chars), NEW F, Cuts(s, F), NEW p, NEW n, Reaches(s, F, p, n)
  PROVE  LET r == ParseStringLiteral(s, p)
         IN  /\ Reaches(s, F, r.at, n + 1)
             /\ r.at # Fail => p # Fail /\ Is(F[1], n, Str(r.value)) /\ Len(r.value) < NameMax
             /\ \A x : p # Fail /\ Is(F[1], n, Str(x)) /\ Len(x) < NameMax =>
                  r.at # Fail /\ r.value = x
<1> DEFINE r == ParseStringLiteral(s, p)
           k == Skip(s, p, Blanks)
           first == ExpectSymbol(s, p, "'")
           T == {j \in first..Len(s) : s[j] = "'"}
<1>1. Nothing.at = Fail
  BY DEF Nothing
<1>2. r = IF first # Fail /\ T # {} /\ Min(T) - first < NameMax
          THEN [at |-> Min(T) + 1, value |-> SubSeq(s, first, Min(T) - 1)]
          ELSE Nothing
  BY DEF ParseStringLiteral
<1>3. first = IF p # Fail /\ At(s, k) = "'" THEN k + 1 ELSE Fail
  BY DEF ExpectSymbol
<1> HIDE DEF r, k, first
<1>4. CASE p = Fail
  <2>1. r.at = Fail
    BY <1>1, <1>2, <1>3, <1>4
  <2> QED
    BY <1>4, <2>1 DEF Reaches, r
<1>5. CASE p # Fail
  <2>1. Stands(s, F, p, n)
    BY <1>5 DEF Reaches
  <2>2. /\ k \in 1..Len(s) + 1
        /\ k = Len(s) + 1 => n = Len(F[1]) + 1
        /\ k # Len(s) + 1 =>
             /\ k \in 1..Len(s) /\ n \in 1..Len(F[1]) /\ F[1][n] = LexemeAt(s, k)
             /\ Stands(s, F, EndOfLexeme(s, k) + 1, n + 1)
    BY <2>1, NextLexeme DEF k
  <2>3. Len(s) \in Nat
    BY LenProperties
  \* A string begins where the parser has found a quote and a second one.
  <2>4. ASSUME first # Fail, T # {}
        PROVE  /\ k \in 1..Len(s) /\ first = k + 1 /\ k # Len(s) + 1
               /\ Min(T) \in first..Len(s) /\ EndOfLexeme(s, k) = Min(T)
               /\ LexemeAt(s, k) = Str(SubSeq(s, first, Min(T) - 1))
    <3>1. k \in 1..Len(s) /\ s[k] = "'" /\ first = k + 1
      BY <1>3, <2>4 DEF At
    <3>2. T \subseteq Nat
      BY <3>1
    <3>3. Min(T) \in T /\ \A y \in T : Min(T) <= y
      BY <2>4, <3>2, MinIsLeast
    <3>4. \A j \in k + 1..Min(T) - 1 : s[j] # "'"
      <4> TAKE j \in k + 1..Min(T) - 1
      <4>1. j \in first..Len(s) /\ ~(Min(T) <= j)
        BY <2>3, <3>1, <3>3
      <4> QED
        BY <3>3, <4>1
    <3>5. Min(T) \in k + 1..Len(s) /\ s[Min(T)] = "'"
      BY <3>1, <3>3
    <3> HIDE DEF T
    <3>6. EndOfLexeme(s, k) = Min(T) /\ LexemeAt(s, k) = Str(SubSeq(s, k + 1, Min(T) - 1))
      BY <3>1, <3>4, <3>5, StringLexeme
    <3>7. k # Len(s) + 1
      BY <2>3, <3>1
    <3> QED
      BY <3>1, <3>5, <3>6, <3>7
  <2>5. ASSUME NEW x, Is(F[1], n, Str(x)) PROVE first # Fail /\ T # {}
    <3>1. k # Len(s) + 1
      <4> SUFFICES ASSUME k = Len(s) + 1 PROVE FALSE
        OBVIOUS
      <4>1. n = Len(F[1]) + 1 /\ n \in 1..Len(F[1])
        BY <2>2, <2>5 DEF Is
      <4> QED
        BY <4>1
    <3>2. k \in 1..Len(s) /\ LexemeAt(s, k) = Str(x) /\ At(s, k) = s[k] /\ k \in Nat
      BY <2>2, <2>5, <3>1 DEF Is, At
    <3>3. LexemeAt(s, k).kind = "string"
      BY <3>2 DEF Str, Lexeme
    <3>4. s[k] = "'"
      <4>1. CASE s[k] \in Letters
        BY <3>2, <3>3, <4>1, WordLexeme DEF Lexeme
      <4>2. CASE s[k] \in Digits
        BY <3>2, <3>3, <4>2, NumberLexeme DEF Num, Lexeme
      <4>3. CASE s[k] \in {"+", "-"}
        <5> DEFINE w == Skip(s, k + 1, Digits)
        <5>1. /\ w \in k + 1..Len(s) + 1
              /\ w > k + 1 => LexemeAt(s, k).kind = "number"
          BY <3>2, <4>3, SignedLexeme DEF Num, Lexeme
        <5>2. w = k + 1 => LexemeAt(s, k).kind = "mark"
          BY <3>2, <4>3, SignedLexeme DEF Mark, Lexeme
        <5> HIDE DEF w
        <5> QED
          BY <2>3, <3>2, <3>3, <5>1, <5>2
      <4>4. CASE s[k] \notin Letters \cup Digits \cup {"+", "-", "'"}
        <5>1. LexemeAt(s, k) = Mark(s[k])
          BY <3>2, <4>4, OtherLexeme
        <5> QED
          BY <3>3, <5>1 DEF Mark, Lexeme
      <4> QED
        BY <4>1, <4>2, <4>3, <4>4
    <3>5. first = k + 1 /\ first # Fail
      BY <1>3, <1>5, <3>2, <3>4 DEF Fail
    <3>6. CASE T = {}
      <4>1. \A j \in k + 1..Len(s) : s[j] # "'"
        BY <3>5, <3>6
      <4>2. LexemeAt(s, k) = Mark("'")
        BY <3>2, <3>4, <4>1, StringLexeme
      <4> QED
        BY <3>3, <4>2 DEF Mark, Lexeme
    <3> QED
      BY <3>5, <3>6
  <2>6. ASSUME first # Fail, T # {}
        PROVE  Len(SubSeq(s, first, Min(T) - 1)) = Min(T) - first /\ Min(T) + 1 # Fail
    <3>1. k \in 1..Len(s) /\ first = k + 1 /\ Min(T) \in first..Len(s)
      BY <2>4, <2>6
    <3> HIDE DEF T
    <3>2. first \in Int /\ Min(T) - 1 \in Int /\ \A j \in first..Min(T) - 1 : s[j] \in Chars
      <4>1. \A j \in first..Min(T) - 1 : j \in 1..Len(s)
        BY <2>3, <3>1
      <4> QED
        BY <3>1, <4>1, ElementOfSeq
    <3>3. Len(SubSeq(s, first, Min(T) - 1)) =
            IF first <= Min(T) - 1 THEN Min(T) - 1 - first + 1 ELSE 0
      BY <3>2, SubSeqProperties
    <3> QED
      BY <3>1, <3>3 DEF Fail
  <2>7. ASSUME r.at # Fail
        PROVE  Stands(s, F, r.at, n + 1) /\ Is(F[1], n, Str(r.value)) /\ Len(r.value) < NameMax
    <3>1. /\ first # Fail /\ T # {} /\ Min(T) - first < NameMax
          /\ r.at = Min(T) + 1 /\ r.value = SubSeq(s, first, Min(T) - 1)
      BY <1>1, <1>2, <2>7
    <3> HIDE DEF T
    <3> QED
      BY <2>2, <2>4, <2>6, <3>1 DEF Is
  <2>8. ASSUME NEW x, Is(F[1], n, Str(x)), Len(x) < NameMax PROVE r.at # Fail /\ r.value = x
    <3>1. first # Fail /\ T # {}
      BY <2>5, <2>8
    <3> HIDE DEF T
    <3>2. Str(SubSeq(s, first, Min(T) - 1)) = Str(x)
      BY <2>2, <2>4, <2>8, <3>1 DEF Is
    <3>3. SubSeq(s, first, Min(T) - 1) = x
      BY <3>2 DEF Str, Lexeme
    <3>4. Min(T) - first < NameMax /\ Min(T) + 1 # Fail
      BY <2>6, <2>8, <3>1, <3>3
    <3> QED
      BY <1>2, <3>1, <3>3, <3>4
  <2> QED
    BY <1>5, <2>7, <2>8 DEF Reaches, r
<1> QED
  BY <1>4, <1>5

\* Nothing follows, or one semicolon.
Ends(L, n) == n = Len(L) + 1 \/ (n = Len(L) /\ Is(L, n, Mark(";")))

\* at_statement_end finds out whether the lexemes end here.
LEMMA EndRead ==
  ASSUME NEW s \in Seq(Chars), NEW F, Cuts(s, F), NEW p, NEW n, Reaches(s, F, p, n)
  PROVE  AtStatementEnd(s, p) <=> p # Fail /\ Ends(F[1], n)
<1> DEFINE q == ExpectSymbol(s, p, ";")
           last == IF q # Fail THEN q ELSE p
           k == Skip(s, last, Blanks)
<1>1. AtStatementEnd(s, p) <=> p # Fail /\ At(s, k) = "nul"
  BY DEF AtStatementEnd
<1>2. CASE p = Fail
  BY <1>1, <1>2
<1>3. CASE p # Fail
  <2>1. Stands(s, F, p, n) /\ n \in 1..Len(F[1]) + 1
    BY <1>3 DEF Reaches, Stands
  <2>2. Reaches(s, F, q, n + 1) /\ (q # Fail <=> Is(F[1], n, Mark(";")))
    BY <1>3, SymbolRead DEF Symbols
  <2> HIDE DEF q
  <2> DEFINE m == IF q # Fail THEN n + 1 ELSE n
  <2>3. Stands(s, F, last, m)
    BY <2>1, <2>2 DEF Reaches
  <2> HIDE DEF last, m
  <2>4. /\ k \in 1..Len(s) + 1
        /\ k = Len(s) + 1 => m = Len(F[1]) + 1
        /\ k # Len(s) + 1 => k \in 1..Len(s) /\ m \in 1..Len(F[1])
    BY <2>3, NextLexeme
  <2>5. At(s, k) = "nul" <=> k = Len(s) + 1
    <3>1. CASE k = Len(s) + 1
      BY <3>1, LenProperties DEF At
    <3>2. CASE k # Len(s) + 1
      <4>1. k \in 1..Len(s) /\ s[k] \in Chars
        BY <2>4, <3>2, ElementOfSeq
      <4>2. At(s, k) = s[k]
        BY <4>1 DEF At
      <4> QED
        BY <3>2, <4>1, <4>2, KindsDiffer
    <3> QED
      BY <3>1, <3>2
  <2> HIDE DEF k
  <2>6. Len(F[1]) \in Nat
    <3>1. PICK S : F \in [1..Len(s) + 1 -> Seq(S)]
      BY DEF Cuts
    <3>2. 1 \in 1..Len(s) + 1
      BY LenProperties
    <3> QED
      BY <3>1, <3>2, LenProperties
  <2>7. k = Len(s) + 1 <=> m = Len(F[1]) + 1
    BY <2>4, <2>6
  <2>8. m = Len(F[1]) + 1 <=> Ends(F[1], n)
    <3>1. CASE q # Fail
      <4>1. m = n + 1 /\ n \in 1..Len(F[1]) /\ Is(F[1], n, Mark(";"))
        BY <2>2, <3>1 DEF m, Is
      <4> DEFINE K == Len(F[1])
      <4>2. Ends(F[1], n) <=> n = K + 1 \/ n = K
        BY <4>1 DEF Ends
      <4>3. K \in Nat /\ n \in 1..K
        BY <2>6, <4>1
      <4> HIDE DEF K
      <4>4. n + 1 = K + 1 <=> n = K + 1 \/ n = K
        BY <4>3
      <4> QED
        BY <4>1, <4>2, <4>4 DEF K
    <3>2. CASE q = Fail
      <4>1. m = n /\ ~Is(F[1], n, Mark(";"))
        BY <2>2, <3>2 DEF m
      <4> QED
        BY <4>1 DEF Ends
    <3> QED
      BY <3>1, <3>2
  <2> QED
    BY <1>1, <1>3, <2>5, <2>7, <2>8
<1> QED
  BY <1>2, <1>3

-----------------------------------------------------------------------------
(* What the parser makes of the lexemes of a whole statement.              *)

\* The marks of the grammar that are not words.
LeftParen == "("
RightParen == ")"
Comma == ","

ValuesWithId(L, i, x, a) ==
  /\ Is(L, 5, Mark(LeftParen)) /\ Is(L, 6, Num(i)) /\ Is(L, 7, Mark(Comma)) /\ Is(L, 8, Str(x))
  /\ Is(L, 9, Mark(Comma)) /\ Is(L, 10, Num(a)) /\ Is(L, 11, Mark(RightParen)) /\ Ends(L, 12)
  /\ i \in 0..MaxInt /\ i > 0 /\ Len(x) < NameMax /\ a \in 0..MaxInt

IntoUsers(L) == Is(L, 1, Mark("insert")) /\ Is(L, 2, Mark("into")) /\ Is(L, 3, Mark("users"))

InsertWithId(L, i, x, a) ==
  IntoUsers(L) /\ Is(L, 4, Mark("values")) /\ ValuesWithId(L, i, x, a)

InsertWithout(L, x, a) ==
  /\ IntoUsers(L)
  /\ Is(L, 4, Mark("name")) /\ Is(L, 5, Mark("age")) /\ Is(L, 6, Mark("values"))
  /\ Is(L, 7, Str(x)) /\ Is(L, 8, Num(a)) /\ Ends(L, 9)
  /\ Len(x) < NameMax /\ a \in 0..MaxInt

\* A statement is never mistaken for a refusal.
LEMMA StatementsAreSome ==
  /\ \A hasId, i, x, a : InsertStatement(hasId, i, x, a) # Refused
  /\ \A l, w, i, x : SelectStatement(l, w, i, x) # Refused
<1>1. \A hasId, i, x, a : InsertStatement(hasId, i, x, a).type = "insert"
  BY DEF InsertStatement
<1>2. \A l, w, i, x : SelectStatement(l, w, i, x).type = "select"
  BY DEF SelectStatement
<1>3. Refused.type = "refused"
  BY DEF Refused
<1> QED
  BY <1>1, <1>2, <1>3

\* The statement v is what stands in the parentheses, if p was reached.
ValuesAsRead(L, p, v) ==
  /\ v # Refused => p # Fail /\ \E i, x, a :
       ValuesWithId(L, i, x, a) /\ v = InsertStatement(TRUE, i, x, a)
  /\ \A i, x, a : p # Fail /\ ValuesWithId(L, i, x, a) => v = InsertStatement(TRUE, i, x, a)

\* parse_insert_values_with_id reads what stands in the parentheses.
LEMMA ValuesRead ==
  ASSUME NEW s \in Seq(Chars), NEW F, Cuts(s, F), NEW p, Reaches(s, F, p, 5)
  PROVE  ValuesAsRead(F[1], p, ParseInsertValuesWithId(s, p))
<1> DEFINE r == ParseInsertValuesWithId(s, p)
           open == ExpectSymbol(s, p, LeftParen)
           id == ParseIntValue(s, open)
           comma == ExpectSymbol(s, id.at, Comma)
           name == ParseStringLiteral(s, comma)
           second == ExpectSymbol(s, name.at, Comma)
           age == ParseIntValue(s, second)
           close == ExpectSymbol(s, age.at, RightParen)
<1>1. r = IF AtStatementEnd(s, close) /\ id.value > 0
          THEN InsertStatement(TRUE, id.value, name.value, age.value) ELSE Refused
  BY DEF ParseInsertValuesWithId, LeftParen, Comma, RightParen
<1> HIDE DEF r
<1>0. LeftParen \in Symbols /\ Comma \in Symbols /\ RightParen \in Symbols
  BY DEF Symbols, LeftParen, Comma, RightParen
<1>2. Reaches(s, F, open, 6) /\ (open # Fail <=> p # Fail /\ Is(F[1], 5, Mark(LeftParen)))
  BY <1>0, SymbolRead
<1> HIDE DEF open
<1>3. /\ Reaches(s, F, id.at, 7)
      /\ id.at # Fail => open # Fail /\ Is(F[1], 6, Num(id.value)) /\ id.value \in 0..MaxInt
      /\ \A x \in 0..MaxInt : open # Fail /\ Is(F[1], 6, Num(x)) =>
           id.at # Fail /\ id.value = x
  BY <1>2, NumberRead
<1> HIDE DEF id
<1>4. Reaches(s, F, comma, 8) /\ (comma # Fail <=> id.at # Fail /\ Is(F[1], 7, Mark(Comma)))
  BY <1>0, <1>3, SymbolRead
<1> HIDE DEF comma
<1>5. /\ Reaches(s, F, name.at, 9)
      /\ name.at # Fail => comma # Fail /\ Is(F[1], 8, Str(name.value)) /\ Len(name.value) < NameMax
      /\ \A x : comma # Fail /\ Is(F[1], 8, Str(x)) /\ Len(x) < NameMax =>
           name.at # Fail /\ name.value = x
  BY <1>4, StringRead
<1> HIDE DEF name
<1>6. Reaches(s, F, second, 10) /\ (second # Fail <=> name.at # Fail /\ Is(F[1], 9, Mark(Comma)))
  BY <1>0, <1>5, SymbolRead
<1> HIDE DEF second
<1>7. /\ Reaches(s, F, age.at, 11)
      /\ age.at # Fail => second # Fail /\ Is(F[1], 10, Num(age.value)) /\ age.value \in 0..MaxInt
      /\ \A x \in 0..MaxInt : second # Fail /\ Is(F[1], 10, Num(x)) =>
           age.at # Fail /\ age.value = x
  BY <1>6, NumberRead
<1> HIDE DEF age
<1>8. Reaches(s, F, close, 12) /\ (close # Fail <=> age.at # Fail /\ Is(F[1], 11, Mark(RightParen)))
  BY <1>0, <1>7, SymbolRead
<1> HIDE DEF close
<1>9. AtStatementEnd(s, close) <=> close # Fail /\ Ends(F[1], 12)
  BY <1>8, EndRead
<1>10. ASSUME r # Refused
       PROVE  /\ p # Fail /\ ValuesWithId(F[1], id.value, name.value, age.value)
              /\ r = InsertStatement(TRUE, id.value, name.value, age.value)
  BY <1>1, <1>2, <1>3, <1>4, <1>5, <1>6, <1>7, <1>8, <1>9, <1>10 DEF ValuesWithId
<1>11. ASSUME NEW i, NEW x, NEW a, p # Fail, ValuesWithId(F[1], i, x, a)
       PROVE  r = InsertStatement(TRUE, i, x, a)
  <2>1. open # Fail /\ id.at # Fail /\ id.value = i
    BY <1>2, <1>3, <1>11 DEF ValuesWithId
  <2>2. comma # Fail /\ name.at # Fail /\ name.value = x
    BY <1>4, <1>5, <1>11, <2>1 DEF ValuesWithId
  <2>3. second # Fail /\ age.at # Fail /\ age.value = a
    BY <1>6, <1>7, <1>11, <2>2 DEF ValuesWithId
  <2>4. AtStatementEnd(s, close) /\ id.value > 0
    BY <1>8, <1>9, <1>11, <2>1, <2>3 DEF ValuesWithId
  <2> QED
    BY <1>1, <2>1, <2>2, <2>3, <2>4
<1> QED
  BY <1>10, <1>11 DEF ValuesAsRead, r

\* The statement v is the insertion that stands there.
InsertAsRead(L, v) ==
  /\ v # Refused =>
       \/ \E i, x, a : InsertWithId(L, i, x, a) /\ v = InsertStatement(TRUE, i, x, a)
       \/ \E x, a : InsertWithout(L, x, a) /\ v = InsertStatement(FALSE, 0, x, a)
  /\ \A i, x, a : InsertWithId(L, i, x, a) => v = InsertStatement(TRUE, i, x, a)
  /\ \A x, a : InsertWithout(L, x, a) => v = InsertStatement(FALSE, 0, x, a)

\* parse_insert reads the two forms of an insert, and refuses all else.
LEMMA InsertRead ==
  ASSUME NEW s \in Seq(Chars), NEW F, Cuts(s, F), NEW p, Stands(s, F, p, 1)
  PROVE  InsertAsRead(F[1], ParseInsert(s, p))
<1> DEFINE r == ParseInsert(s, p)
           insert == ExpectKeyword(s, p, "insert")
           into == ExpectKeyword(s, insert, "into")
           table == ExpectKeyword(s, into, "users")
           values == ExpectKeyword(s, table, "values")
           first == ExpectKeyword(s, table, "name")
           columns == ExpectKeyword(s, first, "age")
           after == ExpectKeyword(s, columns, "values")
           name == ParseStringLiteral(s, after)
           age == ParseIntValue(s, name.at)
<1>1. r = IF values # Fail THEN ParseInsertValuesWithId(s, values)
          ELSE IF AtStatementEnd(s, age.at) THEN InsertStatement(FALSE, 0, name.value, age.value)
          ELSE Refused
  BY DEF ParseInsert
<1>2. {"insert", "into", "users", "values", "name", "age"} \subseteq Keywords
  BY DEF Keywords
<1>3. p # Fail /\ Reaches(s, F, p, 1)
  BY DEF Stands, Reaches, Fail
<1>4. Reaches(s, F, insert, 2) /\ (insert # Fail <=> Is(F[1], 1, Mark("insert")))
  BY <1>2, <1>3, KeywordRead
<1> HIDE DEF r, insert
<1>5. Reaches(s, F, into, 3) /\ (into # Fail <=> insert # Fail /\ Is(F[1], 2, Mark("into")))
  BY <1>2, <1>4, KeywordRead
<1> HIDE DEF into
<1>6. Reaches(s, F, table, 4) /\ (table # Fail <=> into # Fail /\ Is(F[1], 3, Mark("users")))
  BY <1>2, <1>5, KeywordRead
<1> HIDE DEF table
<1>7. Reaches(s, F, values, 5) /\ (values # Fail <=> table # Fail /\ Is(F[1], 4, Mark("values")))
  BY <1>2, <1>6, KeywordRead
<1> HIDE DEF values
<1>8. Reaches(s, F, first, 5) /\ (first # Fail <=> table # Fail /\ Is(F[1], 4, Mark("name")))
  BY <1>2, <1>6, KeywordRead
<1> HIDE DEF first
<1>9. Reaches(s, F, columns, 6) /\ (columns # Fail <=> first # Fail /\ Is(F[1], 5, Mark("age")))
  BY <1>2, <1>8, KeywordRead
<1> HIDE DEF columns
<1>10. Reaches(s, F, after, 7) /\ (after # Fail <=> columns # Fail /\ Is(F[1], 6, Mark("values")))
  BY <1>2, <1>9, KeywordRead
<1> HIDE DEF after
<1>11. /\ Reaches(s, F, name.at, 8)
       /\ name.at # Fail => after # Fail /\ Is(F[1], 7, Str(name.value))
                               /\ Len(name.value) < NameMax
       /\ \A x : after # Fail /\ Is(F[1], 7, Str(x)) /\ Len(x) < NameMax =>
            name.at # Fail /\ name.value = x
  BY <1>10, StringRead
<1> HIDE DEF name
<1>12. /\ Reaches(s, F, age.at, 9)
       /\ age.at # Fail => name.at # Fail /\ Is(F[1], 8, Num(age.value)) /\ age.value \in 0..MaxInt
       /\ \A x \in 0..MaxInt : name.at # Fail /\ Is(F[1], 8, Num(x)) =>
            age.at # Fail /\ age.value = x
  BY <1>11, NumberRead
<1> HIDE DEF age
<1>13. AtStatementEnd(s, age.at) <=> age.at # Fail /\ Ends(F[1], 9)
  BY <1>12, EndRead
<1> DEFINE v == ParseInsertValuesWithId(s, values)
<1>14. ValuesAsRead(F[1], values, v)
  BY <1>7, ValuesRead
<1>15. table # Fail <=> IntoUsers(F[1])
  BY <1>4, <1>5, <1>6 DEF IntoUsers
<1>16. CASE values # Fail
  <2>1. IntoUsers(F[1]) /\ Is(F[1], 4, Mark("values")) /\ r = ParseInsertValuesWithId(s, values)
    BY <1>1, <1>7, <1>15, <1>16
  <2>2. ~Is(F[1], 4, Mark("name"))
    BY <2>1 DEF Is, Mark, Lexeme
  <2>3. ASSUME r # Refused
        PROVE  \E i, x, a : InsertWithId(F[1], i, x, a) /\ r = InsertStatement(TRUE, i, x, a)
    BY <1>14, <2>1, <2>3 DEF InsertWithId, ValuesAsRead
  <2>4. ASSUME NEW i, NEW x, NEW a, InsertWithId(F[1], i, x, a)
        PROVE  r = InsertStatement(TRUE, i, x, a)
    BY <1>14, <1>16, <2>1, <2>4 DEF InsertWithId, ValuesAsRead
  <2> QED
    BY <2>2, <2>3, <2>4 DEF InsertWithout, InsertAsRead, r
<1>17. CASE values = Fail
  <2>1. r = IF AtStatementEnd(s, age.at) THEN InsertStatement(FALSE, 0, name.value, age.value)
            ELSE Refused
    BY <1>1, <1>17
  <2>2. \A i, x, a : ~InsertWithId(F[1], i, x, a)
    BY <1>7, <1>15, <1>17 DEF InsertWithId
  <2>3. ASSUME r # Refused
        PROVE  /\ InsertWithout(F[1], name.value, age.value)
               /\ r = InsertStatement(FALSE, 0, name.value, age.value)
    BY <1>8, <1>9, <1>10, <1>11, <1>12, <1>13, <1>15, <2>1, <2>3 DEF InsertWithout
  <2>4. ASSUME NEW x, NEW a, InsertWithout(F[1], x, a)
        PROVE  r = InsertStatement(FALSE, 0, x, a)
    <3>1. after # Fail
      BY <1>8, <1>9, <1>10, <1>15, <2>4 DEF InsertWithout
    <3>2. name.at # Fail /\ name.value = x
      BY <1>11, <2>4, <3>1 DEF InsertWithout
    <3>3. age.at # Fail /\ age.value = a
      BY <1>12, <2>4, <3>2 DEF InsertWithout
    <3> QED
      BY <1>13, <2>1, <2>4, <3>2, <3>3 DEF InsertWithout
  <2> QED
    BY <2>2, <2>3, <2>4 DEF InsertAsRead, r
<1> QED
  BY <1>16, <1>17

\* Behind the columns sel, at lexeme n, there is one more.
ColumnAsRead(s, F, p, n, sel, r) ==
  /\ Reaches(s, F, r.at, n + 1)
  /\ r.at # Fail => p # Fail /\ \E c \in Columns \ Range(sel) :
       Is(F[1], n, Mark(c)) /\ r.value = sel \o <<c>>
  /\ \A c \in Columns \ Range(sel) : p # Fail /\ Is(F[1], n, Mark(c)) =>
       r.at # Fail /\ r.value = sel \o <<c>>

\* parse_column_name reads one more column, which must be a new one.
LEMMA ColumnRead ==
  ASSUME NEW s \in Seq(Chars), NEW F, Cuts(s, F), NEW p, NEW n, Reaches(s, F, p, n), NEW sel
  PROVE  ColumnAsRead(s, F, p, n, sel, ParseColumnName(s, p, sel))
<1> DEFINE word == ReadWord(s, p)
           new == word.value \in {<<c>> : c \in Columns} /\ word.value[1] \notin Range(sel)
           r == ParseColumnName(s, p, sel)
<1>1. /\ Reaches(s, F, word.at, n + 1)
      /\ word.at # Fail => p # Fail /\ Is(F[1], n, Lexeme("mark", 0, word.value))
      /\ word.at = Fail => word.value = <<>>
      /\ \A x : p # Fail /\ Is(F[1], n, Lexeme("mark", 0, x)) /\ x[1] \in Letters =>
           word.at # Fail /\ word.value = x
  BY WordRead
<1>2. r = IF new THEN [at |-> word.at, value |-> sel \o word.value] ELSE Nothing
  BY DEF ParseColumnName
<1> HIDE DEF word, r
<1>3. \A c : <<c>> # <<>> /\ <<c>>[1] = c
  OBVIOUS
<1>4. Columns \subseteq Letters
  BY DEF Columns, Letters, Keywords
<1>5. CASE new
  <2>1. PICK c \in Columns : word.value = <<c>>
    BY <1>5
  <2>2. /\ r.at = word.at /\ r.value = sel \o <<c>>
        /\ c \notin Range(sel) /\ word.at # Fail
    BY <1>1, <1>2, <1>3, <1>5, <2>1
  <2>3. p # Fail /\ Is(F[1], n, Mark(c))
    BY <1>1, <2>1, <2>2 DEF Mark
  <2>4. ASSUME NEW d, Is(F[1], n, Mark(d)) PROVE d = c
    BY <1>3, <2>3, <2>4 DEF Is, Mark, Lexeme
  <2> QED
    BY <1>1, <2>1, <2>2, <2>3, <2>4 DEF ColumnAsRead, r
<1>6. CASE ~new
  <2>1. r.at = Fail
    BY <1>2, <1>6 DEF Nothing
  <2>2. ASSUME NEW c \in Columns \ Range(sel), p # Fail, Is(F[1], n, Mark(c)) PROVE FALSE
    <3>1. word.value = <<c>>
      BY <1>1, <1>3, <1>4, <2>2 DEF Mark
    <3> QED
      BY <1>3, <1>6, <2>2, <3>1
  <2> QED
    BY <2>1, <2>2 DEF ColumnAsRead, Reaches, r
<1> QED
  BY <1>5, <1>6

\* The columns that parse_select_columns reads, one after the other.
LEMMA ColumnsAre ==
  ASSUME NEW s, NEW p
  PROVE  LET star == ExpectSymbol(s, p, "*")
             a1 == ParseColumnName(s, p, <<>>)
             c1 == ExpectSymbol(s, a1.at, Comma)
             a2 == ParseColumnName(s, c1, a1.value)
             c2 == ExpectSymbol(s, a2.at, Comma)
             a3 == ParseColumnName(s, c2, a2.value)
             c3 == ExpectSymbol(s, a3.at, Comma)
         IN  ParseSelectColumns(s, p) =
               IF star # Fail THEN [at |-> star, value |-> <<>>]
               ELSE IF c1 = Fail THEN a1 ELSE IF c2 = Fail THEN a2
               ELSE IF c3 = Fail THEN a3 ELSE Nothing
<1> DEFINE star == ExpectSymbol(s, p, "*")
           Name(q, sel) == ParseColumnName(s, q, sel)
           Next1(q) == ExpectSymbol(s, q, Comma)
           a1 == Name(p, <<>>)
           c1 == Next1(a1.at)
           a2 == Name(c1, a1.value)
           c2 == Next1(a2.at)
           a3 == Name(c2, a2.value)
           c3 == Next1(a3.at)
           Eq(f) == f = [n \in 1..MaxSelectColumns |->
                           IF n = 1 THEN Name(p, <<>>)
                           ELSE Name(Next1(f[n - 1].at), f[n - 1].value)]
           after == CHOOSE f : Eq(f)
           ends == {n \in DOMAIN after : Next1(after[n].at) = Fail}
           r == ParseSelectColumns(s, p)
<1>1. r = IF star # Fail THEN [at |-> star, value |-> <<>>]
          ELSE IF ends = {} THEN Nothing ELSE after[Min(ends)]
  BY Zenon DEF ParseSelectColumns, Comma
<1> HIDE DEF star, Name, Next1, r
<1> DEFINE g == [n \in 1..3 |-> IF n = 1 THEN a1 ELSE IF n = 2 THEN a2 ELSE a3]
<1>2. Eq(g)
  <2>1. g[1] = a1 /\ g[2] = a2 /\ g[3] = a3
    BY DEF g
  <2> HIDE DEF g
  <2> DEFINE h == [n \in 1..3 |-> IF n = 1 THEN Name(p, <<>>)
                                  ELSE Name(Next1(g[n - 1].at), g[n - 1].value)]
  <2>2. h[1] = Name(p, <<>>) /\ h[2] = Name(Next1(g[1].at), g[1].value)
        /\ h[3] = Name(Next1(g[2].at), g[2].value)
    OBVIOUS
  <2>3. h[1] = g[1] /\ h[2] = g[2] /\ h[3] = g[3]
    BY <2>1, <2>2
  <2>4. g = h
    <3>1. \A n \in 1..3 : g[n] = h[n]
      <4> TAKE n \in 1..3
      <4>1. n = 1 \/ n = 2 \/ n = 3
        OBVIOUS
      <4> HIDE DEF h
      <4> QED
        BY <2>3, <4>1
    <3> HIDE DEF h
    <3>2. g = [n \in 1..3 |-> g[n]] /\ h = [n \in 1..3 |-> h[n]]
      BY DEF g, h
    <3> QED
      BY <3>1, <3>2
  <2> QED
    BY <2>4 DEF MaxSelectColumns
<1> HIDE DEF g
<1>3. Eq(after)
  BY <1>2
<1> HIDE DEF after
<1>4. DOMAIN after = 1..3 /\ after[1] = a1 /\ after[2] = a2 /\ after[3] = a3
  <2> DEFINE h == [n \in 1..3 |-> IF n = 1 THEN Name(p, <<>>)
                                  ELSE Name(Next1(after[n - 1].at), after[n - 1].value)]
  <2>1. after = h
    BY <1>3 DEF MaxSelectColumns
  <2>2. /\ DOMAIN h = 1..3 /\ h[1] = Name(p, <<>>)
        /\ h[2] = Name(Next1(after[1].at), after[1].value)
        /\ h[3] = Name(Next1(after[2].at), after[2].value)
    OBVIOUS
  <2> HIDE DEF h
  <2> QED
    BY <2>1, <2>2
<1> HIDE DEF Eq, a1, a2, a3
<1>5. ends = {n \in 1..3 : (n = 1 /\ c1 = Fail) \/ (n = 2 /\ c2 = Fail) \/ (n = 3 /\ c3 = Fail)}
  BY <1>4
<1> HIDE DEF ends, c1, c2, c3
<1>6. ends # {} => Min(ends) \in ends /\ \A y \in ends : Min(ends) <= y
  <2>1. ends \subseteq Nat
    BY <1>5
  <2> QED
    BY <2>1, MinIsLeast
<1>7. CASE c1 = Fail
  <2>1. 1 \in ends /\ \A y \in ends : 1 <= y /\ y \in Nat
    BY <1>5, <1>7
  <2>2. Min(ends) = 1
    BY <1>6, <2>1
  <2> QED
    BY <1>1, <1>4, <1>7, <2>1, <2>2 DEF r, star, Name, Next1, a1, a2, a3, c1, c2, c3
<1>8. CASE c1 # Fail /\ c2 = Fail
  <2>1. 2 \in ends /\ \A y \in ends : 2 <= y /\ y \in Nat
    BY <1>5, <1>8
  <2>2. Min(ends) = 2
    BY <1>6, <2>1
  <2> QED
    BY <1>1, <1>4, <1>8, <2>1, <2>2 DEF r, star, Name, Next1, a1, a2, a3, c1, c2, c3
<1>9. CASE c1 # Fail /\ c2 # Fail /\ c3 = Fail
  <2>1. 3 \in ends /\ \A y \in ends : 3 <= y /\ y \in Nat
    BY <1>5, <1>9
  <2>2. Min(ends) = 3
    BY <1>6, <2>1
  <2> QED
    BY <1>1, <1>4, <1>9, <2>1, <2>2 DEF r, star, Name, Next1, a1, a2, a3, c1, c2, c3
<1>10. CASE c1 # Fail /\ c2 # Fail /\ c3 # Fail
  <2>1. ends = {}
    BY <1>5, <1>10
  <2> QED
    BY <1>1, <1>10, <2>1 DEF r, star, Name, Next1, a1, a2, a3, c1, c2, c3
<1> QED
  BY <1>7, <1>8, <1>9, <1>10

\* From lexeme 2 to n - 1: the star, which is no columns, or up to three of them.
ListAt(L, l, n) ==
  \/ l = <<>> /\ n = 3 /\ Is(L, 2, Mark("*"))
  \/ \E x \in Columns : l = <<x>> /\ n = 3 /\ Is(L, 2, Mark(x))
  \/ \E x, y \in Columns :
       /\ x # y /\ l = <<x, y>> /\ n = 5
       /\ Is(L, 2, Mark(x)) /\ Is(L, 3, Mark(Comma)) /\ Is(L, 4, Mark(y))
  \/ \E x, y, z \in Columns :
       /\ x # y /\ x # z /\ y # z /\ l = <<x, y, z>> /\ n = 7
       /\ Is(L, 2, Mark(x)) /\ Is(L, 3, Mark(Comma)) /\ Is(L, 4, Mark(y))
       /\ Is(L, 5, Mark(Comma)) /\ Is(L, 6, Mark(z))

\* With no comma behind it, the list is the one that was read.
ColumnsAsRead(s, F, p, r) ==
  /\ r.at # Fail => p # Fail /\ \E n : ListAt(F[1], r.value, n) /\ Stands(s, F, r.at, n)
  /\ \A l, n : p # Fail /\ ListAt(F[1], l, n) /\ ~Is(F[1], n, Mark(Comma)) =>
       r.at # Fail /\ r.value = l /\ Stands(s, F, r.at, n)

\* Lists of up to three names.
LEMMA ListsOfThree ==
  /\ <<>> \o <<>> = <<>> /\ Range(<<>>) = {}
  /\ \A x : <<>> \o <<x>> = <<x>> /\ Range(<<x>>) = {x}
  /\ \A x, y : <<x>> \o <<y>> = <<x, y>> /\ Range(<<x, y>>) = {x, y}
  /\ \A x, y, z : <<x, y>> \o <<z>> = <<x, y, z>>
<1>1. \A x : Range(<<x>>) = {x}
  BY DEF Range
<1>2. \A x, y : Range(<<x, y>>) = {x, y}
  BY DEF Range
<1>3. Range(<<>>) = {}
  BY DEF Range
<1>4. \A x : <<>> \o <<x>> = <<x>>
  OBVIOUS
<1>5. \A x, y : <<x>> \o <<y>> = <<x, y>>
  <2> TAKE x, y
  <2> DEFINE S == {x, y}
  <2>1. <<x>> \in Seq(S) /\ <<y>> \in Seq(S) /\ <<x, y>> \in Seq(S)
    OBVIOUS
  <2>2. Len(<<x>>) = 1 /\ Len(<<y>>) = 1 /\ Len(<<x, y>>) = 2
    OBVIOUS
  <2>3. <<x>>[1] = x /\ <<y>>[1] = y /\ <<x, y>>[1] = x /\ <<x, y>>[2] = y
    OBVIOUS
  <2> HIDE DEF S
  <2> DEFINE q == <<x>> \o <<y>>  r == <<x, y>>
  <2>4. q \in Seq(S) /\ Len(q) = 2 /\ q[1] = x /\ q[2] = y
    BY <2>1, <2>2, <2>3, ConcatProperties
  <2>5. r \in Seq(S) /\ Len(r) = 2 /\ r[1] = x /\ r[2] = y
    BY <2>1, <2>2, <2>3
  <2> HIDE DEF q, r
  <2>6. q = r
    BY <2>4, <2>5, SeqEqual
  <2> QED
    BY <2>6 DEF q, r
<1>6. \A x, y, z : <<x, y>> \o <<z>> = <<x, y, z>>
  <2> TAKE x, y, z
  <2> DEFINE S == {x, y, z}
  <2>1. <<x, y>> \in Seq(S) /\ <<z>> \in Seq(S) /\ <<x, y, z>> \in Seq(S)
    OBVIOUS
  <2>2. Len(<<x, y>>) = 2 /\ Len(<<z>>) = 1 /\ Len(<<x, y, z>>) = 3
    OBVIOUS
  <2>3. /\ <<x, y>>[1] = x /\ <<x, y>>[2] = y /\ <<z>>[1] = z
        /\ <<x, y, z>>[1] = x /\ <<x, y, z>>[2] = y /\ <<x, y, z>>[3] = z
    OBVIOUS
  <2> HIDE DEF S
  <2> DEFINE q == <<x, y>> \o <<z>>  r == <<x, y, z>>
  <2>4. q \in Seq(S) /\ Len(q) = 3 /\ q[1] = x /\ q[2] = y /\ q[3] = z
    BY <2>1, <2>2, <2>3, ConcatProperties
  <2>5. r \in Seq(S) /\ Len(r) = 3 /\ r[1] = x /\ r[2] = y /\ r[3] = z
    BY <2>1, <2>2, <2>3
  <2> HIDE DEF q, r
  <2>6. q = r
    BY <2>4, <2>5, SeqEqual
  <2> QED
    BY <2>6 DEF q, r
<1>7. <<>> \o <<>> = <<>>
  OBVIOUS
<1> QED
  BY <1>1, <1>2, <1>3, <1>4, <1>5, <1>6, <1>7

\* parse_select_columns reads the star or a list of different columns.
LEMMA ColumnsRead ==
  ASSUME NEW s \in Seq(Chars), NEW F, Cuts(s, F), NEW p, Reaches(s, F, p, 2)
  PROVE  ColumnsAsRead(s, F, p, ParseSelectColumns(s, p))
<1> DEFINE star == ExpectSymbol(s, p, "*")
           a1 == ParseColumnName(s, p, <<>>)
           c1 == ExpectSymbol(s, a1.at, Comma)
           a2 == ParseColumnName(s, c1, a1.value)
           c2 == ExpectSymbol(s, a2.at, Comma)
           a3 == ParseColumnName(s, c2, a2.value)
           c3 == ExpectSymbol(s, a3.at, Comma)
           r == ParseSelectColumns(s, p)
           L == F[1]
<1>1. r = IF star # Fail THEN [at |-> star, value |-> <<>>]
          ELSE IF c1 = Fail THEN a1 ELSE IF c2 = Fail THEN a2
          ELSE IF c3 = Fail THEN a3 ELSE Nothing
  BY ColumnsAre
<1>2. Comma \in Symbols /\ "*" \in Symbols
  BY DEF Symbols, Comma
<1>3. Reaches(s, F, star, 3) /\ (star # Fail <=> p # Fail /\ Is(L, 2, Mark("*")))
  BY <1>2, SymbolRead
<1>4. ColumnAsRead(s, F, p, 2, <<>>, a1)
  BY ColumnRead
<1> HIDE DEF r, star, a1
<1>5. Reaches(s, F, a1.at, 3)
  BY <1>4 DEF ColumnAsRead
<1>6. Reaches(s, F, c1, 4) /\ (c1 # Fail <=> a1.at # Fail /\ Is(L, 3, Mark(Comma)))
  BY <1>2, <1>5, SymbolRead
<1> HIDE DEF c1
<1>7. ColumnAsRead(s, F, c1, 4, a1.value, a2)
  BY <1>6, ColumnRead
<1> HIDE DEF a2
<1>8. Reaches(s, F, a2.at, 5)
  BY <1>7 DEF ColumnAsRead
<1>9. Reaches(s, F, c2, 6) /\ (c2 # Fail <=> a2.at # Fail /\ Is(L, 5, Mark(Comma)))
  BY <1>2, <1>8, SymbolRead
<1> HIDE DEF c2
<1>10. ColumnAsRead(s, F, c2, 6, a2.value, a3)
  BY <1>9, ColumnRead
<1> HIDE DEF a3
<1>11. Reaches(s, F, a3.at, 7)
  BY <1>10 DEF ColumnAsRead
<1>12. c3 # Fail <=> a3.at # Fail /\ Is(L, 7, Mark(Comma))
  BY <1>2, <1>11, SymbolRead
<1> HIDE DEF c3, L
<1>13. "*" \notin Columns
  BY DEF Columns
<1>14. \A c, d, n : Is(L, n, Mark(c)) /\ Is(L, n, Mark(d)) => c = d
  <2> TAKE c, d, n
  <2>1. <<c>>[1] = c /\ <<d>>[1] = d
    OBVIOUS
  <2> QED
    BY <2>1 DEF Is, Mark, Lexeme
\* What the three calls give, if they give something.
<1>15. ASSUME a1.at # Fail
       PROVE  /\ p # Fail
              /\ \E x \in Columns : Is(L, 2, Mark(x)) /\ a1.value = <<x>>
  <2>1. p # Fail /\ \E c \in Columns \ Range(<<>>) : Is(L, 2, Mark(c)) /\ a1.value = <<>> \o <<c>>
    BY <1>4, <1>15 DEF ColumnAsRead, L
  <2> QED
    BY <2>1, ListsOfThree
<1>16. ASSUME a2.at # Fail
       PROVE  \E x, y \in Columns :
                /\ x # y /\ a1.at # Fail /\ a1.value = <<x>> /\ a2.value = <<x, y>>
                /\ Is(L, 2, Mark(x)) /\ Is(L, 3, Mark(Comma)) /\ Is(L, 4, Mark(y))
  <2>1. PICK y \in Columns \ Range(a1.value) :
          c1 # Fail /\ Is(L, 4, Mark(y)) /\ a2.value = a1.value \o <<y>>
    BY <1>7, <1>16 DEF ColumnAsRead, L
  <2>2. PICK x \in Columns : Is(L, 2, Mark(x)) /\ a1.value = <<x>>
    BY <1>6, <1>15, <2>1
  <2>3. x # y /\ a2.value = <<x, y>>
    BY <2>1, <2>2, ListsOfThree
  <2> QED
    BY <1>6, <2>1, <2>2, <2>3
<1>17. ASSUME a3.at # Fail
       PROVE  \E x, y, z \in Columns :
                /\ x # y /\ x # z /\ y # z /\ a2.at # Fail /\ a3.value = <<x, y, z>>
                /\ Is(L, 2, Mark(x)) /\ Is(L, 3, Mark(Comma)) /\ Is(L, 4, Mark(y))
                /\ Is(L, 5, Mark(Comma)) /\ Is(L, 6, Mark(z))
  <2>1. PICK z \in Columns \ Range(a2.value) :
          c2 # Fail /\ Is(L, 6, Mark(z)) /\ a3.value = a2.value \o <<z>>
    BY <1>10, <1>17 DEF ColumnAsRead, L
  <2>2. PICK x \in Columns, y \in Columns :
          /\ x # y /\ a2.value = <<x, y>>
          /\ Is(L, 2, Mark(x)) /\ Is(L, 3, Mark(Comma)) /\ Is(L, 4, Mark(y))
    BY <1>9, <1>16, <2>1
  <2>3. x # z /\ y # z /\ a3.value = <<x, y, z>>
    BY <2>1, <2>2, ListsOfThree
  <2> QED
    BY <1>9, <2>1, <2>2, <2>3
<1>18. ASSUME r.at # Fail
       PROVE  p # Fail /\ \E n : ListAt(L, r.value, n) /\ Stands(s, F, r.at, n)
  <2>1. CASE star # Fail
    BY <1>1, <1>3, <2>1 DEF ListAt, Reaches
  <2>2. CASE star = Fail /\ c1 = Fail
    BY <1>1, <1>5, <1>15, <1>18, <2>2 DEF ListAt, Reaches
  <2>3. CASE star = Fail /\ c1 # Fail /\ c2 = Fail
    <3>1. r = a2 /\ a2.at # Fail /\ Stands(s, F, a2.at, 5) /\ p # Fail
      BY <1>1, <1>6, <1>8, <1>15, <1>18, <2>3 DEF Reaches
    <3>2. ListAt(L, a2.value, 5)
      BY <1>16, <3>1 DEF ListAt
    <3> QED
      BY <3>1, <3>2
  <2>4. CASE star = Fail /\ c1 # Fail /\ c2 # Fail
    <3>1. r = a3 /\ a3.at # Fail /\ Stands(s, F, a3.at, 7) /\ p # Fail
      BY <1>1, <1>6, <1>11, <1>15, <1>18, <2>4 DEF Reaches, Nothing
    <3>2. ListAt(L, a3.value, 7)
      BY <1>17, <3>1 DEF ListAt
    <3> QED
      BY <3>1, <3>2
  <2> QED
    BY <2>1, <2>2, <2>3, <2>4
<1>19. ASSUME NEW l, NEW n, p # Fail, ListAt(L, l, n), ~Is(L, n, Mark(Comma))
       PROVE  r.at # Fail /\ r.value = l /\ Stands(s, F, r.at, n)
  <2>1. ASSUME NEW x \in Columns, Is(L, 2, Mark(x))
        PROVE  star = Fail /\ a1.at # Fail /\ a1.value = <<x>>
    <3>1. star = Fail
      BY <1>3, <1>13, <1>14, <2>1
    <3>2. x \in Columns \ Range(<<>>)
      BY <2>1, ListsOfThree
    <3>3. a1.at # Fail /\ a1.value = <<>> \o <<x>>
      BY <1>4, <1>19, <2>1, <3>2 DEF ColumnAsRead, L
    <3> QED
      BY <3>1, <3>3, ListsOfThree
  <2>2. ASSUME NEW x \in Columns, NEW y \in Columns, x # y,
               Is(L, 2, Mark(x)), Is(L, 3, Mark(Comma)), Is(L, 4, Mark(y))
        PROVE  star = Fail /\ c1 # Fail /\ a2.at # Fail /\ a2.value = <<x, y>>
    <3>1. star = Fail /\ a1.at # Fail /\ a1.value = <<x>>
      BY <2>1, <2>2
    <3>2. c1 # Fail
      BY <1>6, <2>2, <3>1
    <3>3. y \in Columns \ Range(a1.value)
      BY <2>2, <3>1, ListsOfThree
    <3>4. a2.at # Fail /\ a2.value = a1.value \o <<y>>
      BY <1>7, <2>2, <3>2, <3>3 DEF ColumnAsRead, L
    <3> QED
      BY <3>1, <3>2, <3>4, ListsOfThree
  <2>3. CASE l = <<>> /\ n = 3 /\ Is(L, 2, Mark("*"))
    BY <1>1, <1>3, <1>19, <2>3 DEF Reaches
  <2>4. CASE \E x \in Columns : l = <<x>> /\ n = 3 /\ Is(L, 2, Mark(x))
    <3>1. PICK x \in Columns : l = <<x>> /\ n = 3 /\ Is(L, 2, Mark(x))
      BY <2>4
    <3>2. star = Fail /\ a1.at # Fail /\ a1.value = l /\ c1 = Fail
      BY <1>6, <1>19, <2>1, <3>1
    <3> QED
      BY <1>1, <1>5, <3>1, <3>2 DEF Reaches
  <2>5. CASE \E x, y \in Columns :
               /\ x # y /\ l = <<x, y>> /\ n = 5
               /\ Is(L, 2, Mark(x)) /\ Is(L, 3, Mark(Comma)) /\ Is(L, 4, Mark(y))
    <3>1. n = 5 /\ star = Fail /\ c1 # Fail /\ a2.at # Fail /\ a2.value = l
      BY <2>2, <2>5
    <3>2. c2 = Fail
      BY <1>9, <1>19, <3>1
    <3> QED
      BY <1>1, <1>8, <3>1, <3>2 DEF Reaches
  <2>6. CASE \E x, y, z \in Columns :
               /\ x # y /\ x # z /\ y # z /\ l = <<x, y, z>> /\ n = 7
               /\ Is(L, 2, Mark(x)) /\ Is(L, 3, Mark(Comma)) /\ Is(L, 4, Mark(y))
               /\ Is(L, 5, Mark(Comma)) /\ Is(L, 6, Mark(z))
    <3>1. PICK x \in Columns, y \in Columns, z \in Columns :
               /\ x # y /\ x # z /\ y # z /\ l = <<x, y, z>> /\ n = 7
               /\ Is(L, 2, Mark(x)) /\ Is(L, 3, Mark(Comma)) /\ Is(L, 4, Mark(y))
               /\ Is(L, 5, Mark(Comma)) /\ Is(L, 6, Mark(z))
      BY <2>6
    <3>2. star = Fail /\ c1 # Fail /\ a2.at # Fail /\ a2.value = <<x, y>>
      BY <2>2, <3>1
    <3>3. c2 # Fail
      BY <1>9, <3>1, <3>2
    <3>4. z \in Columns \ Range(a2.value)
      BY <3>1, <3>2, ListsOfThree
    <3>5. a3.at # Fail /\ a3.value = a2.value \o <<z>>
      BY <1>10, <3>1, <3>3, <3>4 DEF ColumnAsRead, L
    <3>6. a3.value = l /\ c3 = Fail
      BY <1>12, <1>19, <3>1, <3>2, <3>5, ListsOfThree
    <3> QED
      BY <1>1, <1>11, <3>1, <3>2, <3>3, <3>5, <3>6 DEF Reaches
  <2> QED
    BY <1>19, <2>3, <2>4, <2>5, <2>6 DEF ListAt
<1> QED
  BY <1>18, <1>19 DEF ColumnsAsRead, L, r

SelectUpTo(L, l, n) ==
  /\ Is(L, 1, Mark("select")) /\ ListAt(L, l, n)
  /\ Is(L, n, Mark("from")) /\ Is(L, n + 1, Mark("users"))

SelectAll(L, l) == \E n : SelectUpTo(L, l, n) /\ Ends(L, n + 2)

SelectWhere(L, l, column, x) ==
  \E n : /\ SelectUpTo(L, l, n) /\ Is(L, n + 2, Mark("where")) /\ Is(L, n + 3, Mark(column))
         /\ Is(L, n + 4, Mark("=")) /\ Is(L, n + 5, x) /\ Ends(L, n + 6)

SelectById(L, l, i) == SelectWhere(L, l, "id", Num(i)) /\ i \in 0..MaxInt
SelectByName(L, l, x) == SelectWhere(L, l, "name", Str(x)) /\ Len(x) < NameMax

\* The statement v is what the lexemes say.
Sense(L, v) ==
  \/ \E i, x, a : InsertWithId(L, i, x, a) /\ v = InsertStatement(TRUE, i, x, a)
  \/ \E x, a : InsertWithout(L, x, a) /\ v = InsertStatement(FALSE, 0, x, a)
  \/ \E l : SelectAll(L, l) /\ v = SelectStatement(l, "none", 0, <<>>)
  \/ \E l, i : SelectById(L, l, i) /\ v = SelectStatement(l, "id", i, <<>>)
  \/ \E l, x : SelectByName(L, l, x) /\ v = SelectStatement(l, "name", 0, x)

\* A lexeme is one mark only.
LEMMA MarksDiffer == \A L, c, d, n : Is(L, n, Mark(c)) /\ Is(L, n, Mark(d)) => c = d
<1> TAKE L, c, d, n
<1>1. <<c>>[1] = c /\ <<d>>[1] = d
  OBVIOUS
<1> QED
  BY <1>1 DEF Is, Mark, Lexeme

\* The word behind the columns is not taken for another comma.
LEMMA FromIsNoComma == "from" # Comma
  BY Zenon DEF Comma

\* A condition is not taken for the end of the statement.
LEMMA WhereIsNoEnd ==
  ASSUME NEW L, NEW n, Is(L, n, Mark("where"))  PROVE  ~Ends(L, n)
<1> SUFFICES ASSUME Ends(L, n) PROVE FALSE
  OBVIOUS
<1>1. Is(L, n, Mark(";")) \/ n = Len(L) + 1
  BY DEF Ends
<1>2. n \in 1..Len(L)
  BY DEF Is
<1>3. n # Len(L) + 1
  BY <1>2
<1>4. "where" = ";"
  BY <1>1, <1>3, MarksDiffer
<1> QED
  BY <1>4, Zenon

\* parse_select reads the three forms of a select, and refuses all else.
LEMMA SelectRead ==
  ASSUME NEW s \in Seq(Chars), NEW F, Cuts(s, F), NEW p, Stands(s, F, p, 1)
  PROVE  LET v == ParseSelect(s, p)
             L == F[1]
         IN  /\ v # Refused => Sense(L, v)
             /\ \A l : SelectAll(L, l) => v = SelectStatement(l, "none", 0, <<>>)
             /\ \A l, i : SelectById(L, l, i) => v = SelectStatement(l, "id", i, <<>>)
             /\ \A l, x : SelectByName(L, l, x) => v = SelectStatement(l, "name", 0, x)
<1> DEFINE v == ParseSelect(s, p)
           L == F[1]
           select == ExpectKeyword(s, p, "select")
           columns == ParseSelectColumns(s, select)
           from == ExpectKeyword(s, columns.at, "from")
           table == ExpectKeyword(s, from, "users")
           kw == ExpectKeyword(s, table, "where")
           where == ReadWord(s, kw)
           equals == ExpectSymbol(s, where.at, "=")
           id == ParseIntValue(s, equals)
           name == ParseStringLiteral(s, equals)
           l == columns.value
<1>1. v = IF AtStatementEnd(s, table) THEN SelectStatement(l, "none", 0, <<>>)
          ELSE IF where.value = <<"id">> /\ AtStatementEnd(s, id.at)
               THEN SelectStatement(l, "id", id.value, <<>>)
          ELSE IF where.value = <<"name">> /\ AtStatementEnd(s, name.at)
               THEN SelectStatement(l, "name", 0, name.value)
          ELSE Refused
  BY DEF ParseSelect
<1>2. {"select", "from", "users", "where"} \subseteq Keywords /\ "=" \in Symbols
  BY DEF Keywords, Symbols
<1>3. p # Fail /\ Reaches(s, F, p, 1)
  BY DEF Stands, Reaches, Fail
<1>4. Reaches(s, F, select, 2) /\ (select # Fail <=> Is(L, 1, Mark("select")))
  BY <1>2, <1>3, KeywordRead
<1> HIDE DEF v, select
<1>5. ColumnsAsRead(s, F, select, columns)
  BY <1>4, ColumnsRead
<1> HIDE DEF columns
<1>6. \A n : Reaches(s, F, columns.at, n) =>
        Reaches(s, F, from, n + 1) /\ (from # Fail <=> columns.at # Fail /\ Is(L, n, Mark("from")))
  BY <1>2, KeywordRead
<1> HIDE DEF from
<1>7. \A n : Reaches(s, F, from, n) =>
        Reaches(s, F, table, n + 1) /\ (table # Fail <=> from # Fail /\ Is(L, n, Mark("users")))
  BY <1>2, KeywordRead
<1> HIDE DEF table
<1>8. \A n : Reaches(s, F, table, n) =>
        Reaches(s, F, kw, n + 1) /\ (kw # Fail <=> table # Fail /\ Is(L, n, Mark("where")))
  BY <1>2, KeywordRead
<1> HIDE DEF kw
<1>9. \A n : Reaches(s, F, kw, n) =>
        /\ Reaches(s, F, where.at, n + 1)
        /\ where.at # Fail => kw # Fail /\ Is(L, n, Lexeme("mark", 0, where.value))
        /\ \A x : kw # Fail /\ Is(L, n, Lexeme("mark", 0, x)) /\ x[1] \in Letters =>
             where.at # Fail /\ where.value = x
  BY WordRead
<1> HIDE DEF where
<1>10. \A n : Reaches(s, F, where.at, n) =>
         /\ Reaches(s, F, equals, n + 1)
         /\ equals # Fail <=> where.at # Fail /\ Is(L, n, Mark("="))
  BY <1>2, SymbolRead
<1> HIDE DEF equals
<1>11. \A n : Reaches(s, F, equals, n) =>
         /\ Reaches(s, F, id.at, n + 1)
         /\ id.at # Fail => equals # Fail /\ Is(L, n, Num(id.value)) /\ id.value \in 0..MaxInt
         /\ \A x \in 0..MaxInt : equals # Fail /\ Is(L, n, Num(x)) => id.at # Fail /\ id.value = x
  BY NumberRead
<1>12. \A n : Reaches(s, F, equals, n) =>
         /\ Reaches(s, F, name.at, n + 1)
         /\ name.at # Fail =>
              equals # Fail /\ Is(L, n, Str(name.value)) /\ Len(name.value) < NameMax
         /\ \A x : equals # Fail /\ Is(L, n, Str(x)) /\ Len(x) < NameMax =>
              name.at # Fail /\ name.value = x
  BY StringRead
<1> HIDE DEF id, name
<1>13. \A q, n : Reaches(s, F, q, n) => (AtStatementEnd(s, q) <=> q # Fail /\ Ends(L, n))
  BY EndRead
<1>14. Reaches(s, F, Fail, 1)
  BY DEF Reaches
<1> DEFINE Upto(n) == SelectUpTo(L, l, n) /\ Stands(s, F, columns.at, n) /\ n \in Nat
\* Everything up to the table has been read.
<1>15. ASSUME table # Fail PROVE \E n : Upto(n)
  <2>1. columns.at # Fail /\ from # Fail
    <3>1. CASE columns.at = Fail
      <4>1. Reaches(s, F, columns.at, 1)
        BY <1>14, <3>1
      <4>2. from = Fail /\ Reaches(s, F, from, 1)
        BY <1>6, <1>14, <3>1, <4>1
      <4> QED
        BY <1>7, <1>15, <4>2
    <3>2. CASE from = Fail
      <4>1. Reaches(s, F, from, 1)
        BY <1>14, <3>2
      <4> QED
        BY <1>7, <1>15, <3>2, <4>1
    <3> QED
      BY <3>1, <3>2
  <2>2. PICK n : select # Fail /\ ListAt(L, l, n) /\ Stands(s, F, columns.at, n)
    BY <1>5, <2>1 DEF ColumnsAsRead
  <2>3. Reaches(s, F, columns.at, n)
    BY <2>2 DEF Reaches
  <2>4. Is(L, n, Mark("from")) /\ Reaches(s, F, from, n + 1)
    BY <1>6, <2>1, <2>3
  <2>5. Is(L, n + 1, Mark("users"))
    BY <1>7, <1>15, <2>4
  <2>6. n \in Nat
    BY <2>2 DEF ListAt
  <2> QED
    BY <1>4, <2>2, <2>4, <2>5, <2>6 DEF SelectUpTo
<1>16. ASSUME NEW n, Upto(n)
       PROVE  /\ Reaches(s, F, table, n + 2) /\ Reaches(s, F, kw, n + 3)
              /\ Reaches(s, F, where.at, n + 4) /\ Reaches(s, F, equals, n + 5)
              /\ Reaches(s, F, id.at, n + 6) /\ Reaches(s, F, name.at, n + 6)
              /\ table # Fail
  <2>1. Reaches(s, F, columns.at, n) /\ columns.at # Fail /\ n \in Nat
    BY <1>16 DEF Reaches, Stands, Fail
  <2>2. Reaches(s, F, from, n + 1) /\ from # Fail
    BY <1>6, <1>16, <2>1 DEF SelectUpTo
  <2>3. Reaches(s, F, table, n + 1 + 1) /\ table # Fail
    BY <1>7, <1>16, <2>2 DEF SelectUpTo
  <2>4. Reaches(s, F, kw, n + 1 + 1 + 1)
    BY <1>8, <2>3
  <2>5. Reaches(s, F, where.at, n + 1 + 1 + 1 + 1)
    BY <1>9, <2>4
  <2>6. Reaches(s, F, equals, n + 1 + 1 + 1 + 1 + 1)
    BY <1>10, <2>5
  <2>7. /\ Reaches(s, F, id.at, n + 1 + 1 + 1 + 1 + 1 + 1)
        /\ Reaches(s, F, name.at, n + 1 + 1 + 1 + 1 + 1 + 1)
    BY <1>11, <1>12, <2>6
  <2>8. /\ n + 1 + 1 = n + 2 /\ n + 1 + 1 + 1 = n + 3 /\ n + 1 + 1 + 1 + 1 = n + 4
        /\ n + 1 + 1 + 1 + 1 + 1 = n + 5 /\ n + 1 + 1 + 1 + 1 + 1 + 1 = n + 6
    BY <2>1
  <2> QED
    BY <2>3, <2>4, <2>5, <2>6, <2>7, <2>8
\* A list in front of the table is the one that has been read.
<1>17. ASSUME NEW m, NEW n, SelectUpTo(L, m, n) PROVE Upto(n) /\ l = m
  <2>1. ~Is(L, n, Mark(Comma))
    BY <1>17, FromIsNoComma, MarksDiffer DEF SelectUpTo
  <2>2. columns.at # Fail /\ l = m /\ Stands(s, F, columns.at, n)
    BY <1>4, <1>5, <1>17, <2>1 DEF SelectUpTo, ColumnsAsRead, L
  <2>3. n \in Nat
    BY <1>17 DEF SelectUpTo, ListAt
  <2> QED
    BY <1>17, <2>2, <2>3
<1>18. ASSUME NEW n, Upto(n), where.at # Fail, equals # Fail, NEW c, where.value = <<c>>
       PROVE  /\ SelectUpTo(L, l, n) /\ Is(L, n + 2, Mark("where"))
              /\ Is(L, n + 3, Mark(c)) /\ Is(L, n + 4, Mark("="))
  <2>1. Is(L, n + 4, Mark("="))
    BY <1>10, <1>16, <1>18
  <2>2. Is(L, n + 3, Lexeme("mark", 0, <<c>>)) /\ kw # Fail
    BY <1>9, <1>16, <1>18
  <2>3. Is(L, n + 2, Mark("where"))
    BY <1>8, <1>16, <1>18, <2>2
  <2> QED
    BY <1>18, <2>1, <2>2, <2>3 DEF Mark
<1> HIDE DEF Upto, l
\* The parser has read no more than there is.
<1>19. ASSUME equals # Fail PROVE table # Fail /\ where.at # Fail
  <2>1. CASE where.at = Fail
    BY <1>10, <1>14, <1>19, <2>1
  <2>2. CASE table = Fail
    <3>1. kw = Fail
      BY <1>8, <1>14, <2>2
    <3>2. where.at = Fail
      BY <1>9, <1>14, <3>1
    <3> QED
      BY <2>1, <3>2
  <2> QED
    BY <2>1, <2>2
<1>20. ASSUME v # Refused PROVE Sense(L, v)
  <2>1. CASE AtStatementEnd(s, table)
    <3>1. table # Fail
      BY <2>1 DEF AtStatementEnd
    <3>2. PICK n : Upto(n)
      BY <1>15, <3>1
    <3>3. SelectUpTo(L, l, n) /\ Ends(L, n + 2)
      BY <1>13, <1>16, <2>1, <3>2 DEF Upto
    <3> QED
      BY <1>1, <2>1, <3>3 DEF Sense, SelectAll
  <2>2. CASE ~AtStatementEnd(s, table) /\ where.value = <<"id">> /\ AtStatementEnd(s, id.at)
    <3>1. id.at # Fail
      BY <2>2 DEF AtStatementEnd
    <3>2. equals # Fail
      <4>1. CASE equals = Fail
        BY <1>11, <1>14, <3>1, <4>1
      <4> QED
        BY <4>1
    <3>3. PICK n : Upto(n)
      BY <1>15, <1>19, <3>2
    <3>4. Is(L, n + 5, Num(id.value)) /\ id.value \in 0..MaxInt /\ Ends(L, n + 6)
      BY <1>11, <1>13, <1>16, <2>2, <3>1, <3>3
    <3>5. /\ SelectUpTo(L, l, n) /\ Is(L, n + 2, Mark("where"))
          /\ Is(L, n + 3, Mark("id")) /\ Is(L, n + 4, Mark("="))
      BY <1>18, <1>19, <2>2, <3>2, <3>3
    <3>6. SelectById(L, l, id.value)
      BY <3>4, <3>5 DEF SelectById, SelectWhere
    <3> QED
      BY <1>1, <2>2, <3>6 DEF Sense
  <2>3. CASE /\ ~AtStatementEnd(s, table) /\ ~(where.value = <<"id">> /\ AtStatementEnd(s, id.at))
             /\ where.value = <<"name">> /\ AtStatementEnd(s, name.at)
    <3>1. name.at # Fail
      BY <2>3 DEF AtStatementEnd
    <3>2. equals # Fail
      <4>1. CASE equals = Fail
        BY <1>12, <1>14, <3>1, <4>1
      <4> QED
        BY <4>1
    <3>3. PICK n : Upto(n)
      BY <1>15, <1>19, <3>2
    <3>4. Is(L, n + 5, Str(name.value)) /\ Len(name.value) < NameMax /\ Ends(L, n + 6)
      BY <1>12, <1>13, <1>16, <2>3, <3>1, <3>3
    <3>5. /\ SelectUpTo(L, l, n) /\ Is(L, n + 2, Mark("where"))
          /\ Is(L, n + 3, Mark("name")) /\ Is(L, n + 4, Mark("="))
      BY <1>18, <1>19, <2>3, <3>2, <3>3
    <3>6. SelectByName(L, l, name.value)
      BY <3>4, <3>5 DEF SelectByName, SelectWhere
    <3> QED
      BY <1>1, <2>3, <3>6 DEF Sense
  <2> QED
    BY <1>1, <1>20, <2>1, <2>2, <2>3
<1>21. ASSUME NEW m, SelectAll(L, m) PROVE v = SelectStatement(m, "none", 0, <<>>)
  <2>1. PICK n : SelectUpTo(L, m, n) /\ Ends(L, n + 2)
    BY <1>21 DEF SelectAll
  <2>2. Upto(n) /\ l = m
    BY <1>17, <2>1
  <2>3. AtStatementEnd(s, table)
    BY <1>13, <1>16, <2>1, <2>2
  <2> QED
    BY <1>1, <2>2, <2>3
<1>22. ASSUME NEW m, NEW c, NEW x, SelectWhere(L, m, c, x), c \in {"id", "name"}
       PROVE  /\ ~AtStatementEnd(s, table) /\ where.value = <<c>> /\ l = m
              /\ \E n : Upto(n) /\ equals # Fail /\ Is(L, n + 5, x) /\ Ends(L, n + 6)
  <2>1. PICK n : /\ SelectUpTo(L, m, n) /\ Is(L, n + 2, Mark("where")) /\ Is(L, n + 3, Mark(c))
                 /\ Is(L, n + 4, Mark("=")) /\ Is(L, n + 5, x) /\ Ends(L, n + 6)
    BY <1>22 DEF SelectWhere
  <2>2. Upto(n) /\ l = m
    BY <1>17, <2>1
  <2>3. ~AtStatementEnd(s, table)
    BY <1>13, <1>16, <2>1, <2>2, WhereIsNoEnd
  <2>4. kw # Fail
    BY <1>8, <1>16, <2>1, <2>2
  <2>5. <<c>>[1] \in Letters
    BY <1>22 DEF Letters, Keywords
  <2>6. Is(L, n + 3, Lexeme("mark", 0, <<c>>))
    BY <2>1 DEF Mark
  <2>7. where.at # Fail /\ where.value = <<c>>
    BY <1>9, <1>16, <2>2, <2>4, <2>5, <2>6
  <2>8. equals # Fail
    BY <1>10, <1>16, <2>1, <2>2, <2>7
  <2> QED
    BY <2>1, <2>2, <2>3, <2>7, <2>8
<1>23. ASSUME NEW m, NEW i, SelectById(L, m, i) PROVE v = SelectStatement(m, "id", i, <<>>)
  <2>1. /\ ~AtStatementEnd(s, table) /\ where.value = <<"id">> /\ l = m
        /\ \E n : Upto(n) /\ equals # Fail /\ Is(L, n + 5, Num(i)) /\ Ends(L, n + 6)
    BY <1>22, <1>23 DEF SelectById
  <2>2. PICK n : Upto(n) /\ equals # Fail /\ Is(L, n + 5, Num(i)) /\ Ends(L, n + 6)
    BY <2>1
  <2>3. id.at # Fail /\ id.value = i
    BY <1>11, <1>16, <1>23, <2>2 DEF SelectById
  <2>4. AtStatementEnd(s, id.at)
    BY <1>13, <1>16, <2>2, <2>3
  <2> QED
    BY <1>1, <2>1, <2>3, <2>4
<1>24. ASSUME NEW m, NEW x, SelectByName(L, m, x) PROVE v = SelectStatement(m, "name", 0, x)
  <2>1. /\ ~AtStatementEnd(s, table) /\ where.value = <<"name">> /\ l = m
        /\ \E n : Upto(n) /\ equals # Fail /\ Is(L, n + 5, Str(x)) /\ Ends(L, n + 6)
    BY <1>22, <1>24 DEF SelectByName
  <2>2. PICK n : Upto(n) /\ equals # Fail /\ Is(L, n + 5, Str(x)) /\ Ends(L, n + 6)
    BY <2>1
  <2>3. name.at # Fail /\ name.value = x
    BY <1>12, <1>16, <1>24, <2>2 DEF SelectByName
  <2>4. AtStatementEnd(s, name.at)
    BY <1>13, <1>16, <2>2, <2>3
  <2>5. <<"id">> # <<"name">>
    <3>1. <<"id">>[1] # <<"name">>[1]
      OBVIOUS
    <3> QED
      BY <3>1
  <2> QED
    BY <1>1, <2>1, <2>3, <2>4, <2>5
<1> QED
  BY <1>20, <1>21, <1>23, <1>24 DEF v, L

\* sql_parse gives the statement whose sense the lexemes have, if there is one.
LEMMA SqlRead ==
  ASSUME NEW s \in Seq(Chars), NEW F, Cuts(s, F)
  PROVE  LET v == SqlParse(s)
         IN  /\ v # Refused => Sense(F[1], v)
             /\ \A w : Sense(F[1], w) => v = w
<1> DEFINE v == SqlParse(s)
           k == Skip(s, 1, Blanks)
           L == F[1]
<1>1. v = CASE At(s, k) = "insert" -> ParseInsert(s, k)
            [] At(s, k) = "select" -> ParseSelect(s, k)
            [] OTHER -> Refused
  BY DEF SqlParse
<1>2. Stands(s, F, 1, 1)
  BY FirstPlace
<1> HIDE DEF v
<1>3. /\ k \in 1..Len(s) + 1
      /\ k = Len(s) + 1 => 1 = Len(L) + 1
      /\ k # Len(s) + 1 =>
           /\ k \in 1..Len(s) /\ s[k] \notin Blanks
           /\ 1 \in 1..Len(L) /\ L[1] = LexemeAt(s, k)
           /\ Stands(s, F, EndOfLexeme(s, k) + 1, 1 + 1)
  BY <1>2, NextLexeme, Zenon
<1>4. Stands(s, F, k, 1)
  <2>1. 1 \in 1..Len(s) + 1
    BY LenProperties
  <2>2. F[1] = F[k]
    BY <2>1, BlanksAreSkipped
  <2> QED
    BY <1>2, <1>3, <2>2 DEF Stands
<1> DEFINE i == ParseInsert(s, k)  q == ParseSelect(s, k)
<1>5. InsertAsRead(L, i)
  BY <1>4, InsertRead
<1>6. /\ q # Refused => Sense(L, q)
      /\ \A l : SelectAll(L, l) => q = SelectStatement(l, "none", 0, <<>>)
      /\ \A l, x : SelectById(L, l, x) => q = SelectStatement(l, "id", x, <<>>)
      /\ \A l, x : SelectByName(L, l, x) => q = SelectStatement(l, "name", 0, x)
  BY <1>4, SelectRead
<1> HIDE DEF i, q
<1>7. i # Refused => Sense(L, i)
  BY <1>5 DEF Sense, InsertAsRead
<1>8. ASSUME v # Refused PROVE Sense(L, v)
  BY <1>1, <1>6, <1>7, <1>8 DEF i, q
<1> HIDE DEF k, L
<1>9. ASSUME NEW c, Is(L, 1, Mark(c)) PROVE At(s, k) = c
  <2>1. k # Len(s) + 1
    <3> SUFFICES ASSUME k = Len(s) + 1 PROVE FALSE
      OBVIOUS
    <3>1. 1 = Len(L) + 1 /\ 1 \in 1..Len(L)
      BY <1>3, <1>9 DEF Is
    <3> QED
      BY <3>1
  <2>2. k \in 1..Len(s) /\ LexemeAt(s, k) = Mark(c)
    BY <1>3, <1>9, <2>1 DEF Is
  <2>3. s[k] = c
    BY <2>2, MarkBegins DEF Mark, Lexeme
  <2> QED
    BY <2>2, <2>3 DEF At
<1>10. Is(L, 1, Mark("insert")) => v = i
  BY <1>1, <1>9 DEF i
<1>11. Is(L, 1, Mark("select")) => v = q
  <2> SUFFICES ASSUME Is(L, 1, Mark("select")) PROVE v = q
    OBVIOUS
  <2>1. At(s, k) = "select" /\ At(s, k) # "insert"
    BY <1>9
  <2> QED
    BY <1>1, <2>1 DEF q
<1>12. ASSUME NEW w, Sense(L, w) PROVE v = w
  <2>1. CASE \E d, x, a : InsertWithId(L, d, x, a) /\ w = InsertStatement(TRUE, d, x, a)
    <3>1. PICK d, x, a : InsertWithId(L, d, x, a) /\ w = InsertStatement(TRUE, d, x, a)
      BY <2>1
    <3>2. i = w
      BY <1>5, <3>1 DEF InsertAsRead
    <3> QED
      BY <1>10, <3>1, <3>2 DEF InsertWithId, IntoUsers
  <2>2. CASE \E x, a : InsertWithout(L, x, a) /\ w = InsertStatement(FALSE, 0, x, a)
    <3>1. PICK x, a : InsertWithout(L, x, a) /\ w = InsertStatement(FALSE, 0, x, a)
      BY <2>2
    <3>2. i = w
      BY <1>5, <3>1 DEF InsertAsRead
    <3> QED
      BY <1>10, <3>1, <3>2 DEF InsertWithout, IntoUsers
  <2>3. CASE \E l : SelectAll(L, l) /\ w = SelectStatement(l, "none", 0, <<>>)
    BY <1>6, <1>11, <2>3 DEF SelectAll, SelectUpTo
  <2>4. CASE \E l, x : SelectById(L, l, x) /\ w = SelectStatement(l, "id", x, <<>>)
    BY <1>6, <1>11, <2>4 DEF SelectById, SelectWhere, SelectUpTo
  <2>5. CASE \E l, x : SelectByName(L, l, x) /\ w = SelectStatement(l, "name", 0, x)
    BY <1>6, <1>11, <2>5 DEF SelectByName, SelectWhere, SelectUpTo
  <2> QED
    BY <1>12, <2>1, <2>2, <2>3, <2>4, <2>5 DEF Sense
<1> QED
  BY <1>8, <1>12 DEF v, L

-----------------------------------------------------------------------------
(* The sentences of the language, lexeme by lexeme.                        *)

\* Behind k lexemes of L come those of x.
Has(L, k, x) == \A i \in 1..Len(x) : Is(L, k + i, x[i])

\* A list of lexemes in two parts.
LEMMA HasBoth ==
  ASSUME NEW L, NEW k \in Nat, NEW S, NEW x \in Seq(S), NEW y \in Seq(S)
  PROVE  Has(L, k, x \o y) <=> Has(L, k, x) /\ Has(L, k + Len(x), y)
<1> DEFINE m == Len(x)  n == Len(y)  z == x \o y
<1>1. m \in Nat /\ n \in Nat
  BY LenProperties
<1>2. /\ Len(z) = m + n
      /\ \A i \in 1..m + n : z[i] = IF i <= m THEN x[i] ELSE y[i - m]
  BY ConcatProperties
<1> HIDE DEF m, n, z
<1>3. \A i \in 1..m : i \in 1..m + n /\ z[i] = x[i]
  BY <1>1, <1>2
<1>4. \A i \in 1..n : m + i \in 1..m + n /\ z[m + i] = y[i] /\ k + (m + i) = k + m + i
  <2> TAKE i \in 1..n
  <2> DEFINE j == m + i
  <2>1. j \in 1..m + n /\ ~(j <= m) /\ j - m = i /\ k + j = k + m + i
    BY <1>1
  <2> HIDE DEF j
  <2>2. z[j] = y[i]
    BY <1>2, <2>1
  <2> QED
    BY <2>1, <2>2 DEF j
<1>5. ASSUME Has(L, k, z) PROVE Has(L, k, x) /\ Has(L, k + m, y)
  <2>1. \A i \in 1..m : Is(L, k + i, x[i])
    BY <1>2, <1>3, <1>5 DEF Has
  <2>2. \A i \in 1..n : Is(L, k + m + i, y[i])
    BY <1>2, <1>4, <1>5 DEF Has
  <2> QED
    BY <2>1, <2>2 DEF Has, m, n
<1>6. ASSUME Has(L, k, x), Has(L, k + m, y) PROVE Has(L, k, z)
  <2> SUFFICES ASSUME NEW i \in 1..m + n PROVE Is(L, k + i, z[i])
    BY <1>2 DEF Has
  <2>1. CASE i <= m
    <3>1. i \in 1..m
      BY <1>1, <2>1
    <3> QED
      BY <1>3, <1>6, <3>1 DEF Has, m
  <2>2. CASE ~(i <= m)
    <3>1. i - m \in 1..n /\ m + (i - m) = i
      BY <1>1, <2>2
    <3>2. Is(L, k + m + (i - m), y[i - m])
      BY <1>6, <3>1 DEF Has, n
    <3> QED
      BY <1>4, <3>1, <3>2
  <2> QED
    BY <2>1, <2>2
<1> QED
  BY <1>5, <1>6 DEF m, z

\* A sentence, lexeme by lexeme, and the end.
LEMMA SaysIs ==
  ASSUME NEW S, NEW L \in Seq(S), NEW T, NEW x \in Seq(T)
  PROVE  Says(L, x) <=> Has(L, 0, x) /\ Ends(L, Len(x) + 1)
<1> DEFINE semi == Mark(";")
<1> HIDE DEF semi
<1> DEFINE m == Len(x)  K == Len(L)
           U == S \cup T \cup {semi}
           z == x \o <<semi>>
<1>1. m \in Nat /\ K \in Nat
  BY LenProperties
<1>2. L \in Seq(U) /\ x \in Seq(U) /\ <<semi>> \in Seq(U)
  OBVIOUS
<1>3. Len(<<semi>>) = 1 /\ <<semi>>[1] = semi
  OBVIOUS
<1> HIDE DEF U
<1>4. z \in Seq(U) /\ Len(z) = m + 1
  BY <1>2, <1>3, ConcatProperties
<1>5. \A y \in Seq(U) : L = y <=> K = Len(y) /\ Has(L, 0, y)
  <2> TAKE y \in Seq(U)
  <2>1. ASSUME L = y PROVE K = Len(y) /\ Has(L, 0, y)
    BY <1>1, <2>1 DEF Has, Is
  <2>2. ASSUME K = Len(y), Has(L, 0, y) PROVE L = y
    <3>1. \A i \in 1..K : L[i] = y[i]
      BY <1>1, <2>2 DEF Has, Is
    <3> QED
      BY <1>2, <2>2, <3>1, SeqEqual
  <2> QED
    BY <2>1, <2>2
<1>6. Has(L, 0, z) <=> Has(L, 0, x) /\ Is(L, m + 1, semi)
  <2>1. Has(L, 0, z) <=> Has(L, 0, x) /\ Has(L, 0 + m, <<semi>>)
    BY <1>2, HasBoth
  <2>2. 0 + m = m /\ 1..1 = {1}
    BY <1>1
  <2>3. Has(L, m, <<semi>>) <=> Is(L, m + 1, semi)
    BY <1>3, <2>2 DEF Has
  <2> QED
    BY <2>1, <2>2, <2>3
<1>7. Says(L, x) <=> L = x \/ L = z
  BY DEF Says, semi
<1>8. Says(L, x) <=> (K = m /\ Has(L, 0, x)) \/ (K = m + 1 /\ Has(L, 0, x) /\ Is(L, m + 1, semi))
  BY <1>2, <1>4, <1>5, <1>6, <1>7
<1>9. Ends(L, m + 1) <=> m + 1 = K + 1 \/ (m + 1 = K /\ Is(L, m + 1, semi))
  BY Zenon DEF Ends, semi
<1> QED
  BY <1>1, <1>8, <1>9

\* A list of one lexeme.
LEMMA OneHas ==
  ASSUME NEW L, NEW k \in Nat, NEW e1
  PROVE  LET x == <<e1>>
         IN  /\ x \in Seq({e1}) /\ Len(x) = 1
             /\ Has(L, k, x) <=>
                  /\ Is(L, k + 1, e1)
<1> DEFINE x == <<e1>>
<1>1. x \in Seq({e1}) /\ Len(x) = 1
  OBVIOUS
<1>2. x[1] = e1
  OBVIOUS
<1>3. \A i : i \in 1..1 <=> i \in {1}
  OBVIOUS
<1> HIDE DEF x
<1>4. Has(L, k, x) <=> \A i \in {1} : Is(L, k + i, x[i])
  BY <1>1, <1>3 DEF Has
<1>5. Has(L, k, x) <=>
        /\ Is(L, k + 1, e1)
  BY <1>2, <1>4
<1> QED
  BY <1>1, <1>5 DEF x

\* Of two.
LEMMA TwoHas ==
  ASSUME NEW L, NEW k \in Nat, NEW e1, NEW e2
  PROVE  LET x == <<e1, e2>>
         IN  /\ x \in Seq({e1, e2}) /\ Len(x) = 2
             /\ Has(L, k, x) <=>
                  /\ Is(L, k + 1, e1) /\ Is(L, k + 2, e2)
<1> DEFINE x == <<e1, e2>>
<1>1. x \in Seq({e1, e2}) /\ Len(x) = 2
  OBVIOUS
<1>2. x[1] = e1 /\ x[2] = e2
  OBVIOUS
<1>3. \A i : i \in 1..2 <=> i \in {1, 2}
  OBVIOUS
<1> HIDE DEF x
<1>4. Has(L, k, x) <=> \A i \in {1, 2} : Is(L, k + i, x[i])
  BY <1>1, <1>3 DEF Has
<1>5. Has(L, k, x) <=>
        /\ Is(L, k + 1, e1) /\ Is(L, k + 2, e2)
  BY <1>2, <1>4
<1> QED
  BY <1>1, <1>5 DEF x

\* Of three.
LEMMA ThreeHas ==
  ASSUME NEW L, NEW k \in Nat, NEW e1, NEW e2, NEW e3
  PROVE  LET x == <<e1, e2, e3>>
         IN  /\ x \in Seq({e1, e2, e3}) /\ Len(x) = 3
             /\ Has(L, k, x) <=>
                  /\ Is(L, k + 1, e1) /\ Is(L, k + 2, e2) /\ Is(L, k + 3, e3)
<1> DEFINE x == <<e1, e2, e3>>
<1>1. x \in Seq({e1, e2, e3}) /\ Len(x) = 3
  OBVIOUS
<1>2. x[1] = e1 /\ x[2] = e2 /\ x[3] = e3
  OBVIOUS
<1>3. \A i : i \in 1..3 <=> i \in {1, 2, 3}
  OBVIOUS
<1> HIDE DEF x
<1>4. Has(L, k, x) <=> \A i \in {1, 2, 3} : Is(L, k + i, x[i])
  BY <1>1, <1>3 DEF Has
<1>5. Has(L, k, x) <=>
        /\ Is(L, k + 1, e1) /\ Is(L, k + 2, e2) /\ Is(L, k + 3, e3)
  BY <1>2, <1>4
<1> QED
  BY <1>1, <1>5 DEF x

\* Of five.
LEMMA FiveHas ==
  ASSUME NEW L, NEW k \in Nat, NEW e1, NEW e2, NEW e3, NEW e4, NEW e5
  PROVE  LET x == <<e1, e2, e3, e4, e5>>
         IN  /\ x \in Seq({e1, e2, e3, e4, e5}) /\ Len(x) = 5
             /\ Has(L, k, x) <=>
                  /\ Is(L, k + 1, e1) /\ Is(L, k + 2, e2) /\ Is(L, k + 3, e3) /\ Is(L, k + 4, e4)
                  /\ Is(L, k + 5, e5)
<1> DEFINE x == <<e1, e2, e3, e4, e5>>
<1>1. x \in Seq({e1, e2, e3, e4, e5}) /\ Len(x) = 5
  OBVIOUS
<1>2. x[1] = e1 /\ x[2] = e2 /\ x[3] = e3 /\ x[4] = e4 /\ x[5] = e5
  OBVIOUS
<1>3. \A i : i \in 1..5 <=> i \in {1, 2, 3, 4, 5}
  OBVIOUS
<1> HIDE DEF x
<1>4. Has(L, k, x) <=> \A i \in {1, 2, 3, 4, 5} : Is(L, k + i, x[i])
  BY <1>1, <1>3 DEF Has
<1>5. Has(L, k, x) <=>
        /\ Is(L, k + 1, e1) /\ Is(L, k + 2, e2) /\ Is(L, k + 3, e3) /\ Is(L, k + 4, e4)
        /\ Is(L, k + 5, e5)
  BY <1>2, <1>4
<1> QED
  BY <1>1, <1>5 DEF x

\* Of four.
LEMMA FourHas ==
  ASSUME NEW L, NEW k \in Nat, NEW e1, NEW e2, NEW e3, NEW e4
  PROVE  LET x == <<e1, e2, e3, e4>>
         IN  /\ x \in Seq({e1, e2, e3, e4}) /\ Len(x) = 4
             /\ Has(L, k, x) <=>
                  /\ Is(L, k + 1, e1) /\ Is(L, k + 2, e2) /\ Is(L, k + 3, e3) /\ Is(L, k + 4, e4)
<1> DEFINE x == <<e1, e2, e3, e4>>
<1>1. x \in Seq({e1, e2, e3, e4}) /\ Len(x) = 4
  OBVIOUS
<1>2. x[1] = e1 /\ x[2] = e2 /\ x[3] = e3 /\ x[4] = e4
  OBVIOUS
<1>3. \A i : i \in 1..4 <=> i \in {1, 2, 3, 4}
  OBVIOUS
<1> HIDE DEF x
<1>4. Has(L, k, x) <=> \A i \in {1, 2, 3, 4} : Is(L, k + i, x[i])
  BY <1>1, <1>3 DEF Has
<1>5. Has(L, k, x) <=>
        /\ Is(L, k + 1, e1) /\ Is(L, k + 2, e2) /\ Is(L, k + 3, e3) /\ Is(L, k + 4, e4)
  BY <1>2, <1>4
<1> QED
  BY <1>1, <1>5 DEF x

\* Of eight.
LEMMA EightHas ==
  ASSUME NEW L, NEW k \in Nat, NEW e1, NEW e2, NEW e3, NEW e4, NEW e5, NEW e6, NEW e7, NEW e8
  PROVE  LET x == <<e1, e2, e3, e4, e5, e6, e7, e8>>
         IN  /\ x \in Seq({e1, e2, e3, e4, e5, e6, e7, e8}) /\ Len(x) = 8
             /\ Has(L, k, x) <=>
                  /\ Is(L, k + 1, e1) /\ Is(L, k + 2, e2) /\ Is(L, k + 3, e3) /\ Is(L, k + 4, e4)
                  /\ Is(L, k + 5, e5) /\ Is(L, k + 6, e6) /\ Is(L, k + 7, e7) /\ Is(L, k + 8, e8)
<1> DEFINE x == <<e1, e2, e3, e4, e5, e6, e7, e8>>
<1>1. x \in Seq({e1, e2, e3, e4, e5, e6, e7, e8}) /\ Len(x) = 8
  OBVIOUS
<1>2. x[1] = e1 /\ x[2] = e2 /\ x[3] = e3 /\ x[4] = e4 /\ x[5] = e5 /\ x[6] = e6
      /\ x[7] = e7 /\ x[8] = e8
  OBVIOUS
<1>3. \A i : i \in 1..8 <=> i \in {1, 2, 3, 4, 5, 6, 7, 8}
  OBVIOUS
<1> HIDE DEF x
<1>4. Has(L, k, x) <=> \A i \in {1, 2, 3, 4, 5, 6, 7, 8} : Is(L, k + i, x[i])
  BY <1>1, <1>3 DEF Has
<1>5. Has(L, k, x) <=>
        /\ Is(L, k + 1, e1) /\ Is(L, k + 2, e2) /\ Is(L, k + 3, e3) /\ Is(L, k + 4, e4)
        /\ Is(L, k + 5, e5) /\ Is(L, k + 6, e6) /\ Is(L, k + 7, e7) /\ Is(L, k + 8, e8)
  BY <1>2, <1>4
<1> QED
  BY <1>1, <1>5 DEF x

\* Of eleven.
LEMMA ElevenHas ==
  ASSUME NEW L, NEW k \in Nat, NEW e1, NEW e2, NEW e3, NEW e4, NEW e5, NEW e6,
         NEW e7, NEW e8, NEW e9, NEW e10, NEW e11
  PROVE  LET x == <<e1, e2, e3, e4, e5, e6, e7, e8, e9, e10, e11>>
         IN  /\ x \in Seq({e1, e2, e3, e4, e5, e6, e7, e8, e9, e10, e11}) /\ Len(x) = 11
             /\ Has(L, k, x) <=>
                  /\ Is(L, k + 1, e1) /\ Is(L, k + 2, e2) /\ Is(L, k + 3, e3) /\ Is(L, k + 4, e4)
                  /\ Is(L, k + 5, e5) /\ Is(L, k + 6, e6) /\ Is(L, k + 7, e7) /\ Is(L, k + 8, e8)
                  /\ Is(L, k + 9, e9) /\ Is(L, k + 10, e10) /\ Is(L, k + 11, e11)
<1> DEFINE x == <<e1, e2, e3, e4, e5, e6, e7, e8, e9, e10, e11>>
<1>1. x \in Seq({e1, e2, e3, e4, e5, e6, e7, e8, e9, e10, e11}) /\ Len(x) = 11
  OBVIOUS
<1>2. x[1] = e1 /\ x[2] = e2 /\ x[3] = e3 /\ x[4] = e4 /\ x[5] = e5 /\ x[6] = e6
      /\ x[7] = e7 /\ x[8] = e8 /\ x[9] = e9 /\ x[10] = e10 /\ x[11] = e11
  OBVIOUS
<1>3. \A i : i \in 1..11 <=> i \in {1, 2, 3, 4, 5, 6, 7, 8, 9, 10, 11}
  OBVIOUS
<1> HIDE DEF x
<1>4. Has(L, k, x) <=> \A i \in {1, 2, 3, 4, 5, 6, 7, 8, 9, 10, 11} : Is(L, k + i, x[i])
  BY <1>1, <1>3 DEF Has
<1>5. Has(L, k, x) <=>
        /\ Is(L, k + 1, e1) /\ Is(L, k + 2, e2) /\ Is(L, k + 3, e3) /\ Is(L, k + 4, e4)
        /\ Is(L, k + 5, e5) /\ Is(L, k + 6, e6) /\ Is(L, k + 7, e7) /\ Is(L, k + 8, e8)
        /\ Is(L, k + 9, e9) /\ Is(L, k + 10, e10) /\ Is(L, k + 11, e11)
  BY <1>2, <1>4
<1> QED
  BY <1>1, <1>5 DEF x

\* The lists of different columns are those of up to three.
LEMMA ColumnListsAre ==
  ASSUME NEW l
  PROVE  l \in ColumnLists <=>
           \/ l = <<>>
           \/ \E x \in Columns : l = <<x>>
           \/ \E x, y \in Columns : x # y /\ l = <<x, y>>
           \/ \E x, y, z \in Columns : x # y /\ x # z /\ y # z /\ l = <<x, y, z>>
<1>1. ASSUME l = <<>> PROVE l \in [1..0 -> Columns] /\ IsInjective(l)
  BY <1>1 DEF IsInjective
<1>2. ASSUME NEW x \in Columns, l = <<x>> PROVE l \in [1..1 -> Columns] /\ IsInjective(l)
  BY <1>2 DEF IsInjective
<1>3. ASSUME NEW x \in Columns, NEW y \in Columns, x # y, l = <<x, y>>
      PROVE  l \in [1..2 -> Columns] /\ IsInjective(l)
  <2>1. l \in [1..2 -> Columns] /\ l[1] = x /\ l[2] = y
    BY <1>3
  <2>2. \A i \in 1..2 : i = 1 \/ i = 2
    OBVIOUS
  <2>3. IsInjective(l)
    BY <1>3, <2>1, <2>2 DEF IsInjective
  <2> QED
    BY <2>1, <2>3
<1>4. ASSUME NEW x \in Columns, NEW y \in Columns, NEW z \in Columns,
             x # y, x # z, y # z, l = <<x, y, z>>
      PROVE  l \in [1..3 -> Columns] /\ IsInjective(l)
  <2>1. l \in [1..3 -> Columns] /\ l[1] = x /\ l[2] = y /\ l[3] = z
    BY <1>4
  <2>2. \A i \in 1..3 : i = 1 \/ i = 2 \/ i = 3
    OBVIOUS
  <2>3. IsInjective(l)
    BY <1>4, <2>1, <2>2 DEF IsInjective
  <2> QED
    BY <2>1, <2>3
<1>5. \A n \in 0..3 : l \in [1..n -> Columns] =>
        l \in Seq(Columns) /\ Len(l) = n /\ \A i \in 1..n : l[i] \in Columns
  OBVIOUS
<1>6. ASSUME l \in [1..0 -> Columns] PROVE l = <<>>
  BY <1>5, <1>6, EmptySeq
<1>7. ASSUME l \in [1..1 -> Columns] PROVE \E x \in Columns : l = <<x>>
  <2> DEFINE x == l[1]  r == <<x>>
  <2>1. l \in Seq(Columns) /\ Len(l) = 1 /\ x \in Columns
    BY <1>5, <1>7
  <2>2. r \in Seq(Columns) /\ Len(r) = 1 /\ r[1] = l[1]
    BY <2>1
  <2> HIDE DEF r
  <2>3. l = r
    BY <2>1, <2>2, SeqEqual
  <2> QED
    BY <2>1, <2>3 DEF r
<1>8. ASSUME l \in [1..2 -> Columns], IsInjective(l)
      PROVE  \E x, y \in Columns : x # y /\ l = <<x, y>>
  <2> DEFINE x == l[1]  y == l[2]  r == <<x, y>>
  <2>1. l \in Seq(Columns) /\ Len(l) = 2 /\ x \in Columns /\ y \in Columns /\ x # y
    BY <1>5, <1>8 DEF IsInjective
  <2>2. r \in Seq(Columns) /\ Len(r) = 2 /\ r[1] = l[1] /\ r[2] = l[2]
    BY <2>1
  <2> HIDE DEF r
  <2>3. l = r
    BY <2>1, <2>2, SeqEqual
  <2> QED
    BY <2>1, <2>3 DEF r
<1>9. ASSUME l \in [1..3 -> Columns], IsInjective(l)
      PROVE  \E x, y, z \in Columns : x # y /\ x # z /\ y # z /\ l = <<x, y, z>>
  <2> DEFINE x == l[1]  y == l[2]  z == l[3]  r == <<x, y, z>>
  <2>1. /\ l \in Seq(Columns) /\ Len(l) = 3 /\ x \in Columns /\ y \in Columns /\ z \in Columns
        /\ x # y /\ x # z /\ y # z
    BY <1>5, <1>9 DEF IsInjective
  <2>2. r \in Seq(Columns) /\ Len(r) = 3 /\ r[1] = l[1] /\ r[2] = l[2] /\ r[3] = l[3]
    BY <2>1
  <2> HIDE DEF r
  <2>3. l = r
    BY <2>1, <2>2, SeqEqual
  <2> QED
    BY <2>1, <2>3 DEF r
<1>10. l \in ColumnLists <=> \E n \in 0..3 : l \in [1..n -> Columns] /\ IsInjective(l)
  BY DEF ColumnLists, MaxSelectColumns
<1>11. \A n \in 0..3 : n = 0 \/ n = 1 \/ n = 2 \/ n = 3
  OBVIOUS
<1>12. 0 \in 0..3 /\ 1 \in 0..3 /\ 2 \in 0..3 /\ 3 \in 0..3
  OBVIOUS
<1>13. ASSUME l \in ColumnLists
       PROVE  \/ l = <<>>
              \/ \E x \in Columns : l = <<x>>
              \/ \E x, y \in Columns : x # y /\ l = <<x, y>>
              \/ \E x, y, z \in Columns : x # y /\ x # z /\ y # z /\ l = <<x, y, z>>
  BY <1>6, <1>7, <1>8, <1>9, <1>10, <1>11, <1>13
<1> QED
  BY <1>1, <1>2, <1>3, <1>4, <1>10, <1>12, <1>13

Marks == {Mark(c) : c \in Columns} \cup {Mark("*"), Mark(Comma)}

\* How a list of columns is written.
LEMMA ListIs ==
  /\ ListOfColumns(<<>>) = <<Mark("*")>>
  /\ \A x : ListOfColumns(<<x>>) = <<Mark(x)>>
  /\ \A x, y : ListOfColumns(<<x, y>>) = <<Mark(x), Mark(Comma), Mark(y)>>
  /\ \A x, y, z : ListOfColumns(<<x, y, z>>) =
       <<Mark(x), Mark(Comma), Mark(y), Mark(Comma), Mark(z)>>
<1> DEFINE Names(l) == [i \in 1..2 * Len(l) - 1 |->
                          IF i % 2 = 0 THEN Mark(Comma) ELSE Mark(l[(i + 1) \div 2])]
<1>1. \A l : ListOfColumns(l) = IF l = <<>> THEN <<Mark("*")>> ELSE Names(l)
  BY Zenon DEF ListOfColumns, Comma
<1>2. ASSUME NEW x PROVE Names(<<x>>) = <<Mark(x)>>
  <2> DEFINE T == {Mark(x), Mark(Comma)}  l == <<x>>  g == Names(l)  r == <<Mark(x)>>
  <2>1. Len(l) = 1 /\ l[1] = x /\ (1 + 1) \div 2 = 1 /\ 1 % 2 # 0 /\ \A i \in 1..1 : i = 1
    OBVIOUS
  <2>2. r \in Seq(T) /\ Len(r) = 1 /\ r[1] = Mark(x)
    OBVIOUS
  <2> HIDE DEF l
  <2>3. g = [i \in 1..1 |-> Mark(x)]
    BY <2>1
  <2> HIDE DEF g
  <2>4. \A i \in 1..1 : g[i] \in T
    BY <2>1, <2>3
  <2> HIDE DEF T, r
  <2>6. g \in Seq(T) /\ Len(g) = 1 /\ g[1] = Mark(x)
    BY <2>3, <2>4
  <2>5. g = r
    BY <2>1, <2>2, <2>6, SeqEqual
  <2> QED
    BY <2>5 DEF g, r, l
<1>3. ASSUME NEW x, NEW y PROVE Names(<<x, y>>) = <<Mark(x), Mark(Comma), Mark(y)>>
  <2> DEFINE T == {Mark(x), Mark(y), Mark(Comma)}  l == <<x, y>>  g == Names(l)
             r == <<Mark(x), Mark(Comma), Mark(y)>>
  <2>1. /\ Len(l) = 2 /\ l[1] = x /\ l[2] = y /\ 2 * 2 - 1 = 3
        /\ (1 + 1) \div 2 = 1 /\ (3 + 1) \div 2 = 2 /\ 1 % 2 # 0 /\ 2 % 2 = 0 /\ 3 % 2 # 0
    OBVIOUS
  <2>2. r \in Seq(T) /\ Len(r) = 3 /\ r[1] = Mark(x) /\ r[2] = Mark(Comma) /\ r[3] = Mark(y)
    OBVIOUS
  <2> HIDE DEF l
  <2>3. /\ g = [i \in 1..3 |-> IF i % 2 = 0 THEN Mark(Comma) ELSE Mark(l[(i + 1) \div 2])]
        /\ g[1] = Mark(x) /\ g[2] = Mark(Comma) /\ g[3] = Mark(y)
    BY <2>1
  <2>4. \A i \in 1..3 : i = 1 \/ i = 2 \/ i = 3
    OBVIOUS
  <2> HIDE DEF g
  <2>5. \A i \in 1..3 : g[i] \in T
    BY <2>3, <2>4
  <2> HIDE DEF T
  <2>6. g \in Seq(T) /\ Len(g) = 3
    BY <2>3, <2>5
  <2> HIDE DEF r
  <2>7. g = r
    BY <2>2, <2>3, <2>4, <2>6, SeqEqual
  <2> QED
    BY <2>7 DEF g, r, l
<1>4. ASSUME NEW x, NEW y, NEW z
      PROVE  Names(<<x, y, z>>) = <<Mark(x), Mark(Comma), Mark(y), Mark(Comma), Mark(z)>>
  <2> DEFINE T == {Mark(x), Mark(y), Mark(z), Mark(Comma)}  l == <<x, y, z>>  g == Names(l)
             r == <<Mark(x), Mark(Comma), Mark(y), Mark(Comma), Mark(z)>>
  <2>1. /\ Len(l) = 3 /\ l[1] = x /\ l[2] = y /\ l[3] = z /\ 2 * 3 - 1 = 5
        /\ (1 + 1) \div 2 = 1 /\ (3 + 1) \div 2 = 2 /\ (5 + 1) \div 2 = 3
        /\ 1 % 2 # 0 /\ 2 % 2 = 0 /\ 3 % 2 # 0 /\ 4 % 2 = 0 /\ 5 % 2 # 0
    OBVIOUS
  <2>2. /\ r \in Seq(T) /\ Len(r) = 5 /\ r[1] = Mark(x) /\ r[2] = Mark(Comma) /\ r[3] = Mark(y)
        /\ r[4] = Mark(Comma) /\ r[5] = Mark(z)
    OBVIOUS
  <2> HIDE DEF l
  <2>3. /\ g = [i \in 1..5 |-> IF i % 2 = 0 THEN Mark(Comma) ELSE Mark(l[(i + 1) \div 2])]
        /\ g[1] = Mark(x) /\ g[2] = Mark(Comma) /\ g[3] = Mark(y)
        /\ g[4] = Mark(Comma) /\ g[5] = Mark(z)
    BY <2>1
  <2>4. \A i \in 1..5 : i = 1 \/ i = 2 \/ i = 3 \/ i = 4 \/ i = 5
    OBVIOUS
  <2> HIDE DEF g
  <2>5. \A i \in 1..5 : g[i] \in T
    BY <2>3, <2>4
  <2> HIDE DEF T
  <2>6. g \in Seq(T) /\ Len(g) = 5
    BY <2>3, <2>5
  <2> HIDE DEF r
  <2>7. g = r
    BY <2>2, <2>3, <2>4, <2>6, SeqEqual
  <2> QED
    BY <2>7 DEF g, r, l
<1> HIDE DEF Names
<1>5. \A x, y, z : <<x>> # <<>> /\ <<x, y>> # <<>> /\ <<x, y, z>> # <<>>
  OBVIOUS
<1> QED
  BY <1>1, <1>2, <1>3, <1>4, <1>5

\* The columns that stand behind the first lexeme, as the sentence writes them.
LEMMA ListHas ==
  ASSUME NEW L, NEW l, NEW n
  PROVE  /\ l \in ColumnLists => ListOfColumns(l) \in Seq(Marks)
         /\ ListAt(L, l, n) <=> /\ l \in ColumnLists /\ Has(L, 1, ListOfColumns(l))
                                /\ n = Len(ListOfColumns(l)) + 2
<1> DEFINE b == ListOfColumns(l)
           Right == /\ l \in ColumnLists => b \in Seq(Marks)
                    /\ ListAt(L, l, n) <=> l \in ColumnLists /\ Has(L, 1, b) /\ n = Len(b) + 2
<1>1. \A c \in Columns : Mark(c) \in Marks
  BY DEF Marks
<1>2. Mark("*") \in Marks /\ Mark(Comma) \in Marks
  BY DEF Marks
<1>3. 1 + 1 = 2 /\ 1 + 2 = 3 /\ 1 + 3 = 4 /\ 1 + 4 = 5 /\ 1 + 5 = 6 /\ 3 + 2 = 5 /\ 5 + 2 = 7
  OBVIOUS
<1>4. ASSUME l = <<>> PROVE Right
  <2>1. b = <<Mark("*")>>
    BY <1>4, ListIs
  <2>2. b \in Seq(Marks) /\ Len(b) = 1
    BY <1>2, <2>1
  <2>5. l \in ColumnLists
    BY <1>4, ColumnListsAre
  <2>3. Has(L, 1, b) <=> Is(L, 2, Mark("*"))
    BY <1>3, <2>1, OneHas
  <2>4. ListAt(L, l, n) <=> n = 3 /\ Is(L, 2, Mark("*"))
    BY <1>4 DEF ListAt
  <2> HIDE DEF b
  <2> QED
    BY <1>3, <2>2, <2>3, <2>4, <2>5
<1>5. ASSUME NEW x \in Columns, l = <<x>> PROVE Right
  <2>1. b = <<Mark(x)>>
    BY <1>5, ListIs
  <2>2. b \in Seq(Marks) /\ Len(b) = 1
    BY <1>1, <2>1
  <2>3. l \in ColumnLists
    BY <1>5, ColumnListsAre
  <2>4. Has(L, 1, b) <=> Is(L, 2, Mark(x))
    BY <1>3, <2>1, OneHas
  <2>5. ListAt(L, l, n) <=> n = 3 /\ Is(L, 2, Mark(x))
    BY <1>5 DEF ListAt
  <2> HIDE DEF b
  <2> QED
    BY <1>3, <2>2, <2>3, <2>4, <2>5
<1>6. ASSUME NEW x \in Columns, NEW y \in Columns, x # y, l = <<x, y>> PROVE Right
  <2>1. b = <<Mark(x), Mark(Comma), Mark(y)>>
    BY <1>6, ListIs
  <2>2. b \in Seq(Marks) /\ Len(b) = 3
    BY <1>1, <1>2, <2>1
  <2>3. l \in ColumnLists
    BY <1>6, ColumnListsAre
  <2>4. Has(L, 1, b) <=> Is(L, 2, Mark(x)) /\ Is(L, 3, Mark(Comma)) /\ Is(L, 4, Mark(y))
    BY <1>3, <2>1, ThreeHas
  <2>5. ListAt(L, l, n) <=>
          n = 5 /\ Is(L, 2, Mark(x)) /\ Is(L, 3, Mark(Comma)) /\ Is(L, 4, Mark(y))
    BY <1>6 DEF ListAt
  <2> HIDE DEF b
  <2> QED
    BY <1>3, <2>2, <2>3, <2>4, <2>5
<1>7. ASSUME NEW x \in Columns, NEW y \in Columns, NEW z \in Columns,
             x # y, x # z, y # z, l = <<x, y, z>>
      PROVE  Right
  <2>1. b = <<Mark(x), Mark(Comma), Mark(y), Mark(Comma), Mark(z)>>
    BY <1>7, ListIs
  <2>2. b \in Seq(Marks) /\ Len(b) = 5
    BY <1>1, <1>2, <2>1
  <2>3. l \in ColumnLists
    BY <1>7, ColumnListsAre
  <2>4. Has(L, 1, b) <=> /\ Is(L, 2, Mark(x)) /\ Is(L, 3, Mark(Comma)) /\ Is(L, 4, Mark(y))
                         /\ Is(L, 5, Mark(Comma)) /\ Is(L, 6, Mark(z))
    BY <1>3, <2>1, FiveHas
  <2>5. ListAt(L, l, n) <=>
          /\ n = 7 /\ Is(L, 2, Mark(x)) /\ Is(L, 3, Mark(Comma)) /\ Is(L, 4, Mark(y))
          /\ Is(L, 5, Mark(Comma)) /\ Is(L, 6, Mark(z))
    BY <1>7 DEF ListAt
  <2> HIDE DEF b
  <2> QED
    BY <1>3, <2>2, <2>3, <2>4, <2>5
<1>8. ASSUME l \notin ColumnLists PROVE Right
  <2>1. ~ListAt(L, l, n)
    BY <1>8, ColumnListsAre DEF ListAt
  <2> QED
    BY <1>8, <2>1
<1> HIDE DEF b
<1>9. ASSUME l \in ColumnLists PROVE Right
  <2>1. \/ l = <<>>
        \/ \E x \in Columns : l = <<x>>
        \/ \E x, y \in Columns : x # y /\ l = <<x, y>>
        \/ \E x, y, z \in Columns : x # y /\ x # z /\ y # z /\ l = <<x, y, z>>
    BY <1>9, ColumnListsAre
  <2> HIDE DEF Right
  <2> QED
    BY <1>4, <1>5, <1>6, <1>7, <2>1
<1> QED
  BY <1>8, <1>9 DEF b

\* What the parser takes for an insert is the sentence of that request.
LEMMA InsertSays ==
  ASSUME NEW S, NEW L \in Seq(S), NEW i, NEW x, NEW a
  PROVE  /\ InsertWithId(L, i, x, a) <=>
              /\ Says(L, SentenceOfInsert(InsertRequest(TRUE, i, x, a)))
              /\ i \in 0..MaxInt /\ i > 0 /\ Len(x) < NameMax /\ a \in 0..MaxInt
         /\ InsertWithout(L, x, a) <=>
              /\ Says(L, SentenceOfInsert(InsertRequest(FALSE, 0, x, a)))
              /\ Len(x) < NameMax /\ a \in 0..MaxInt
<1> DEFINE long == <<Mark("insert"), Mark("into"), Mark("users"), Mark("values"), Mark(LeftParen),
                     Num(i), Mark(Comma), Str(x), Mark(Comma), Num(a), Mark(RightParen)>>
           short == <<Mark("insert"), Mark("into"), Mark("users"), Mark("name"), Mark("age"),
                      Mark("values"), Str(x), Num(a)>>
           r == InsertRequest(TRUE, i, x, a)
           q == InsertRequest(FALSE, 0, x, a)
<1>1. r.hasId /\ r.id = i /\ r.name = x /\ r.age = a
  BY DEF InsertRequest
<1>2. ~q.hasId /\ q.name = x /\ q.age = a
  BY DEF InsertRequest
<1> HIDE DEF r, q
<1>3. SentenceOfInsert(r) = long
  BY <1>1, Zenon DEF SentenceOfInsert, LeftParen, RightParen, Comma
<1>4. SentenceOfInsert(q) = short
  BY <1>2 DEF SentenceOfInsert
<1>5. 0 + 1 = 1 /\ 0 + 2 = 2 /\ 0 + 3 = 3 /\ 0 + 4 = 4 /\ 0 + 5 = 5 /\ 0 + 6 = 6 /\ 0 + 7 = 7
      /\ 0 + 8 = 8 /\ 0 + 9 = 9 /\ 0 + 10 = 10 /\ 0 + 11 = 11 /\ 11 + 1 = 12 /\ 8 + 1 = 9
  OBVIOUS
<1>6. Says(L, long) <=>
        /\ IntoUsers(L) /\ Is(L, 4, Mark("values"))
        /\ Is(L, 5, Mark(LeftParen)) /\ Is(L, 6, Num(i)) /\ Is(L, 7, Mark(Comma))
        /\ Is(L, 8, Str(x)) /\ Is(L, 9, Mark(Comma)) /\ Is(L, 10, Num(a))
        /\ Is(L, 11, Mark(RightParen)) /\ Ends(L, 12)
  <2> DEFINE T == {Mark("insert"), Mark("into"), Mark("users"), Mark("values"), Mark(LeftParen),
                   Num(i), Mark(Comma), Str(x), Mark(Comma), Num(a), Mark(RightParen)}
  <2>1. /\ long \in Seq(T) /\ Len(long) = 11
        /\ Has(L, 0, long) <=>
             /\ Is(L, 0 + 1, Mark("insert")) /\ Is(L, 0 + 2, Mark("into"))
             /\ Is(L, 0 + 3, Mark("users")) /\ Is(L, 0 + 4, Mark("values"))
             /\ Is(L, 0 + 5, Mark(LeftParen)) /\ Is(L, 0 + 6, Num(i)) /\ Is(L, 0 + 7, Mark(Comma))
             /\ Is(L, 0 + 8, Str(x)) /\ Is(L, 0 + 9, Mark(Comma)) /\ Is(L, 0 + 10, Num(a))
             /\ Is(L, 0 + 11, Mark(RightParen))
    BY ElevenHas
  <2> HIDE DEF long, T
  <2>2. Says(L, long) <=> Has(L, 0, long) /\ Ends(L, Len(long) + 1)
    BY <2>1, SaysIs
  <2> QED
    BY <1>5, <2>1, <2>2 DEF IntoUsers
<1>7. Says(L, short) <=>
        /\ IntoUsers(L)
        /\ Is(L, 4, Mark("name")) /\ Is(L, 5, Mark("age")) /\ Is(L, 6, Mark("values"))
        /\ Is(L, 7, Str(x)) /\ Is(L, 8, Num(a)) /\ Ends(L, 9)
  <2> DEFINE T == {Mark("insert"), Mark("into"), Mark("users"), Mark("name"), Mark("age"),
                   Mark("values"), Str(x), Num(a)}
  <2>1. /\ short \in Seq(T) /\ Len(short) = 8
        /\ Has(L, 0, short) <=>
             /\ Is(L, 0 + 1, Mark("insert")) /\ Is(L, 0 + 2, Mark("into"))
             /\ Is(L, 0 + 3, Mark("users")) /\ Is(L, 0 + 4, Mark("name"))
             /\ Is(L, 0 + 5, Mark("age")) /\ Is(L, 0 + 6, Mark("values"))
             /\ Is(L, 0 + 7, Str(x)) /\ Is(L, 0 + 8, Num(a))
    BY EightHas
  <2> HIDE DEF short, T
  <2>2. Says(L, short) <=> Has(L, 0, short) /\ Ends(L, Len(short) + 1)
    BY <2>1, SaysIs
  <2> QED
    BY <1>5, <2>1, <2>2 DEF IntoUsers
<1> HIDE DEF long, short
<1>8. InsertWithId(L, i, x, a) <=>
        /\ Says(L, long) /\ i \in 0..MaxInt /\ i > 0 /\ Len(x) < NameMax /\ a \in 0..MaxInt
  BY <1>6 DEF InsertWithId, ValuesWithId
<1>9. InsertWithout(L, x, a) <=> Says(L, short) /\ Len(x) < NameMax /\ a \in 0..MaxInt
  BY <1>7 DEF InsertWithout
<1> QED
  BY <1>3, <1>4, <1>8, <1>9 DEF r, q

\* What the parser takes for a select is the sentence of that request.
LEMMA SelectSays ==
  ASSUME NEW S, NEW L \in Seq(S), NEW l \in ColumnLists, NEW i, NEW x
  PROVE  /\ SelectAll(L, l) <=> Says(L, SentenceOfSelect(SelectRequest("all", 0, <<>>, l)))
         /\ SelectWhere(L, l, "id", Num(i)) <=>
              Says(L, SentenceOfSelect(SelectRequest("id", i, <<>>, l)))
         /\ SelectWhere(L, l, "name", Str(x)) <=>
              Says(L, SentenceOfSelect(SelectRequest("name", 0, x, l)))
<1> DEFINE first == <<Mark("select")>>
           list == ListOfColumns(l)
           table == <<Mark("from"), Mark("users")>>
           m == Len(list)
           n == m + 2
           Where(c, v) == <<Mark("where"), Mark(c), Mark("="), v>>
           all == SelectRequest("all", 0, <<>>, l)
           id == SelectRequest("id", i, <<>>, l)
           name == SelectRequest("name", 0, x, l)
<1>1. /\ SentenceOfSelect(all) = first \o list \o table \o <<>>
      /\ SentenceOfSelect(id) = first \o list \o table \o Where("id", Num(i))
      /\ SentenceOfSelect(name) = first \o list \o table \o Where("name", Str(x))
  <2>1. /\ all.filter = "all" /\ all.projection.columns = l
        /\ id.filter = "id" /\ id.projection.columns = l /\ id.id = i
        /\ name.filter = "name" /\ name.projection.columns = l /\ name.name = x
    BY DEF SelectRequest
  <2> HIDE DEF all, id, name
  <2> QED
    BY <2>1 DEF SentenceOfSelect
<1> HIDE DEF all, id, name
<1>2. \A k : ListAt(L, l, k) <=> Has(L, 1, list) /\ k = n
  BY ListHas
<1>3. list \in Seq(Marks)
  BY ListHas
<1> HIDE DEF list
<1>4. m \in Nat /\ n \in Nat
  BY <1>3, LenProperties
<1>5. ASSUME NEW T, NEW t \in Seq(T)
      PROVE  Says(L, first \o list \o table \o t) <=>
               SelectUpTo(L, l, n) /\ Has(L, n + 1, t) /\ Ends(L, n + Len(t) + 2)
  <2> DEFINE U == Marks \cup {Mark("select"), Mark("from"), Mark("users")} \cup T
             a == first \o list
             b == a \o table
             c == b \o t
  <2>1. list \in Seq(U) /\ t \in Seq(U) /\ first \in Seq(U) /\ table \in Seq(U)
    <3>1. first \in Seq(U) /\ table \in Seq(U)
      OBVIOUS
    <3>2. Marks \subseteq U /\ T \subseteq U
      OBVIOUS
    <3> HIDE DEF U
    <3> QED
      BY <1>3, <1>5, <3>1, <3>2
  <2> HIDE DEF U
  <2>2. /\ Len(first) = 1 /\ Len(table) = 2
        /\ Has(L, 0, first) <=> Is(L, 0 + 1, Mark("select"))
    BY OneHas
  <2>3. Has(L, m + 1, table) <=> Is(L, m + 1 + 1, Mark("from")) /\ Is(L, m + 1 + 2, Mark("users"))
    BY TwoHas
  <2> HIDE DEF first, table
  <2>4. a \in Seq(U) /\ Len(a) = m + 1 /\ (Has(L, 0, a) <=> Has(L, 0, first) /\ Has(L, 1, list))
    <3>0. a \in Seq(U) /\ Len(a) = Len(first) + Len(list)
      BY <2>1, ConcatProperties
    <3>1. a \in Seq(U) /\ Len(a) = 1 + m
      BY <2>2, <3>0
    <3>2. Has(L, 0, a) <=> Has(L, 0, first) /\ Has(L, 0 + Len(first), list)
      BY <2>1, HasBoth
    <3> QED
      BY <1>4, <2>2, <3>1, <3>2
  <2> HIDE DEF a
  <2>5. b \in Seq(U) /\ Len(b) = n + 1 /\ (Has(L, 0, b) <=> Has(L, 0, a) /\ Has(L, m + 1, table))
    <3>0. b \in Seq(U) /\ Len(b) = Len(a) + Len(table)
      BY <2>1, <2>4, ConcatProperties
    <3>1. b \in Seq(U) /\ Len(b) = m + 1 + 2
      BY <2>2, <2>4, <3>0
    <3>2. Has(L, 0, b) <=> Has(L, 0, a) /\ Has(L, 0 + Len(a), table)
      BY <2>1, <2>4, HasBoth
    <3>3. 0 + (m + 1) = m + 1 /\ m + 1 + 2 = n + 1
      BY <1>4
    <3> QED
      BY <2>4, <3>1, <3>2, <3>3
  <2> HIDE DEF b
  <2>6. /\ c \in Seq(U) /\ Len(c) = n + 1 + Len(t)
        /\ Has(L, 0, c) <=> Has(L, 0, b) /\ Has(L, n + 1, t)
    <3>1. c \in Seq(U) /\ Len(c) = n + 1 + Len(t)
      <4>1. c \in Seq(U) /\ Len(c) = Len(b) + Len(t)
        BY <2>1, <2>5, ConcatProperties
      <4> QED
        BY <2>5, <4>1
    <3>2. Has(L, 0, c) <=> Has(L, 0, b) /\ Has(L, 0 + Len(b), t)
      BY <2>1, <2>5, HasBoth
    <3>3. 0 + (n + 1) = n + 1
      BY <1>4
    <3> QED
      BY <2>5, <3>1, <3>2, <3>3
  <2> HIDE DEF c
  <2>7. Says(L, c) <=> Has(L, 0, c) /\ Ends(L, Len(c) + 1)
    BY <2>6, SaysIs
  <2>8. Len(c) + 1 = n + Len(t) + 2 /\ 0 + 1 = 1 /\ m + 1 + 1 = n /\ m + 1 + 2 = n + 1
    BY <1>4, <1>5, <2>6, LenProperties
  <2>9. SelectUpTo(L, l, n) <=>
          /\ Is(L, 1, Mark("select")) /\ Has(L, 1, list)
          /\ Is(L, n, Mark("from")) /\ Is(L, n + 1, Mark("users"))
    BY <1>2 DEF SelectUpTo
  <2> QED
    BY <2>2, <2>3, <2>4, <2>5, <2>6, <2>7, <2>8, <2>9 DEF c, b, a
<1>6. \A k : SelectUpTo(L, l, k) => k = n
  BY <1>2 DEF SelectUpTo
<1>7. SelectAll(L, l) <=> Says(L, first \o list \o table \o <<>>)
  <2>1. <<>> \in Seq({}) /\ Len(<<>>) = 0
    OBVIOUS
  <2>2. Has(L, n + 1, <<>>)
    BY <2>1 DEF Has
  <2>3. n + 0 + 2 = n + 2
    BY <1>4
  <2>4. Says(L, first \o list \o table \o <<>>) <=> SelectUpTo(L, l, n) /\ Ends(L, n + 2)
    BY <1>5, <2>1, <2>2, <2>3
  <2> QED
    BY <1>6, <2>4 DEF SelectAll
<1>8. ASSUME NEW c, NEW v
      PROVE  SelectWhere(L, l, c, v) <=> Says(L, first \o list \o table \o Where(c, v))
  <2> DEFINE t == Where(c, v)
             T == {Mark("where"), Mark(c), Mark("="), v}
  <2>1. /\ t \in Seq(T) /\ Len(t) = 4
        /\ Has(L, n + 1, t) <=>
             /\ Is(L, n + 1 + 1, Mark("where")) /\ Is(L, n + 1 + 2, Mark(c))
             /\ Is(L, n + 1 + 3, Mark("=")) /\ Is(L, n + 1 + 4, v)
    BY FourHas
  <2> HIDE DEF t, T
  <2>2. /\ n + 1 + 1 = n + 2 /\ n + 1 + 2 = n + 3 /\ n + 1 + 3 = n + 4 /\ n + 1 + 4 = n + 5
        /\ n + 4 + 2 = n + 6
    BY <1>4
  <2>3. Says(L, first \o list \o table \o t) <=>
          /\ SelectUpTo(L, l, n) /\ Is(L, n + 2, Mark("where")) /\ Is(L, n + 3, Mark(c))
          /\ Is(L, n + 4, Mark("=")) /\ Is(L, n + 5, v) /\ Ends(L, n + 6)
    BY <1>5, <2>1, <2>2
  <2> HIDE DEF n
  <2> QED
    BY <1>6, <2>3 DEF SelectWhere, t
<1> HIDE DEF first, table, Where
<1> QED
  BY <1>1, <1>7, <1>8 DEF all, id, name

Inserts(nums, names) ==
  {InsertRequest(TRUE, i, n, a) : i \in nums \ {0}, n \in names, a \in nums}
    \cup {InsertRequest(FALSE, 0, n, a) : n \in names, a \in nums}

AmongInserts(nums, names, r) ==
  \/ \E i \in nums \ {0}, n \in names, a \in nums : r = InsertRequest(TRUE, i, n, a)
  \/ \E n \in names, a \in nums : r = InsertRequest(FALSE, 0, n, a)

\* The requests for a new row.
LEMMA InsertsAre ==
  ASSUME NEW nums, NEW names, NEW r
  PROVE  r \in Inserts(nums, names) <=> AmongInserts(nums, names, r)
<1> DEFINE With(i, n, a) == InsertRequest(TRUE, i, n, a)
           Without(n, a) == InsertRequest(FALSE, 0, n, a)
<1> HIDE DEF With, Without
<1>1. r \in {With(i, n, a) : i \in nums \ {0}, n \in names, a \in nums}
        <=> \E i \in nums \ {0}, n \in names, a \in nums : r = With(i, n, a)
  OBVIOUS
<1>2. r \in {Without(n, a) : n \in names, a \in nums}
        <=> \E n \in names, a \in nums : r = Without(n, a)
  OBVIOUS
<1>3. r \in {With(i, n, a) : i \in nums \ {0}, n \in names, a \in nums}
            \cup {Without(n, a) : n \in names, a \in nums}
        <=> \/ \E i \in nums \ {0}, n \in names, a \in nums : r = With(i, n, a)
            \/ \E n \in names, a \in nums : r = Without(n, a)
  BY <1>1, <1>2
<1> QED
  BY <1>3 DEF Inserts, AmongInserts, With, Without

\* What is denoted is what the engine is asked for by a statement with this sense.
LEMMA DenotedIs ==
  ASSUME NEW s, NEW S, Lexemes(s) \in Seq(S)
  PROVE  /\ \A v : Sense(Lexemes(s), v) => ExecuteStatement(v) \in Denoted(s)
         /\ \A r \in Denoted(s) : \E v : Sense(Lexemes(s), v) /\ r = ExecuteStatement(v)
<1> DEFINE L == Lexemes(s)
           nums == {x.num : x \in Range(L)} \cap 0..MaxInt
           names == {x \in {y.chars : y \in Range(L)} : Len(x) < NameMax}
           inserts == Inserts(nums, names)
           selects == UNION {
             {SelectRequest("all", 0, <<>>, l)} \cup {SelectRequest("id", i, <<>>, l) : i \in nums}
               \cup {SelectRequest("name", 0, n, l) : n \in names} : l \in ColumnLists}
           D == Denoted(s)
<1>1. D = IF L = <<>> THEN {}
          ELSE IF L[1].chars = <<"insert">> THEN {r \in inserts : Says(L, SentenceOfInsert(r))}
          ELSE {r \in selects : Says(L, SentenceOfSelect(r))}
  BY DEF Denoted, RequestsOf, Inserts
<1> HIDE DEF L, D
<1>2. L \in Seq(S)
  BY DEF L
<1>3. /\ \A hasId, i, x, a : ExecuteStatement(InsertStatement(hasId, i, x, a)) =
           InsertRequest(hasId, i, x, a)
      /\ \A l : ExecuteStatement(SelectStatement(l, "none", 0, <<>>))
           = SelectRequest("all", 0, <<>>, l)
      /\ \A l, i : ExecuteStatement(SelectStatement(l, "id", i, <<>>))
           = SelectRequest("id", i, <<>>, l)
      /\ \A l, x : ExecuteStatement(SelectStatement(l, "name", 0, x))
           = SelectRequest("name", 0, x, l)
  <2>1. ASSUME NEW hasId, NEW i, NEW x, NEW a
        PROVE  ExecuteStatement(InsertStatement(hasId, i, x, a)) = InsertRequest(hasId, i, x, a)
    <3> DEFINE v == InsertStatement(hasId, i, x, a)
    <3>1. v.type = "insert" /\ v.hasId = hasId /\ v.id = i /\ v.name = x /\ v.age = a
      BY DEF InsertStatement
    <3> HIDE DEF v
    <3>2. ExecuteStatement(v) = InsertRequest(hasId, i, x, a)
      BY <3>1 DEF ExecuteStatement
    <3> QED
      BY <3>2 DEF v
  <2>2. ASSUME NEW l, NEW w, NEW i, NEW x
        PROVE  ExecuteStatement(SelectStatement(l, w, i, x)) =
                 SelectRequest(IF w = "none" THEN "all" ELSE w, i, x, l)
    <3> DEFINE v == SelectStatement(l, w, i, x)
    <3>1. v.type = "select" /\ v.columns = l /\ v.where = w /\ v.id = i /\ v.name = x
      BY DEF SelectStatement
    <3> HIDE DEF v
    <3>2. ExecuteStatement(v) = SelectRequest(IF w = "none" THEN "all" ELSE w, i, x, l)
      BY <3>1 DEF ExecuteStatement
    <3> QED
      BY <3>2 DEF v
  <2> QED
    BY <2>1, <2>2
<1>4. ASSUME NEW n, NEW x, Is(L, n, x) PROVE x \in Range(L)
  <2>1. n \in DOMAIN L /\ L[n] = x
    BY <1>2, <1>4, LenProperties DEF Is
  <2> QED
    BY <2>1 DEF Range
<1>5. ASSUME NEW n, NEW i \in 0..MaxInt, Is(L, n, Num(i)) PROVE i \in nums
  <2>1. Num(i).num = i
    BY DEF Num, Lexeme
  <2> QED
    BY <1>4, <1>5, <2>1
<1>6. ASSUME NEW n, NEW x, Len(x) < NameMax, Is(L, n, Str(x)) PROVE x \in names
  <2>1. Str(x).chars = x
    BY DEF Str, Lexeme
  <2> QED
    BY <1>4, <1>6, <2>1
<1>7. ASSUME NEW c, Is(L, 1, Mark(c)) PROVE L # <<>> /\ L[1].chars = <<c>>
  <2>1. 1 \in 1..Len(L) /\ L[1] = Mark(c)
    BY <1>7 DEF Is
  <2>2. Mark(c).chars = <<c>>
    BY DEF Mark, Lexeme
  <2>3. L # <<>>
    BY <2>1
  <2> QED
    BY <2>1, <2>2, <2>3
<1> HIDE DEF nums, names
<1>8. ASSUME NEW v, Sense(L, v) PROVE ExecuteStatement(v) \in D
  <2>1. CASE \E i, x, a : InsertWithId(L, i, x, a) /\ v = InsertStatement(TRUE, i, x, a)
    <3>1. PICK i, x, a : InsertWithId(L, i, x, a) /\ v = InsertStatement(TRUE, i, x, a)
      BY <2>1
    <3>2. /\ Is(L, 1, Mark("insert")) /\ Is(L, 6, Num(i)) /\ Is(L, 8, Str(x)) /\ Is(L, 10, Num(a))
          /\ i \in 0..MaxInt /\ i > 0 /\ Len(x) < NameMax /\ a \in 0..MaxInt
      BY <3>1 DEF InsertWithId, IntoUsers, ValuesWithId
    <3>3. i \in nums \ {0} /\ x \in names /\ a \in nums
      BY <1>5, <1>6, <3>2
    <3>4. Says(L, SentenceOfInsert(InsertRequest(TRUE, i, x, a)))
      BY <1>2, <3>1, InsertSays
    <3>5. InsertRequest(TRUE, i, x, a) \in inserts
      BY <3>3, InsertsAre DEF AmongInserts
    <3> HIDE DEF inserts
    <3> QED
      BY <1>1, <1>3, <1>7, <3>1, <3>2, <3>4, <3>5
  <2>2. CASE \E x, a : InsertWithout(L, x, a) /\ v = InsertStatement(FALSE, 0, x, a)
    <3>1. PICK x, a : InsertWithout(L, x, a) /\ v = InsertStatement(FALSE, 0, x, a)
      BY <2>2
    <3>2. /\ Is(L, 1, Mark("insert")) /\ Is(L, 7, Str(x)) /\ Is(L, 8, Num(a))
          /\ Len(x) < NameMax /\ a \in 0..MaxInt
      BY <3>1 DEF InsertWithout, IntoUsers
    <3>3. x \in names /\ a \in nums
      BY <1>5, <1>6, <3>2
    <3>4. Says(L, SentenceOfInsert(InsertRequest(FALSE, 0, x, a)))
      BY <1>2, <3>1, InsertSays
    <3>5. InsertRequest(FALSE, 0, x, a) \in inserts
      BY <3>3, InsertsAre DEF AmongInserts
    <3> HIDE DEF inserts
    <3> QED
      BY <1>1, <1>3, <1>7, <3>1, <3>2, <3>4, <3>5
  <2>3. ASSUME NEW l, NEW r, NEW n, SelectUpTo(L, l, n), r \in selects,
               Says(L, SentenceOfSelect(r))
        PROVE  r \in D
    <3>1. L # <<>> /\ L[1].chars = <<"select">>
      BY <1>7, <2>3 DEF SelectUpTo
    <3>2. <<"select">> # <<"insert">>
      <4>1. <<"select">>[1] # <<"insert">>[1]
        OBVIOUS
      <4> QED
        BY <4>1
    <3> HIDE DEF selects, inserts
    <3> QED
      BY <1>1, <2>3, <3>1, <3>2
  <2>4. ASSUME NEW l, NEW n, SelectUpTo(L, l, n) PROVE l \in ColumnLists
    BY <2>4, ListHas DEF SelectUpTo
  <2>5. CASE \E l : SelectAll(L, l) /\ v = SelectStatement(l, "none", 0, <<>>)
    <3>1. PICK l : SelectAll(L, l) /\ v = SelectStatement(l, "none", 0, <<>>)
      BY <2>5
    <3>2. PICK n : SelectUpTo(L, l, n)
      BY <3>1 DEF SelectAll
    <3>3. l \in ColumnLists
      BY <2>4, <3>2
    <3>4. Says(L, SentenceOfSelect(SelectRequest("all", 0, <<>>, l)))
      BY <1>2, <3>1, <3>3, SelectSays
    <3>5. SelectRequest("all", 0, <<>>, l) \in selects
      BY <3>3
    <3> HIDE DEF selects
    <3> QED
      BY <1>3, <2>3, <3>1, <3>2, <3>4, <3>5
  <2>6. CASE \E l, i : SelectById(L, l, i) /\ v = SelectStatement(l, "id", i, <<>>)
    <3>1. PICK l, i : SelectById(L, l, i) /\ v = SelectStatement(l, "id", i, <<>>)
      BY <2>6
    <3>2. PICK n : SelectUpTo(L, l, n) /\ Is(L, n + 5, Num(i)) /\ i \in 0..MaxInt
      BY <3>1 DEF SelectById, SelectWhere
    <3>3. l \in ColumnLists /\ i \in nums
      BY <1>5, <2>4, <3>2
    <3>4. Says(L, SentenceOfSelect(SelectRequest("id", i, <<>>, l)))
      BY <1>2, <3>1, <3>3, SelectSays DEF SelectById
    <3>5. SelectRequest("id", i, <<>>, l) \in selects
      BY <3>3
    <3> HIDE DEF selects
    <3> QED
      BY <1>3, <2>3, <3>1, <3>2, <3>4, <3>5
  <2>7. CASE \E l, x : SelectByName(L, l, x) /\ v = SelectStatement(l, "name", 0, x)
    <3>1. PICK l, x : SelectByName(L, l, x) /\ v = SelectStatement(l, "name", 0, x)
      BY <2>7
    <3>2. PICK n : SelectUpTo(L, l, n) /\ Is(L, n + 5, Str(x)) /\ Len(x) < NameMax
      BY <3>1 DEF SelectByName, SelectWhere
    <3>3. l \in ColumnLists /\ x \in names
      BY <1>6, <2>4, <3>2
    <3>4. Says(L, SentenceOfSelect(SelectRequest("name", 0, x, l)))
      BY <1>2, <3>1, <3>3, SelectSays DEF SelectByName
    <3>5. SelectRequest("name", 0, x, l) \in selects
      BY <3>3
    <3> HIDE DEF selects
    <3> QED
      BY <1>3, <2>3, <3>1, <3>2, <3>4, <3>5
  <2> QED
    BY <1>8, <2>1, <2>2, <2>5, <2>6, <2>7 DEF Sense
<1>9. \A i \in nums : i \in 0..MaxInt
  BY DEF nums
<1>10. \A x \in names : Len(x) < NameMax
  BY DEF names
<1>11. ASSUME NEW r \in D PROVE \E v : Sense(L, v) /\ r = ExecuteStatement(v)
  <2>1. CASE r \in inserts /\ Says(L, SentenceOfInsert(r))
    <3>3. \/ \E i \in nums \ {0}, x \in names, a \in nums : r = InsertRequest(TRUE, i, x, a)
          \/ \E x \in names, a \in nums : r = InsertRequest(FALSE, 0, x, a)
      <4>1. AmongInserts(nums, names, r)
        BY <2>1, InsertsAre
      <4> QED
        BY <4>1 DEF AmongInserts
    <3> HIDE DEF inserts
    <3>1. CASE \E i \in nums \ {0}, x \in names, a \in nums : r = InsertRequest(TRUE, i, x, a)
      <4>1. PICK i \in nums \ {0}, x \in names, a \in nums : r = InsertRequest(TRUE, i, x, a)
        BY <3>1
      <4>2. i \in 0..MaxInt /\ i > 0 /\ Len(x) < NameMax /\ a \in 0..MaxInt
        BY <1>9, <1>10, <4>1
      <4>3. InsertWithId(L, i, x, a)
        BY <1>2, <2>1, <4>1, <4>2, InsertSays
      <4> QED
        BY <1>3, <4>1, <4>3 DEF Sense
    <3>2. CASE \E x \in names, a \in nums : r = InsertRequest(FALSE, 0, x, a)
      <4>1. PICK x \in names, a \in nums : r = InsertRequest(FALSE, 0, x, a)
        BY <3>2
      <4>2. Len(x) < NameMax /\ a \in 0..MaxInt
        BY <1>9, <1>10, <4>1
      <4>3. InsertWithout(L, x, a)
        BY <1>2, <2>1, <4>1, <4>2, InsertSays
      <4> QED
        BY <1>3, <4>1, <4>3 DEF Sense
    <3> QED
      BY <3>1, <3>2, <3>3
  <2>2. CASE r \in selects /\ Says(L, SentenceOfSelect(r))
    <3>1. PICK l \in ColumnLists :
            \/ r = SelectRequest("all", 0, <<>>, l)
            \/ \E i \in nums : r = SelectRequest("id", i, <<>>, l)
            \/ \E x \in names : r = SelectRequest("name", 0, x, l)
      BY <2>2
    <3>2. CASE r = SelectRequest("all", 0, <<>>, l)
      <4>1. SelectAll(L, l)
        BY <1>2, <2>2, <3>2, SelectSays
      <4> QED
        BY <1>3, <3>2, <4>1 DEF Sense
    <3>3. ASSUME NEW i \in nums, r = SelectRequest("id", i, <<>>, l)
          PROVE  \E v : Sense(L, v) /\ r = ExecuteStatement(v)
      <4>1. SelectById(L, l, i)
        BY <1>2, <1>9, <2>2, <3>3, SelectSays DEF SelectById
      <4> QED
        BY <1>3, <3>3, <4>1 DEF Sense
    <3>4. ASSUME NEW x \in names, r = SelectRequest("name", 0, x, l)
          PROVE  \E v : Sense(L, v) /\ r = ExecuteStatement(v)
      <4>1. SelectByName(L, l, x)
        BY <1>2, <1>10, <2>2, <3>4, SelectSays DEF SelectByName
      <4> QED
        BY <1>3, <3>4, <4>1 DEF Sense
    <3> QED
      BY <3>1, <3>2, <3>3, <3>4
  <2> HIDE DEF inserts, selects
  <2> QED
    BY <1>1, <1>11, <2>1, <2>2
<1> QED
  BY <1>8, <1>11 DEF L, D

\* The parser and the sentences of the language agree on every text: sql_parse
\* refuses it exactly if no request has its lexemes as a sentence, and otherwise
\* execute_statement makes the one request that has (the whole of src/sql.c).
THEOREM ParserIsRight ==
  ASSUME NEW s \in Seq(Chars)
  PROVE  IF SqlParse(s) = Refused THEN Denoted(s) = {}
         ELSE Denoted(s) = {ExecuteStatement(SqlParse(s))}
<1>1. PICK F : Cuts(s, F) /\ Lexemes(s) = F[1]
  BY LexemesAreCut
<1>2. \E S : Lexemes(s) \in Seq(S)
  <2>1. PICK S : F \in [1..Len(s) + 1 -> Seq(S)]
    BY <1>1 DEF Cuts
  <2>2. 1 \in 1..Len(s) + 1
    BY LenProperties
  <2> QED
    BY <1>1, <2>1, <2>2
<1> DEFINE L == Lexemes(s)  v == SqlParse(s)
<1>3. /\ v # Refused => Sense(L, v)
      /\ \A w : Sense(L, w) => v = w
  BY <1>1, SqlRead
<1>4. /\ \A w : Sense(L, w) => ExecuteStatement(w) \in Denoted(s)
      /\ \A r \in Denoted(s) : \E w : Sense(L, w) /\ r = ExecuteStatement(w)
  BY <1>2, DenotedIs
<1>5. \A w : Sense(L, w) => w # Refused
  BY StatementsAreSome DEF Sense
<1> HIDE DEF L, v
<1>6. \A r \in Denoted(s) : v # Refused /\ r = ExecuteStatement(v)
  BY <1>3, <1>4, <1>5
<1>7. v # Refused => ExecuteStatement(v) \in Denoted(s)
  BY <1>3, <1>4
<1> QED
  BY <1>6, <1>7 DEF v

-----------------------------------------------------------------------------
(* Blanks around a text.                                                   *)

\* There is one way to cut a text.
LEMMA CutsAgree ==
  ASSUME NEW s \in Seq(Chars), NEW F, Cuts(s, F), NEW G, Cuts(s, G)
  PROVE  F[1] = G[1]
<1> DEFINE m == Len(s) + 1
           T == {d \in Nat : \A i \in 1..m : i >= m - d => F[i] = G[i]}
<1>1. Len(s) \in Nat /\ m \in Nat
  BY LenProperties
<1>2. 0 \in T
  <2>1. \A i \in 1..m : i >= m - 0 => i = m
    BY <1>1
  <2>2. F[m] = G[m]
    BY DEF Cuts
  <2> HIDE DEF m
  <2> QED
    BY <2>1, <2>2
<1>3. ASSUME NEW d \in 0..m - 1, d \in T PROVE d + 1 \in T
  <2>1. ASSUME NEW i \in 1..m, i >= m - (d + 1) PROVE F[i] = G[i]
    <3>1. CASE i >= m - d
      BY <1>3, <2>1, <3>1
    <3>2. CASE ~(i >= m - d)
      <4>1. i \in 1..Len(s) /\ i + 1 \in 1..m /\ i + 1 >= m - d
        BY <1>1, <2>1, <3>2
      <4> DEFINE e == EndOfLexeme(s, i)
      <4>2. e \in i..Len(s)
        BY <4>1, EndIs
      <4>3. /\ F[i] = IF s[i] \in Blanks THEN F[i + 1] ELSE <<LexemeAt(s, i)>> \o F[e + 1]
            /\ G[i] = IF s[i] \in Blanks THEN G[i + 1] ELSE <<LexemeAt(s, i)>> \o G[e + 1]
        BY <4>1 DEF Cuts
      <4> HIDE DEF e
      <4>4. e + 1 \in 1..m /\ e + 1 >= m - d
        BY <1>1, <4>1, <4>2
      <4>5. F[i + 1] = G[i + 1] /\ F[e + 1] = G[e + 1]
        BY <1>3, <4>1, <4>4
      <4> QED
        BY <4>3, <4>5
    <3> QED
      BY <3>1, <3>2
  <2> QED
    BY <2>1
<1> HIDE DEF T
<1>4. m \in T
  <2>1. 0..m \subseteq T
    BY <1>1, <1>2, <1>3, SetInduction
  <2> QED
    BY <1>1, <2>1
<1>5. 1 \in 1..m /\ 1 >= m - m
  BY <1>1
<1> QED
  BY <1>4, <1>5 DEF T

\* A lexeme does not end in a blank.
LEMMA LongEndsSolid ==
  ASSUME NEW s \in Seq(Chars), NEW i \in 1..Len(s), NEW j \in i..Len(s), IsLong(SubSeq(s, i, j))
  PROVE  s[j] \notin Blanks
<1>1. Len(s) \in Nat /\ i \in Nat /\ j \in i..j
  BY LenProperties
<1>2. i < j => j \in i + 1..j
  BY <1>1
<1>3. CASE IsWord(SubSeq(s, i, j))
  BY <1>1, <1>3, LongIs, KindsDiffer
<1>4. CASE IsUnsigned(SubSeq(s, i, j))
  BY <1>1, <1>4, LongIs, KindsDiffer
<1>5. CASE IsSigned(SubSeq(s, i, j))
  BY <1>2, <1>5, LongIs, KindsDiffer
<1>6. CASE IsString(SubSeq(s, i, j))
  <2>1. s[j] = "'"
    BY <1>6, LongIs
  <2> QED
    BY <2>1 DEF Blanks
<1> QED
  BY <1>3, <1>4, <1>5, <1>6 DEF IsLong

\* The parts of a part.
LEMMA PartOfPart ==
  ASSUME NEW s \in Seq(Chars), NEW a \in 1..Len(s), NEW b \in a..Len(s),
         NEW i \in 1..b - a + 1, NEW j \in i..b - a + 1
  PROVE  SubSeq(SubSeq(s, a, b), i, j) = SubSeq(s, a + i - 1, a + j - 1)
<1>1. Len(s) \in Nat /\ b \in 1..Len(s) /\ j \in 1..b - a + 1
  BY LenProperties
<1> QED
  BY <1>1, SubSeqOfSubSeq

\* Blanks around a text do not change its lexemes.
LEMMA BlanksAround ==
  ASSUME NEW s \in Seq(Chars), NEW a \in 1..Len(s), NEW b \in a..Len(s),
         \A j \in 1..a - 1 : s[j] \in Blanks, \A j \in b + 1..Len(s) : s[j] \in Blanks,
         s[a] \notin Blanks
  PROVE  Lexemes(SubSeq(s, a, b)) = Lexemes(s)
<1> DEFINE u == SubSeq(s, a, b)
           n == b - a + 1
<1>1. Len(s) \in Nat /\ a \in Nat /\ b \in Nat /\ n \in Nat /\ a + n - 1 = b /\ n >= 1
  BY LenProperties
<1>2. u \in Seq(Chars) /\ Len(u) = n /\ \A k \in 1..n : u[k] = s[a + k - 1]
  BY PartIs
<1>3. \A i \in 1..n : \A j \in i..n : SubSeq(u, i, j) = SubSeq(s, a + i - 1, a + j - 1)
  BY PartOfPart
<1> HIDE DEF u, n
<1>4. ASSUME NEW i \in 1..n
      PROVE  /\ EndOfLexeme(u, i) \in i..n
             /\ EndOfLexeme(s, a + i - 1) = a + EndOfLexeme(u, i) - 1
             /\ LexemeAt(u, i) = LexemeAt(s, a + i - 1)
  <2> DEFINE e == EndOfLexeme(u, i)  k == a + i - 1  x == a + e - 1
  <2>1. /\ e \in i..n /\ (e = i \/ IsLong(SubSeq(u, i, e)))
        /\ \A j \in i..n : IsLong(SubSeq(u, i, j)) => j <= e
    BY <1>2, EndIs
  <2> HIDE DEF e
  <2>2. k \in 1..Len(s) /\ x \in k..Len(s) /\ (e = i => x = k)
    BY <1>1, <2>1
  <2>3. SubSeq(u, i, e) = SubSeq(s, k, x)
    BY <1>3, <2>1
  <2>4. ASSUME NEW j \in x + 1..Len(s) PROVE ~IsLong(SubSeq(s, k, j))
    <3>1. CASE j <= b
      <4> DEFINE y == j - a + 1
      <4>1. y \in i..n /\ ~(y <= e) /\ a + y - 1 = j
        BY <1>1, <2>1, <2>2, <3>1
      <4> HIDE DEF y, k
      <4>2. ~IsLong(SubSeq(u, i, y))
        BY <2>1, <4>1
      <4>3. SubSeq(u, i, y) = SubSeq(s, a + i - 1, j)
        BY <1>3, <4>1
      <4> QED
        BY <4>2, <4>3 DEF k
    <3>2. CASE ~(j <= b)
      <4>1. j \in b + 1..Len(s) /\ j \in k..Len(s)
        BY <1>1, <2>2, <3>2
      <4>2. s[j] \in Blanks
        BY <4>1
      <4> HIDE DEF k
      <4> QED
        BY <2>2, <4>1, <4>2, LongEndsSolid
    <3> QED
      BY <3>1, <3>2
  <2> HIDE DEF k, x
  <2>5. EndOfLexeme(s, k) = x
    BY <2>1, <2>2, <2>3, <2>4, LexemeEnds
  <2>6. LexemeAt(u, i) = LexemeAt(s, k)
    BY <2>3, <2>5 DEF LexemeAt, e
  <2> QED
    BY <2>1, <2>5, <2>6 DEF e, k, x
<1>5. PICK F : Cuts(s, F) /\ Lexemes(s) = F[1]
  BY LexemesAreCut
<1>6. PICK G : Cuts(u, G) /\ Lexemes(u) = G[1]
  BY <1>2, LexemesAreCut
<1>7. F[1] = F[a] /\ F[b + 1] = <<>>
  <2>1. /\ 1 \in 1..Len(s) + 1 /\ b + 1 \in 1..Len(s) + 1
    BY <1>1
  <2> DEFINE x == Skip(s, 1, Blanks)  y == Skip(s, b + 1, Blanks)
  <2>2. /\ x \in 1..Len(s) + 1 /\ (\A j \in 1..x - 1 : s[j] \in Blanks)
        /\ x <= Len(s) => s[x] \notin Blanks
    BY <2>1, SkipIs
  <2>3. y \in b + 1..Len(s) + 1 /\ (y <= Len(s) => s[y] \notin Blanks)
    BY <2>1, SkipIs
  <2>4. F[1] = F[x] /\ F[b + 1] = F[y]
    BY <1>5, <2>1, BlanksAreSkipped
  <2> HIDE DEF x, y
  <2>5. x = a
    <3>1. ~(x < a)
      <4> SUFFICES ASSUME x < a PROVE FALSE
        OBVIOUS
      <4>1. x \in 1..a - 1 /\ x <= Len(s)
        BY <1>1, <2>2
      <4> QED
        BY <2>2, <4>1
    <3>2. ~(x > a)
      <4> SUFFICES ASSUME x > a PROVE FALSE
        OBVIOUS
      <4>1. a \in 1..x - 1
        BY <1>1, <2>2
      <4> QED
        BY <2>2, <4>1
    <3> QED
      BY <1>1, <2>2, <3>1, <3>2
  <2>6. y = Len(s) + 1
    <3> SUFFICES ASSUME y # Len(s) + 1 PROVE FALSE
      OBVIOUS
    <3>1. y \in b + 1..Len(s)
      BY <1>1, <2>3
    <3> QED
      BY <1>1, <2>3, <3>1
  <2>7. F[Len(s) + 1] = <<>>
    BY <1>5 DEF Cuts
  <2> QED
    BY <2>4, <2>5, <2>6, <2>7
<1> DEFINE H == [i \in 1..n + 1 |-> F[a + i - 1]]
<1>8. Cuts(u, H)
  <2>1. PICK S : F \in [1..Len(s) + 1 -> Seq(S)]
    BY <1>5 DEF Cuts
  <2>2. H \in [1..Len(u) + 1 -> Seq(S)]
    <3>1. \A i \in 1..n + 1 : a + i - 1 \in 1..Len(s) + 1
      BY <1>1
    <3>2. \A i \in 1..n + 1 : F[a + i - 1] \in Seq(S)
      BY <2>1, <3>1
    <3> QED
      BY <1>2, <3>2
  <2>3. H[Len(u) + 1] = <<>>
    <3>1. n + 1 \in 1..n + 1 /\ a + (n + 1) - 1 = b + 1
      BY <1>1
    <3> QED
      BY <1>2, <1>7, <3>1
  <2>4. ASSUME NEW i \in 1..n
        PROVE  H[i] = IF u[i] \in Blanks THEN H[i + 1]
                      ELSE <<LexemeAt(u, i)>> \o H[EndOfLexeme(u, i) + 1]
    <3> DEFINE e == EndOfLexeme(u, i)  k == a + i - 1
    <3>1. /\ e \in i..n /\ EndOfLexeme(s, k) = a + e - 1 /\ LexemeAt(u, i) = LexemeAt(s, k)
      BY <1>4
    <3>2. k \in 1..Len(s) /\ u[i] = s[k]
      BY <1>1, <1>2
    <3>3. F[k] = IF s[k] \in Blanks THEN F[k + 1]
                 ELSE <<LexemeAt(s, k)>> \o F[EndOfLexeme(s, k) + 1]
      BY <1>5, <3>2 DEF Cuts
    <3> HIDE DEF e
    <3>4. /\ i \in 1..n + 1 /\ i + 1 \in 1..n + 1 /\ e + 1 \in 1..n + 1
          /\ a + (i + 1) - 1 = k + 1 /\ a + (e + 1) - 1 = a + e - 1 + 1
      BY <1>1, <3>1
    <3>5. H[i] = F[k] /\ H[i + 1] = F[k + 1] /\ H[e + 1] = F[a + e - 1 + 1]
      BY <3>4
    <3> HIDE DEF H, k
    <3> QED
      BY <3>1, <3>2, <3>3, <3>5 DEF e
  <2> HIDE DEF H
  <2> QED
    BY <1>2, <2>2, <2>3, <2>4 DEF Cuts
<1>9. H[1] = F[a]
  <2>1. 1 \in 1..n + 1 /\ a + 1 - 1 = a
    BY <1>1
  <2> QED
    BY <2>1
<1> HIDE DEF H
<1>10. G[1] = H[1]
  BY <1>2, <1>6, <1>8, CutsAgree
<1> QED
  BY <1>5, <1>6, <1>7, <1>9, <1>10 DEF u

-----------------------------------------------------------------------------
(* The query in a JSON object.                                             *)

\* The character c in front of the rest of a string, if that could be read.
More(c, rest) == IF rest.ok THEN [rest EXCEPT !.sql = <<c>> \o @] ELSE NoSql

\* A record with another text.
LEMMA OtherSql ==
  ASSUME NEW b, NEW x, NEW y
  PROVE  [[ok |-> b, sql |-> x] EXCEPT !.sql = y] = [ok |-> b, sql |-> y]
<1> DEFINE r == [ok |-> b, sql |-> x]
<1>1. r = [k \in {"ok", "sql"} |-> IF k = "ok" THEN b ELSE x]
  OBVIOUS
<1>2. [r EXCEPT !.sql = y] = [k \in {"ok", "sql"} |-> IF k = "ok" THEN b ELSE y]
  BY <1>1
<1>3. [ok |-> b, sql |-> y] = [k \in {"ok", "sql"} |-> IF k = "ok" THEN b ELSE y]
  OBVIOUS
<1> QED
  BY <1>2, <1>3

\* One character more in front of what has been read.
LEMMA MoreIs ==
  ASSUME NEW c, NEW x
  PROVE  More(c, [ok |-> TRUE, sql |-> x]) = [ok |-> TRUE, sql |-> <<c>> \o x]
<1> DEFINE y == <<c>> \o x
           rest == [ok |-> TRUE, sql |-> x]
<1>1. rest.ok /\ rest.sql = x
  OBVIOUS
<1>2. More(c, rest) = [rest EXCEPT !.sql = y]
  BY <1>1 DEF More
<1> HIDE DEF y
<1>3. [rest EXCEPT !.sql = y] = [ok |-> TRUE, sql |-> y]
  BY OtherSql
<1> QED
  BY <1>2, <1>3 DEF y

\* What extract_json_sql does at each place of a string.
Strings(body, first, r) ==
  \A i \in first..Len(body) :
    /\ At(body, i) = "quote" => r[i] = [ok |-> TRUE, sql |-> <<>>]
    /\ At(body, i) = "bslash" /\ At(body, i + 1) \in Escapes =>
         r[i] = More(Unescaped(At(body, i + 1)), r[i + 2])
    /\ At(body, i) = "bslash" /\ At(body, i + 1) \notin Escapes => r[i] = NoSql
    /\ At(body, i) \notin {"quote", "bslash"} => r[i] = More(At(body, i), r[i + 1])

\* JsonString is a function that Strings describes.
LEMMA JsonStringIs ==
  ASSUME NEW body \in Seq(Chars), NEW first \in 1..Len(body) + 1
  PROVE  \E r : Strings(body, first, r) /\ JsonString(body, first) = r[first]
<1> DEFINE m == Len(body) + 1
           Known(i) == At(body, i) = "bslash" /\ At(body, i + 1) \in Escapes
           Unknown(i) == At(body, i) = "bslash" /\ At(body, i + 1) \notin Escapes
           K == {i \in 1..m : i = m \/ Unknown(i)}
           next == [i \in 1..m |-> IF At(body, i) = "quote" THEN m
                                   ELSE IF Known(i) THEN i + 2 ELSE i + 1]
           chars == [i \in 1..m |-> IF At(body, i) = "quote" THEN <<>>
                                    ELSE IF Known(i) THEN <<Unescaped(At(body, i + 1))>>
                                    ELSE <<At(body, i)>>]
           ends == [i \in 1..m |-> IF At(body, i) = "quote" THEN <<"end">> ELSE <<>>]
           S == Chars \cup {"nul", "end"}
           Body(r, i) ==
             CASE At(body, i) = "nul" -> NoSql
               [] At(body, i) = "quote" -> [ok |-> TRUE, sql |-> <<>>]
               [] At(body, i) = "bslash" /\ At(body, i + 1) \in Escapes ->
                    More(Unescaped(body[i + 1]), r[i + 2])
               [] At(body, i) = "bslash" /\ At(body, i + 1) \notin Escapes -> NoSql
               [] OTHER -> More(body[i], r[i + 1])
           Eq(r) == r = [i \in first..m |-> Body(r, i)]
           string == CHOOSE r : Eq(r)
<1>1. Len(body) \in Nat /\ m \in Nat /\ m = Len(body) + 1 /\ first \in 1..m
  BY LenProperties
<1>2. /\ \A i \in 1..Len(body) : At(body, i) = body[i] /\ At(body, i) \in Chars
      /\ \A i \in Int : i \notin 1..Len(body) => At(body, i) = "nul"
  BY ElementOfSeq DEF At
<1>3. \A i \in Int : At(body, i) \in S
  BY <1>2
<1>4. \A x \in S : Unescaped(x) \in S
  <2>1. {"lf", "cr", "tab"} \subseteq S
    BY DEF Chars, Blanks
  <2> QED
    BY <2>1 DEF Unescaped
<1>5. "nul" \notin Escapes /\ "nul" \notin Chars
  BY KindsDiffer DEF Escapes
<1>6. "end" \in S
  OBVIOUS
<1>7. \A i \in 1..m : i # m => i \in 1..Len(body) /\ i \in Int /\ i + 1 \in Int
  BY <1>1
<1> HIDE DEF m, S
<1>8. ASSUME NEW i \in 1..m, i \notin K
      PROVE  /\ chars[i] \in Seq(S) /\ ends[i] \in Seq(S) /\ next[i] \in i + 1..m
             /\ i \in 1..Len(body) /\ At(body, i) # "nul" /\ ~Unknown(i)
             /\ Known(i) => i + 1 \in 1..Len(body)
  <2>1. i \in 1..Len(body) /\ i \in Int /\ i + 1 \in Int /\ ~Unknown(i) /\ i # m
    BY <1>7, <1>8
  <2>2. Known(i) => i + 1 \in 1..Len(body)
    BY <1>2, <1>5, <2>1
  <2>3. next[i] = IF At(body, i) = "quote" THEN m ELSE IF Known(i) THEN i + 2 ELSE i + 1
    BY <2>1
  <2>4. next[i] \in i + 1..m
    <3>1. i + 1 \in 1..Len(body) => i + 2 \in i + 1..m
      BY <1>1, <2>1
    <3>2. m \in i + 1..m /\ i + 1 \in i + 1..m
      BY <1>1, <2>1
    <3> QED
      BY <2>2, <2>3, <3>1, <3>2
  <2>5. chars[i] = <<>> \/ \E x \in S : chars[i] = <<x>>
    BY <1>3, <1>4, <2>1
  <2>6. ends[i] = <<>> \/ \E x \in S : ends[i] = <<x>>
    BY <1>6
  <2>7. <<>> \in Seq(S) /\ \A x \in S : <<x>> \in Seq(S)
    BY EmptySeq
  <2> HIDE DEF chars, ends, next, K
  <2>8. At(body, i) # "nul"
    BY <1>2, <1>5, <2>1
  <2> QED
    BY <2>1, <2>2, <2>4, <2>5, <2>6, <2>7, <2>8
<1>9. \A i \in K : i = m \/ Unknown(i)
  OBVIOUS
<1>10. \A i \in 1..m :
         /\ next[i] = IF At(body, i) = "quote" THEN m ELSE IF Known(i) THEN i + 2 ELSE i + 1
         /\ chars[i] = IF At(body, i) = "quote" THEN <<>>
                       ELSE IF Known(i) THEN <<Unescaped(At(body, i + 1))>>
                       ELSE <<At(body, i)>>
         /\ ends[i] = IF At(body, i) = "quote" THEN <<"end">> ELSE <<>>
  OBVIOUS
<1>11. m \in K
  BY <1>1
<1> HIDE DEF K, chars, ends, next
<1>12. PICK f \in [1..m -> Seq(S)] : Looks(m, K, chars, next, f)
  BY <1>1, <1>8, LooksExist
<1>13. PICK h \in [1..m -> Seq(S)] : Looks(m, K, ends, next, h)
  BY <1>1, <1>8, LooksExist
<1> DEFINE Read(i) == IF h[i] # <<>> THEN [ok |-> TRUE, sql |-> f[i]] ELSE NoSql
           g == [i \in first..m |-> Read(i)]
<1>14. ASSUME NEW i \in first..m PROVE g[i] = Body(g, i)
  <2>1. i \in 1..m /\ m \in 1..m
    BY <1>1
  <2>2. /\ f[i] = IF i \in K THEN <<>> ELSE chars[i] \o f[next[i]]
        /\ h[i] = IF i \in K THEN <<>> ELSE ends[i] \o h[next[i]]
    BY <1>12, <1>13, <2>1 DEF Looks
  <2>3. f[m] = <<>> /\ h[m] = <<>>
    BY <1>11, <1>12, <1>13, <2>1 DEF Looks
  <2>4. g[i] = Read(i)
    OBVIOUS
  <2>5. CASE i \in K
    <3>1. g[i] = NoSql
      BY <2>2, <2>4, <2>5
    <3>2. CASE i = m
      <4>1. At(body, i) = "nul"
        BY <1>1, <1>2, <3>2
      <4> HIDE DEF g
      <4> QED
        BY <3>1, <4>1
    <3>3. CASE Unknown(i)
      <4> HIDE DEF g
      <4> QED
        BY <3>1, <3>3
    <3> QED
      BY <1>9, <2>5, <3>2, <3>3
  <2>6. CASE i \notin K
    <3>1. /\ i \in 1..Len(body) /\ At(body, i) # "nul" /\ ~Unknown(i) /\ next[i] \in i + 1..m
          /\ Known(i) => i + 1 \in 1..Len(body)
      BY <1>8, <2>1, <2>6
    <3>2. next[i] \in first..m /\ next[i] \in 1..m
      BY <1>1, <3>1
    <3>3. /\ f[next[i]] \in Seq(S) /\ h[next[i]] \in Seq(S) /\ g[next[i]] = Read(next[i])
      BY <3>2
    <3>4. f[i] = chars[i] \o f[next[i]] /\ h[i] = ends[i] \o h[next[i]]
      BY <2>2, <2>6
    <3> HIDE DEF g
    <3>5. CASE At(body, i) = "quote"
      <4>1. next[i] = m /\ chars[i] = <<>> /\ ends[i] = <<"end">>
        BY <1>10, <2>1, <3>5
      <4>2. f[i] = <<>> /\ h[i] = <<"end">>
        <5>1. <<>> \in Seq(S) /\ <<"end">> \in Seq(S)
          BY <1>6, EmptySeq
        <5> QED
          BY <2>3, <3>4, <4>1, <5>1, ConcatEmptySeq
      <4>3. <<"end">> # <<>>
        OBVIOUS
      <4>4. g[i] = [ok |-> TRUE, sql |-> <<>>]
        BY <2>4, <4>2, <4>3
      <4> QED
        BY <3>5, <4>4
    <3>6. ASSUME NEW c, chars[i] = <<c>>, ends[i] = <<>>
          PROVE  g[i] = More(c, g[next[i]])
      <4>1. h[i] = h[next[i]]
        BY <3>3, <3>4, <3>6, ConcatEmptySeq
      <4>2. f[i] = <<c>> \o f[next[i]]
        BY <3>4, <3>6
      <4>3. CASE h[next[i]] # <<>>
        <5>1. g[next[i]] = [ok |-> TRUE, sql |-> f[next[i]]]
          BY <3>3, <4>3
        <5>2. g[i] = [ok |-> TRUE, sql |-> <<c>> \o f[next[i]]]
          BY <2>4, <4>1, <4>2, <4>3
        <5> QED
          BY <5>1, <5>2, MoreIs
      <4>4. CASE h[next[i]] = <<>>
        BY <2>4, <3>3, <4>1, <4>4 DEF More, NoSql
      <4> QED
        BY <4>3, <4>4
    <3>7. CASE Known(i)
      <4>1. At(body, i + 1) = body[i + 1]
        BY <1>2, <3>1, <3>7
      <4>2. g[i] = More(Unescaped(At(body, i + 1)), g[i + 2])
        BY <1>10, <2>1, <3>6, <3>7
      <4> QED
        BY <3>7, <4>1, <4>2
    <3>8. CASE At(body, i) \notin {"quote", "bslash"}
      <4>1. At(body, i) = body[i]
        BY <1>2, <3>1
      <4>2. g[i] = More(At(body, i), g[i + 1])
        BY <1>10, <2>1, <3>6, <3>8
      <4> QED
        BY <3>1, <3>8, <4>1, <4>2
    <3> QED
      BY <3>1, <3>5, <3>7, <3>8
  <2> QED
    BY <2>5, <2>6
<1> HIDE DEF Body
<1>15. Eq(string)
  <2>1. Eq(g)
    BY <1>14
  <2> HIDE DEF g
  <2> QED
    BY <2>1
<1>16. JsonString(body, first) = string[first]
  BY DEF JsonString, Body, More, m
<1> HIDE DEF string
<1>17. ASSUME NEW i \in first..Len(body)
       PROVE  string[i] = Body(string, i) /\ At(body, i) # "nul" /\ At(body, i) = body[i]
              /\ (Known(i) => At(body, i + 1) = body[i + 1])
  <2>1. i \in first..m /\ i \in 1..Len(body) /\ i + 1 \in Int
    BY <1>1
  <2>2. string = [j \in first..m |-> Body(string, j)]
    BY <1>15
  <2>3. string[i] = [j \in first..m |-> Body(string, j)][i]
    BY <2>2
  <2>4. string[i] = Body(string, i)
    BY ONLY <2>1, <2>3
  <2> QED
    BY <1>2, <1>5, <2>1, <2>4
<1>18. Strings(body, first, string)
  BY <1>17 DEF Body, Strings
<1> QED
  BY <1>16, <1>18

\* The escape of c stands in s behind the first p characters.
EscapedAt(s, p, c) ==
  /\ p + Len(JsonEscape(c)) <= Len(s)
  /\ \A j \in 1..Len(JsonEscape(c)) : s[p + j] = JsonEscape(c)[j]

\* A character that JSON can be given in an escape that extract_json_sql knows
\* is read back; the reading ends at the others.
LEMMA EscapeIsString ==
  ASSUME NEW s \in Seq(Chars), NEW first \in 1..Len(s) + 1, NEW r, Strings(s, first, r),
         NEW c \in Chars, NEW p \in Nat, p + 1 >= first, EscapedAt(s, p, c)
  PROVE  r[p + 1] = IF c = "vt" THEN NoSql ELSE More(c, r[p + Len(JsonEscape(c)) + 1])
<1> USE DEF EscapedAt
<1>1. Len(s) \in Nat
  BY LenProperties
<1>2. CASE c \in {"quote", "bslash"}
  <2>1. JsonEscape(c) = <<"bslash", c>>
    BY <1>2 DEF JsonEscape
  <2>2. Len(JsonEscape(c)) = 2 /\ JsonEscape(c)[1] = "bslash" /\ JsonEscape(c)[2] = c
    BY <2>1
  <2>3. /\ p + 1 \in first..Len(s) /\ p + 1 \in 1..Len(s) /\ s[p + 1] = "bslash"
        /\ p + 1 + 1 \in 1..Len(s) /\ s[p + 2] = c /\ p + 1 + 1 = p + 2
    BY <1>1, <2>2
  <2>4. At(s, p + 1) = "bslash" /\ At(s, p + 1 + 1) = c
    BY <2>3 DEF At
  <2>5. Unescaped(c) = c /\ c \in Escapes /\ c # "vt"
    BY <1>2 DEF Unescaped, Escapes
  <2>6. r[p + 1] = More(c, r[p + 1 + 2])
    BY <2>3, <2>4, <2>5 DEF Strings
  <2>7. p + 1 + 2 = p + 2 + 1
    OBVIOUS
  <2> QED
    BY <2>2, <2>5, <2>6, <2>7
<1>3. CASE c \in {"lf", "cr", "tab"}
  <2>1. PICK x \in {"n", "r", "t"} : JsonEscape(c) = <<"bslash", x>> /\ Unescaped(x) = c
    <3>1. CASE c = "lf"
      BY <3>1 DEF JsonEscape, Unescaped
    <3>2. CASE c = "cr"
      BY <3>2 DEF JsonEscape, Unescaped
    <3>3. CASE c = "tab"
      BY <3>3 DEF JsonEscape, Unescaped
    <3> QED
      BY <1>3, <3>1, <3>2, <3>3
  <2>2. Len(JsonEscape(c)) = 2 /\ JsonEscape(c)[1] = "bslash" /\ JsonEscape(c)[2] = x
    BY <2>1
  <2>3. /\ p + 1 \in first..Len(s) /\ p + 1 \in 1..Len(s) /\ s[p + 1] = "bslash"
        /\ p + 1 + 1 \in 1..Len(s) /\ s[p + 2] = x /\ p + 1 + 1 = p + 2
    BY <1>1, <2>2
  <2>4. At(s, p + 1) = "bslash" /\ At(s, p + 1 + 1) = x /\ x \in Escapes /\ c # "vt"
    BY <1>3, <2>3 DEF At, Escapes
  <2>5. r[p + 1] = More(c, r[p + 1 + 2])
    BY <2>1, <2>3, <2>4 DEF Strings
  <2>6. p + 1 + 2 = p + 2 + 1
    OBVIOUS
  <2> QED
    BY <2>2, <2>4, <2>5, <2>6
<1>4. CASE c = "vt"
  <2>1. JsonEscape(c) = <<"bslash", "u", "0", "0", "0", "b">>
    BY <1>4 DEF JsonEscape
  <2>2. Len(JsonEscape(c)) = 6 /\ JsonEscape(c)[1] = "bslash" /\ JsonEscape(c)[2] = "u"
    BY <2>1
  <2>3. /\ p + 1 \in first..Len(s) /\ p + 1 \in 1..Len(s) /\ s[p + 1] = "bslash"
        /\ p + 1 + 1 \in 1..Len(s) /\ s[p + 2] = "u" /\ p + 1 + 1 = p + 2
    BY <1>1, <2>2
  <2>4. At(s, p + 1) = "bslash" /\ At(s, p + 1 + 1) \notin Escapes
    BY <2>3 DEF At, Escapes
  <2>5. r[p + 1] = NoSql
    BY <2>3, <2>4 DEF Strings
  <2> QED
    BY <1>4, <2>5
<1>5. CASE c \notin {"quote", "bslash", "lf", "cr", "tab", "vt"}
  <2>1. JsonEscape(c) = <<c>>
    BY <1>5 DEF JsonEscape
  <2>2. Len(JsonEscape(c)) = 1 /\ JsonEscape(c)[1] = c
    BY <2>1
  <2>3. p + 1 \in first..Len(s) /\ p + 1 \in 1..Len(s) /\ s[p + 1] = c
    BY <1>1, <2>2
  <2>4. At(s, p + 1) = c
    BY <2>3 DEF At
  <2>5. r[p + 1] = More(c, r[p + 1 + 1])
    BY <1>5, <2>3, <2>4 DEF Strings
  <2> QED
    BY <1>5, <2>2, <2>5
<1> QED
  BY <1>2, <1>3, <1>4, <1>5

\* Behind place o of s stands t, with escapes, and a quote behind that.
Quoted(t, s, o) ==
  /\ o + Len(JsonEscapeDup(t)) < Len(s)
  /\ s[o + Len(JsonEscapeDup(t)) + 1] = "quote"
  /\ \A i \in 1..Len(JsonEscapeDup(t)) : s[o + i] = JsonEscapeDup(t)[i]

\* The string that json_escape_dup has written for t is read as t, unless t holds
\* a character whose escape is not known.
LEMMA EscapesAreString ==
  ASSUME NEW t \in Seq(Chars), NEW s \in Seq(Chars), NEW o \in Nat, NEW r,
         Strings(s, o + 1, r), Quoted(t, s, o)
  PROVE  r[o + 1] = IF "vt" \in Range(t) THEN NoSql ELSE [ok |-> TRUE, sql |-> t]
<1>1. PICK E \in [0..Len(t) -> Seq(Chars)] :
        Escaping(t, E) /\ JsonEscapeDup(t) = E[Len(t)]
  BY EscapingIs
<1> DEFINE n == Len(t)
           Legal(k) == \A i \in k..n : t[i] # "vt"
           U == {d \in Nat : d <= n =>
                   r[o + Len(E[n - d]) + 1] =
                     IF Legal(n - d + 1) THEN [ok |-> TRUE, sql |-> SubSeq(t, n - d + 1, n)]
                     ELSE NoSql}
<1>2. n \in Nat /\ Len(s) \in Nat /\ \A i \in 0..n : Len(E[i]) \in Nat
  BY LenProperties
<1>3. /\ JsonEscapeDup(t) = E[n] /\ o + Len(E[n]) < Len(s) /\ s[o + Len(E[n]) + 1] = "quote"
      /\ \A i \in 1..Len(E[n]) : s[o + i] = E[n][i]
  BY <1>1 DEF Quoted
<1>4. ASSUME NEW k \in 0..n - 1
      PROVE  /\ t[k + 1] \in Chars
             /\ Len(E[k + 1]) = Len(E[k]) + Len(JsonEscape(t[k + 1]))
             /\ Len(E[k + 1]) <= Len(E[n])
             /\ \A j \in 1..Len(JsonEscape(t[k + 1])) :
                  E[n][Len(E[k]) + j] = JsonEscape(t[k + 1])[j]
  BY <1>1, EscapePlaces
<1>5. Len(E[0]) = 0
  <2>1. E[0] = <<>>
    BY <1>1 DEF Escaping
  <2> QED
    BY <2>1, EmptySeq
<1> HIDE DEF n
<1>6. 0 \in U
  <2>1. /\ Len(E[n]) \in Nat /\ o + Len(E[n]) + 1 \in o + 1..Len(s)
        /\ o + Len(E[n]) + 1 \in 1..Len(s) /\ n - 0 = n /\ n - 0 + 1 > n
    BY <1>2, <1>3
  <2>2. At(s, o + Len(E[n]) + 1) = "quote"
    BY <1>3, <2>1 DEF At
  <2>3. r[o + Len(E[n]) + 1] = [ok |-> TRUE, sql |-> <<>>]
    BY <2>1, <2>2 DEF Strings
  <2>4. SubSeq(t, n - 0 + 1, n) = <<>>
    BY <1>2, <2>1, SubSeqEmpty
  <2>5. Legal(n - 0 + 1)
    BY <1>2
  <2> HIDE DEF Legal
  <2> QED
    BY <2>1, <2>3, <2>4, <2>5
<1>7. ASSUME NEW d \in 0..n - 1, d \in U PROVE d + 1 \in U
  <2> DEFINE k == n - d - 1
             c == t[k + 1]
             esc == JsonEscape(c)
             p == o + Len(E[k])
             rest == SubSeq(t, k + 2, n)
  <2>1. /\ k \in 0..n - 1 /\ k \in 0..n /\ k + 1 \in 0..n /\ n - (d + 1) = k
        /\ n - d = k + 1 /\ k + 1 \in 1..n /\ n \in k + 1..n /\ d <= n /\ d + 1 \in Nat
        /\ n - d + 1 = k + 2 /\ n - (d + 1) + 1 = k + 1
    BY <1>2
  <2> HIDE DEF k
  <2>2. /\ c \in Chars /\ Len(E[k + 1]) = Len(E[k]) + Len(esc) /\ Len(E[k + 1]) <= Len(E[n])
        /\ \A j \in 1..Len(esc) : E[n][Len(E[k]) + j] = esc[j]
    BY <1>4, <2>1
  <2> HIDE DEF c
  <2>3. Len(E[k]) \in Nat /\ Len(esc) \in 1..6 /\ Len(E[n]) \in Nat
    <3>1. n \in 0..n
      BY <1>2
    <3> QED
      BY <1>2, <2>1, <2>2, <3>1, EscapeOfChar
  <2>4. r[p + 1] = IF c = "vt" THEN NoSql ELSE More(c, r[p + Len(esc) + 1])
    <3> DEFINE x == Len(E[k])
    <3>1. x + Len(esc) <= Len(E[n])
      BY <2>2
    <3>2. \A j \in 1..Len(esc) : s[p + j] = esc[j]
      <4> TAKE j \in 1..Len(esc)
      <4>1. x + j \in 1..Len(E[n]) /\ p + j = o + (x + j)
        <5> HIDE DEF esc
        <5>1. p = o + x /\ x \in Nat
          BY <2>3
        <5> HIDE DEF x, p
        <5> QED
          BY <2>3, <3>1, <5>1
      <4>2. s[o + (x + j)] = E[n][x + j]
        BY <1>3, <4>1
      <4>3. E[n][x + j] = esc[j]
        BY <2>2
      <4> HIDE DEF p, x
      <4> QED
        BY <4>1, <4>2, <4>3
    <3>3. /\ p \in Nat /\ p + 1 >= o + 1 /\ o + 1 \in 1..Len(s) + 1
          /\ p + Len(esc) <= Len(s)
      <4> HIDE DEF esc
      <4>1. p = o + x /\ x \in Nat
        BY <2>3
      <4> HIDE DEF p, x
      <4> QED
        BY <1>2, <1>3, <2>3, <3>1, <4>1
    <3>4. c \in Chars
      BY <2>2
    <3>5. EscapedAt(s, p, c) /\ p \in Nat /\ p + 1 >= o + 1 /\ o + 1 \in 1..Len(s) + 1
      <4> HIDE DEF p
      <4> QED
        BY <3>2, <3>3 DEF EscapedAt
    <3> HIDE DEF p, esc
    <3>6. r[p + 1] = IF c = "vt" THEN NoSql ELSE More(c, r[p + Len(JsonEscape(c)) + 1])
      BY <3>4, <3>5, EscapeIsString
    <3> QED
      BY <3>6 DEF esc
  <2>5. r[p + Len(esc) + 1] =
          IF Legal(k + 2) THEN [ok |-> TRUE, sql |-> rest] ELSE NoSql
    <3>1. p + Len(esc) + 1 = o + Len(E[k + 1]) + 1
      <4> HIDE DEF esc
      <4> QED
        BY <2>2, <2>3
    <3>2. r[o + Len(E[n - d]) + 1] =
            IF Legal(n - d + 1) THEN [ok |-> TRUE, sql |-> SubSeq(t, n - d + 1, n)] ELSE NoSql
      BY <1>7, <2>1
    <3> HIDE DEF p, Legal
    <3> QED
      BY <2>1, <3>1, <3>2
  <2>6. SubSeq(t, k + 1, n) = <<c>> \o rest
    <3>1. k + 1 + 1 = k + 2
      BY <2>1
    <3>2. k + 1 \in 1..Len(t) /\ n \in k + 1..Len(t)
      BY <2>1 DEF n
    <3> QED
      BY <3>1, <3>2, SubSeqRecursiveFirst DEF c
  <2>7. Legal(k + 1) <=> c # "vt" /\ Legal(k + 2)
    <3>1. \A i \in k + 1..n : i = k + 1 \/ i \in k + 2..n
      BY <2>1
    <3>2. \A i \in k + 2..n : i \in k + 1..n
      BY <2>1
    <3>3. k + 1 \in k + 1..n
      BY <2>1
    <3> QED
      BY <3>1, <3>2, <3>3 DEF c
  <2> HIDE DEF Legal
  <2>8. r[p + 1] = IF Legal(k + 1) THEN [ok |-> TRUE, sql |-> SubSeq(t, k + 1, n)] ELSE NoSql
    <3>1. More(c, [ok |-> TRUE, sql |-> rest]) = [ok |-> TRUE, sql |-> <<c>> \o rest]
      BY MoreIs
    <3>2. More(c, NoSql) = NoSql
      BY DEF More, NoSql
    <3> HIDE DEF p, esc, rest
    <3>3. CASE c = "vt"
      BY <2>4, <2>7, <3>3
    <3>4. CASE c # "vt" /\ Legal(k + 2)
      BY <2>4, <2>5, <2>6, <2>7, <3>1, <3>4
    <3>5. CASE c # "vt" /\ ~Legal(k + 2)
      BY <2>4, <2>5, <2>7, <3>2, <3>5
    <3> QED
      BY <3>3, <3>4, <3>5
  <2>9. r[o + Len(E[n - (d + 1)]) + 1] =
          IF Legal(n - (d + 1) + 1)
          THEN [ok |-> TRUE, sql |-> SubSeq(t, n - (d + 1) + 1, n)] ELSE NoSql
    BY <2>1, <2>8
  <2> QED
    BY <2>1, <2>9
<1> HIDE DEF U
<1>8. n \in U
  <2>1. 0..n \subseteq U
    BY <1>2, <1>6, <1>7, SetInduction
  <2> QED
    BY <1>2, <2>1
<1>9. r[o + Len(E[n - n]) + 1] =
        IF Legal(n - n + 1) THEN [ok |-> TRUE, sql |-> SubSeq(t, n - n + 1, n)] ELSE NoSql
  <2> HIDE DEF Legal
  <2>1. n <= n
    BY <1>2
  <2> QED
    BY <1>8, <2>1, Zenon DEF U
<1>10. n - n = 0 /\ n - n + 1 = 1 /\ o + Len(E[0]) + 1 = o + 1
  BY <1>2, <1>5
<1>11. SubSeq(t, 1, n) = t
  BY SubSeqFull DEF n
<1>12. Legal(1) <=> "vt" \notin Range(t)
  <2>1. Range(t) = {t[i] : i \in 1..n}
    BY RangeEquality DEF n
  <2> QED
    BY <2>1
<1> HIDE DEF Legal
<1> QED
  BY <1>9, <1>10, <1>11, <1>12

\* An object with the key at k, whose value is the text t, with escapes.
LEMMA ExtractIs ==
  ASSUME NEW t \in Seq(Chars), NEW body \in Seq(Chars),
         NEW k \in 1..Len(body), NEW c \in k + 3..Len(body), NEW q \in c + 1..Len(body),
         \A i \in 1..k - 1 : body[i] # "quote",
         body[k] = "quote", body[k + 1] = "sql", body[k + 2] = "quote",
         \A i \in k + 3..c - 1 : body[i] \in Blanks, body[c] = ":",
         \A i \in c + 1..q - 1 : body[i] \in Blanks, body[q] = "quote",
         Quoted(t, body, q)
  PROVE  ExtractJsonSql(body) = IF "vt" \in Range(t) THEN NoSql ELSE Sql(t)
<1>1. Len(body) \in Nat /\ k \in Nat /\ c \in Nat /\ q \in Nat /\ k + 2 \in k..Len(body)
  BY LenProperties
<1>2. SqlKey \in Seq(Chars) /\ Len(SqlKey) = 3
      /\ SqlKey[1] = "quote" /\ SqlKey[2] = "sql" /\ SqlKey[3] = "quote"
  <2>1. "quote" \in Chars /\ "sql" \in Chars
    BY DEF Chars, Letters, Keywords
  <2> QED
    BY <2>1 DEF SqlKey
<1>3. Find(body, SqlKey) = k
  <2> DEFINE hits == {i \in 1..Len(body) - Len(SqlKey) + 1 :
                        SubSeq(body, i, i + Len(SqlKey) - 1) = SqlKey}
  <2>1. k \in hits
    <3> DEFINE x == SubSeq(body, k, k + 2)
    <3>1. /\ x \in Seq(Chars) /\ Len(x) = k + 2 - k + 1
          /\ \A j \in 1..k + 2 - k + 1 : x[j] = body[k + j - 1]
      BY <1>1, PartIs
    <3>2. k + 2 - k + 1 = 3 /\ k + 1 - 1 = k /\ k + 2 - 1 = k + 1 /\ k + 3 - 1 = k + 2
      BY <1>1
    <3> HIDE DEF x
    <3>3. Len(x) = 3 /\ x[1] = body[k] /\ x[2] = body[k + 1] /\ x[3] = body[k + 2]
      BY <3>1, <3>2
    <3>4. x = SqlKey
      <4>1. \A j \in 1..Len(x) : x[j] = SqlKey[j]
        <5>1. \A j \in 1..3 : j = 1 \/ j = 2 \/ j = 3
          OBVIOUS
        <5> QED
          BY <1>2, <3>3, <5>1
      <4> QED
        BY <1>2, <3>1, <3>3, <4>1, SeqEqual
    <3>5. k + Len(SqlKey) - 1 = k + 2 /\ k \in 1..Len(body) - Len(SqlKey) + 1
      BY <1>1, <1>2
    <3> QED
      BY <3>4, <3>5 DEF x
  <2>2. ASSUME NEW i \in hits PROVE ~(i < k)
    <3> SUFFICES ASSUME i < k PROVE FALSE
      OBVIOUS
    <3>1. i \in 1..Len(body) /\ i + 2 \in i..Len(body) /\ i + Len(SqlKey) - 1 = i + 2
          /\ i \in 1..k - 1
      BY <1>1, <1>2
    <3>2. SubSeq(body, i, i + 2) = SqlKey
      BY <3>1
    <3>3. 1 \in 1..i + 2 - i + 1 /\ i + 1 - 1 = i
      BY <3>1
    <3>4. SubSeq(body, i, i + 2)[1] = body[i]
      <4>1. \A j \in 1..i + 2 - i + 1 : SubSeq(body, i, i + 2)[j] = body[i + j - 1]
        BY <3>1, PartIs
      <4>2. SubSeq(body, i, i + 2)[1] = body[i + 1 - 1]
        BY <3>3, <4>1
      <4> QED
        BY <3>3, <4>2
    <3> QED
      BY <1>2, <3>1, <3>2, <3>4
  <2>3. hits \subseteq Nat /\ hits # {}
    <3>1. \A i \in hits : i \in Nat
      BY <1>1, <1>2
    <3> HIDE DEF hits
    <3> QED
      BY <2>1, <3>1
  <2>4. Find(body, SqlKey) = Min(hits)
    BY <2>3 DEF Find
  <2> HIDE DEF hits
  <2>5. Min(hits) \in hits /\ \A y \in hits : Min(hits) <= y
    BY <2>3, MinIsLeast
  <2>6. Min(hits) \in Nat /\ Min(hits) <= k /\ ~(Min(hits) < k)
    BY <2>1, <2>2, <2>3, <2>5
  <2> QED
    BY <1>1, <2>4, <2>6
<1>4. Skip(body, k + Len(SqlKey), Blanks) = c
  <2>1. k + 3 \in 1..Len(body) + 1 /\ c \in k + 3..Len(body) + 1
    BY <1>1
  <2>2. body[c] \notin Blanks
    BY DEF Blanks
  <2> QED
    BY <1>2, <2>1, <2>2, RunEnds
<1>5. Skip(body, c + 1, Blanks) = q
  <2>1. c + 1 \in 1..Len(body) + 1 /\ q \in c + 1..Len(body) + 1
    BY <1>1
  <2>2. body[q] \notin Blanks
    BY DEF Blanks
  <2> QED
    BY <2>1, <2>2, RunEnds
<1>6. At(body, c) = ":" /\ At(body, q) = "quote"
  BY <1>1 DEF At
<1> DEFINE value == JsonString(body, q + 1)
<1>7. ExtractJsonSql(body) = IF value.ok THEN Sql(value.sql) ELSE NoSql
  <2>1. k # 0
    OBVIOUS
  <2> HIDE DEF value
  <2> QED
    BY <1>3, <1>4, <1>5, <1>6, <2>1 DEF ExtractJsonSql, value
<1>8. value = IF "vt" \in Range(t) THEN NoSql ELSE [ok |-> TRUE, sql |-> t]
  <2>1. q + 1 \in 1..Len(body) + 1
    BY <1>1
  <2>2. PICK r : Strings(body, q + 1, r) /\ value = r[q + 1]
    BY <2>1, JsonStringIs
  <2>3. r[q + 1] = IF "vt" \in Range(t) THEN NoSql ELSE [ok |-> TRUE, sql |-> t]
    BY <1>1, <2>2, EscapesAreString
  <2> QED
    BY <2>2, <2>3
<1> HIDE DEF value
<1> QED
  BY <1>7, <1>8 DEF NoSql

-----------------------------------------------------------------------------
(* The bodies a client sends.                                              *)

LeftBrace == "{"
RightBrace == "}"

\* http_extract_sql takes a body for JSON if it begins with a brace.
LEMMA HttpExtractIs ==
  ASSUME NEW body
  PROVE  /\ At(body, Skip(body, 1, Blanks)) = LeftBrace =>
              HttpExtractSql(body) = ExtractJsonSql(body)
         /\ At(body, Skip(body, 1, Blanks)) # LeftBrace =>
              HttpExtractSql(body) = CopyRawSql(body)
  BY Zenon DEF HttpExtractSql, LeftBrace

\* Where the characters of three texts stand in the whole.
Parts(x, y, z, body) ==
  /\ body \in Seq(Chars) /\ Len(body) = Len(x) + Len(y) + Len(z)
  /\ \A i \in 1..Len(x) : body[i] = x[i]
  /\ \A i \in 1..Len(y) : body[Len(x) + i] = y[i]
  /\ \A i \in 1..Len(z) : body[Len(x) + Len(y) + i] = z[i]

\* A concatenation has its parts there.
LEMMA ThreeParts ==
  ASSUME NEW x \in Seq(Chars), NEW y \in Seq(Chars), NEW z \in Seq(Chars)
  PROVE  Parts(x, y, z, x \o y \o z)
<1> DEFINE w == x \o y
           body == w \o z
<1>1. Len(x) \in Nat /\ Len(y) \in Nat /\ Len(z) \in Nat
  BY LenProperties
<1>2. /\ w \in Seq(Chars) /\ Len(w) = Len(x) + Len(y)
      /\ \A i \in 1..Len(x) + Len(y) : w[i] = IF i <= Len(x) THEN x[i] ELSE y[i - Len(x)]
  BY ConcatProperties
<1> HIDE DEF w
<1>3. /\ body \in Seq(Chars) /\ Len(body) = Len(w) + Len(z)
      /\ \A i \in 1..Len(w) + Len(z) : body[i] = IF i <= Len(w) THEN w[i] ELSE z[i - Len(w)]
  <2>1. w \in Seq(Chars)
    BY <1>2
  <2> QED
    BY <2>1, ConcatProperties
<1> HIDE DEF body
<1>4. ASSUME NEW i \in 1..Len(x) PROVE body[i] = x[i]
  <2>1. i \in 1..Len(x) + Len(y) /\ i <= Len(x) /\ i <= Len(w) /\ i \in 1..Len(w) + Len(z)
    BY <1>1, <1>2
  <2> QED
    BY <1>2, <1>3, <2>1
<1>5. ASSUME NEW i \in 1..Len(y) PROVE body[Len(x) + i] = y[i]
  <2>1. /\ Len(x) + i \in 1..Len(x) + Len(y) /\ ~(Len(x) + i <= Len(x))
        /\ Len(x) + i <= Len(w) /\ Len(x) + i \in 1..Len(w) + Len(z)
        /\ Len(x) + i - Len(x) = i
    BY <1>1, <1>2
  <2>2. body[Len(x) + i] = w[Len(x) + i]
    BY <1>3, <2>1
  <2>3. w[Len(x) + i] = y[Len(x) + i - Len(x)]
    BY <1>2, <2>1
  <2> QED
    BY <2>1, <2>2, <2>3
<1>6. ASSUME NEW i \in 1..Len(z) PROVE body[Len(x) + Len(y) + i] = z[i]
  <2>1. /\ Len(w) + i \in 1..Len(w) + Len(z) /\ ~(Len(w) + i <= Len(w))
        /\ Len(w) + i - Len(w) = i /\ Len(x) + Len(y) + i = Len(w) + i
    BY <1>1, <1>2
  <2>2. body[Len(w) + i] = z[Len(w) + i - Len(w)]
    BY <1>3, <2>1
  <2> QED
    BY <2>1, <2>2
<1> QED
  <2>1. Parts(x, y, z, body)
    BY <1>2, <1>3, <1>4, <1>5, <1>6 DEF Parts
  <2> QED
    BY <2>1 DEF body, w

\* A body made of p, an escaped text and z.
LEMMA BodyIs ==
  ASSUME NEW p \in Seq(Chars), NEW t \in Seq(Chars), NEW z \in Seq(Chars), Len(z) = 2
  PROVE  LET body == p \o JsonEscapeDup(t) \o z
             n == Len(JsonEscapeDup(t))
         IN  /\ body \in Seq(Chars) /\ n \in Nat /\ Len(body) = Len(p) + n + 2
             /\ \A i \in 1..Len(p) : body[i] = p[i]
             /\ \A i \in 1..n : body[Len(p) + i] = JsonEscapeDup(t)[i]
             /\ body[Len(p) + n + 1] = z[1]
<1> DEFINE e == JsonEscapeDup(t)
           body == p \o e \o z
<1>1. e \in Seq(Chars) /\ Len(e) \in Nat /\ Len(p) \in Nat /\ 1 \in 1..Len(z)
  BY EscapedFits, LenProperties
<1> HIDE DEF e
<1>2. /\ body \in Seq(Chars) /\ Len(body) = Len(p) + Len(e) + Len(z)
      /\ \A i \in 1..Len(p) : body[i] = p[i]
      /\ \A i \in 1..Len(e) : body[Len(p) + i] = e[i]
      /\ \A i \in 1..Len(z) : body[Len(p) + Len(e) + i] = z[i]
  <2>1. Parts(p, e, z, body)
    BY <1>1, ThreeParts
  <2> HIDE DEF body
  <2> QED
    BY <2>1 DEF Parts
<1> HIDE DEF body
<1>3. body[Len(p) + Len(e) + 1] = z[1]
  BY <1>1, <1>2
<1> QED
  BY <1>1, <1>2, <1>3 DEF body, e

\* The text t in an object, as a client writes it.
LEMMA JsonIsExtracted ==
  ASSUME NEW t \in Seq(Chars), NEW encoding \in {"json", "spaced"}
  PROVE  HttpExtractSql(Encoded(t, encoding)) = IF "vt" \in Range(t) THEN NoSql ELSE Sql(t)
<1> DEFINE e == JsonEscapeDup(t)
           z == <<"quote", RightBrace>>
           shortA == <<LeftBrace>>
           shortZ == <<":", "quote">>
           short == shortA \o SqlKey \o shortZ
           longA == <<"lf", LeftBrace, "sp">>
           longZ == <<"sp", ":", "tab", "quote">>
           long == longA \o SqlKey \o longZ
<1>1. /\ LeftBrace \in Chars /\ RightBrace \in Chars /\ LeftBrace \notin Blanks
      /\ LeftBrace # "quote"
  BY Zenon, KindsDiffer DEF LeftBrace, RightBrace, Chars
<1>2. {"quote", ":", "sql", "lf", "sp", "tab"} \subseteq Chars
  BY DEF Chars, Letters, Keywords, Blanks
<1>3. z \in Seq(Chars) /\ Len(z) = 2 /\ z[1] = "quote"
  BY <1>1, <1>2
<1>0. /\ SqlKey \in Seq(Chars) /\ Len(SqlKey) = 3
      /\ SqlKey[1] = "quote" /\ SqlKey[2] = "sql" /\ SqlKey[3] = "quote"
  BY <1>2 DEF SqlKey
<1>4. CASE encoding = "json"
  <2>1. Encoded(t, encoding) = <<LeftBrace>> \o SqlKey \o <<":", "quote">> \o e \o z
    BY <1>4, Zenon DEF Encoded, LeftBrace, RightBrace
  <2> DEFINE body == short \o e \o z
  <2>2. Encoded(t, encoding) = body
    BY <2>1
  <2>3. /\ short \in Seq(Chars) /\ Len(short) = 6
        /\ short[1] = LeftBrace /\ short[2] = "quote" /\ short[3] = "sql"
        /\ short[4] = "quote" /\ short[5] = ":" /\ short[6] = "quote"
    <3>1. /\ shortA \in Seq(Chars) /\ Len(shortA) = 1 /\ shortA[1] = LeftBrace
          /\ shortZ \in Seq(Chars) /\ Len(shortZ) = 2
          /\ shortZ[1] = ":" /\ shortZ[2] = "quote"
      BY <1>1, <1>2
    <3> HIDE DEF shortA, shortZ
    <3>2. /\ short \in Seq(Chars) /\ Len(short) = Len(shortA) + Len(SqlKey) + Len(shortZ)
          /\ \A i \in 1..Len(shortA) : short[i] = shortA[i]
          /\ \A i \in 1..Len(SqlKey) : short[Len(shortA) + i] = SqlKey[i]
          /\ \A i \in 1..Len(shortZ) : short[Len(shortA) + Len(SqlKey) + i] = shortZ[i]
      <4>1. Parts(shortA, SqlKey, shortZ, short)
        BY <1>0, <3>1, ThreeParts
      <4> HIDE DEF short
      <4> QED
        BY <4>1 DEF Parts
    <3> HIDE DEF short
    <3>3. /\ \A i \in 1..1 : short[i] = shortA[i]
          /\ \A i \in 1..3 : short[1 + i] = SqlKey[i]
          /\ \A i \in 1..2 : short[4 + i] = shortZ[i]
      BY <1>0, <3>1, <3>2
    <3>4. /\ short[1] = shortA[1] /\ short[1 + 1] = SqlKey[1] /\ short[1 + 2] = SqlKey[2]
          /\ short[1 + 3] = SqlKey[3] /\ short[4 + 1] = shortZ[1] /\ short[4 + 2] = shortZ[2]
      BY <3>3
    <3> QED
      BY <1>0, <3>1, <3>2, <3>4
  <2> HIDE DEF z, short
  <2>4. /\ body \in Seq(Chars) /\ Len(e) \in Nat /\ Len(body) = Len(short) + Len(e) + 2
        /\ \A i \in 1..Len(short) : body[i] = short[i]
        /\ \A i \in 1..Len(e) : body[Len(short) + i] = e[i]
        /\ body[Len(short) + Len(e) + 1] = z[1]
    BY <1>3, <2>3, BodyIs
  <2> HIDE DEF body, e
  <2>5. /\ Len(body) = 6 + Len(e) + 2 /\ \A i \in 1..6 : body[i] = short[i]
        /\ \A i \in 1..Len(e) : body[6 + i] = e[i]
        /\ body[6 + Len(e) + 1] = "quote"
    BY <1>3, <2>3, <2>4
  <2>6. /\ body[1] = LeftBrace /\ body[2] = "quote" /\ body[3] = "sql" /\ body[4] = "quote"
        /\ body[5] = ":" /\ body[6] = "quote"
    BY <2>3, <2>5
  <2>7. Skip(body, 1, Blanks) = 1 /\ 1 \in 1..Len(body)
    <3>1. 1 \in 1..Len(body) + 1 /\ 1 \in 1..Len(body)
      BY <2>4, <2>5
    <3>2. \A i \in 1..1 - 1 : body[i] \in Blanks
      OBVIOUS
    <3> QED
      BY <1>1, <2>4, <2>6, <3>1, <3>2, RunEnds
  <2>8. HttpExtractSql(body) = ExtractJsonSql(body)
    BY <2>6, <2>7, HttpExtractIs DEF At
  <2>9. ExtractJsonSql(body) = IF "vt" \in Range(t) THEN NoSql ELSE Sql(t)
    <3>1. /\ 2 \in 1..Len(body) /\ 5 \in 2 + 3..Len(body) /\ 6 \in 5 + 1..Len(body)
          /\ 6 + Len(e) < Len(body)
      BY <2>4, <2>5
    <3>2. /\ \A i \in 1..2 - 1 : body[i] # "quote"
          /\ \A i \in 2 + 3..5 - 1 : body[i] \in Blanks
          /\ \A i \in 5 + 1..6 - 1 : body[i] \in Blanks
      BY <1>1, <2>6
    <3>3. body[2 + 1] = "sql" /\ body[2 + 2] = "quote"
      BY <2>6
    <3>4. Quoted(t, body, 6)
      BY <2>5, <3>1 DEF Quoted, e
    <3> QED
      BY <2>4, <2>6, <3>1, <3>2, <3>3, <3>4, ExtractIs
  <2> QED
    BY <2>2, <2>8, <2>9
<1>5. CASE encoding = "spaced"
  <2>1. Encoded(t, encoding) =
          <<"lf", LeftBrace, "sp">> \o SqlKey \o <<"sp", ":", "tab", "quote">> \o e \o z
    BY <1>5, Zenon DEF Encoded, LeftBrace, RightBrace
  <2> DEFINE body == long \o e \o z
  <2>2. Encoded(t, encoding) = body
    BY <2>1
  <2>3. /\ long \in Seq(Chars) /\ Len(long) = 10
        /\ long[1] = "lf" /\ long[2] = LeftBrace /\ long[3] = "sp" /\ long[4] = "quote"
        /\ long[5] = "sql" /\ long[6] = "quote" /\ long[7] = "sp" /\ long[8] = ":"
        /\ long[9] = "tab" /\ long[10] = "quote"
    <3>1. /\ longA \in Seq(Chars) /\ Len(longA) = 3
          /\ longA[1] = "lf" /\ longA[2] = LeftBrace /\ longA[3] = "sp"
          /\ longZ \in Seq(Chars) /\ Len(longZ) = 4
          /\ longZ[1] = "sp" /\ longZ[2] = ":" /\ longZ[3] = "tab" /\ longZ[4] = "quote"
      BY <1>1, <1>2
    <3> HIDE DEF longA, longZ
    <3>2. /\ long \in Seq(Chars) /\ Len(long) = Len(longA) + Len(SqlKey) + Len(longZ)
          /\ \A i \in 1..Len(longA) : long[i] = longA[i]
          /\ \A i \in 1..Len(SqlKey) : long[Len(longA) + i] = SqlKey[i]
          /\ \A i \in 1..Len(longZ) : long[Len(longA) + Len(SqlKey) + i] = longZ[i]
      <4>1. Parts(longA, SqlKey, longZ, long)
        BY <1>0, <3>1, ThreeParts
      <4> HIDE DEF long
      <4> QED
        BY <4>1 DEF Parts
    <3> HIDE DEF long
    <3>3. /\ \A i \in 1..3 : long[i] = longA[i]
          /\ \A i \in 1..3 : long[3 + i] = SqlKey[i]
          /\ \A i \in 1..4 : long[6 + i] = longZ[i]
      BY <1>0, <3>1, <3>2
    <3>4. /\ long[1] = longA[1] /\ long[2] = longA[2] /\ long[3] = longA[3]
          /\ long[3 + 1] = SqlKey[1] /\ long[3 + 2] = SqlKey[2] /\ long[3 + 3] = SqlKey[3]
          /\ long[6 + 1] = longZ[1] /\ long[6 + 2] = longZ[2] /\ long[6 + 3] = longZ[3]
          /\ long[6 + 4] = longZ[4]
      BY <3>3
    <3> QED
      BY <1>0, <3>1, <3>2, <3>4
  <2> HIDE DEF z, long
  <2>4. /\ body \in Seq(Chars) /\ Len(e) \in Nat /\ Len(body) = Len(long) + Len(e) + 2
        /\ \A i \in 1..Len(long) : body[i] = long[i]
        /\ \A i \in 1..Len(e) : body[Len(long) + i] = e[i]
        /\ body[Len(long) + Len(e) + 1] = z[1]
    BY <1>3, <2>3, BodyIs
  <2> HIDE DEF body, e
  <2>5. /\ Len(body) = 10 + Len(e) + 2 /\ \A i \in 1..10 : body[i] = long[i]
        /\ \A i \in 1..Len(e) : body[10 + i] = e[i]
        /\ body[10 + Len(e) + 1] = "quote"
    BY <1>3, <2>3, <2>4
  <2>6. /\ body[1] = "lf" /\ body[2] = LeftBrace /\ body[3] = "sp" /\ body[4] = "quote"
        /\ body[5] = "sql" /\ body[6] = "quote" /\ body[7] = "sp" /\ body[8] = ":"
        /\ body[9] = "tab" /\ body[10] = "quote"
    BY <2>3, <2>5
  <2>7. Skip(body, 1, Blanks) = 2 /\ 2 \in 1..Len(body)
    <3>1. 1 \in 1..Len(body) + 1 /\ 2 \in 1..Len(body) + 1 /\ 2 \in 1..Len(body)
      BY <2>4, <2>5
    <3>2. \A i \in 1..2 - 1 : body[i] \in Blanks
      BY <2>6 DEF Blanks
    <3> QED
      BY <1>1, <2>4, <2>6, <3>1, <3>2, RunEnds
  <2>8. HttpExtractSql(body) = ExtractJsonSql(body)
    BY <2>6, <2>7, HttpExtractIs DEF At
  <2>9. ExtractJsonSql(body) = IF "vt" \in Range(t) THEN NoSql ELSE Sql(t)
    <3>1. /\ 4 \in 1..Len(body) /\ 8 \in 4 + 3..Len(body) /\ 10 \in 8 + 1..Len(body)
          /\ 10 + Len(e) < Len(body)
      BY <2>4, <2>5
    <3>2. \A i \in 1..4 - 1 : body[i] # "quote"
      <4>1. \A i \in 1..4 - 1 : i = 1 \/ i = 2 \/ i = 3
        OBVIOUS
      <4> QED
        BY <1>1, <2>6, <4>1
    <3>3. /\ \A i \in 4 + 3..8 - 1 : body[i] \in Blanks
          /\ \A i \in 8 + 1..10 - 1 : body[i] \in Blanks
      <4>1. (\A i \in 4 + 3..8 - 1 : i = 7) /\ \A i \in 8 + 1..10 - 1 : i = 9
        OBVIOUS
      <4> QED
        BY <2>6, <4>1 DEF Blanks
    <3>4. body[4 + 1] = "sql" /\ body[4 + 2] = "quote"
      BY <2>6
    <3>5. Quoted(t, body, 10)
      BY <2>5, <3>1 DEF Quoted, e
    <3> QED
      BY <2>4, <2>6, <3>1, <3>2, <3>3, <3>4, <3>5, ExtractIs
  <2> QED
    BY <2>2, <2>8, <2>9
<1> QED
  BY <1>4, <1>5

\* What a text denotes is said by its lexemes.
LEMMA SameLexemes ==
  ASSUME NEW s, NEW t, Lexemes(s) = Lexemes(t)
  PROVE  Denoted(s) = Denoted(t)
  BY DEF Denoted

\* A text that begins with a brace is no statement.
LEMMA BracesSayNothing ==
  ASSUME NEW t \in Seq(Chars), At(t, Skip(t, 1, Blanks)) = LeftBrace
  PROVE  Denoted(t) = {}
<1>1. LeftBrace # "insert" /\ LeftBrace # "select"
  BY Zenon DEF LeftBrace
<1>2. SqlParse(t) = Refused
  BY <1>1 DEF SqlParse
<1> QED
  BY <1>2, ParserIsRight

\* Copied, a text loses the blanks around it and nothing of its meaning.
LEMMA CopyKeepsMeaning ==
  ASSUME NEW t \in Seq(Chars), CopyRawSql(t).ok
  PROVE  /\ CopyRawSql(t).sql \in Seq(Chars)
         /\ Denoted(CopyRawSql(t).sql) = Denoted(t)
<1> DEFINE solid == {i \in 1..Len(t) : t[i] \notin Blanks}
           a == Min(solid)
           b == Max(solid)
           u == SubSeq(t, a, b)
<1>1. Len(t) \in Nat
  BY LenProperties
<1>2. solid # {}
  BY DEF CopyRawSql, NoSql
<1>3. solid \subseteq Nat /\ solid \subseteq 0..Len(t) /\ \A i \in solid : i \in 1..Len(t)
  BY <1>1
<1>4. CopyRawSql(t) = Sql(u)
  BY <1>2 DEF CopyRawSql
<1>5. \A i \in 1..Len(t) : i \in solid <=> t[i] \notin Blanks
  OBVIOUS
<1> HIDE DEF solid
<1>6. a \in solid /\ \A y \in solid : a <= y
  BY <1>2, <1>3, MinIsLeast
<1>7. b \in solid /\ \A y \in solid : b >= y
  BY <1>1, <1>2, <1>3, MaxIsGreatest
<1> HIDE DEF a, b
<1>8. a \in 1..Len(t) /\ b \in a..Len(t) /\ t[a] \notin Blanks
  <2>1. a <= b
    BY <1>6, <1>7
  <2> QED
    BY <1>1, <1>3, <1>5, <1>6, <1>7, <2>1
<1>9. ASSUME NEW j \in 1..a - 1 PROVE t[j] \in Blanks
  <2>1. j \in 1..Len(t) /\ ~(a <= j)
    BY <1>1, <1>8
  <2> QED
    BY <1>5, <1>6, <2>1
<1>10. ASSUME NEW j \in b + 1..Len(t) PROVE t[j] \in Blanks
  <2>1. j \in 1..Len(t) /\ ~(b >= j)
    BY <1>1, <1>8
  <2> QED
    BY <1>5, <1>7, <2>1
<1>11. u \in Seq(Chars)
  BY <1>8, PartIs
<1>12. Lexemes(u) = Lexemes(t)
  BY <1>8, <1>9, <1>10, BlanksAround
<1> HIDE DEF u
<1>13. CopyRawSql(t).sql = u
  BY <1>4 DEF Sql, NoSql
<1> QED
  BY <1>11, <1>12, <1>13, SameLexemes

\* What a text means that is sent in this encoding.
Meanings(t, encoding) == IF Sendable(t, encoding) THEN Denoted(t) ELSE {}

\* A body that is made of t is handled as t says.
LEMMA BodiesAreHandled ==
  ASSUME NEW t \in Seq(Chars), NEW encoding \in Encodings, ~TakenForJson(t, encoding)
  PROVE  IF Meanings(t, encoding) = {} THEN HandleQuery(Encoded(t, encoding)) = Refused
         ELSE Meanings(t, encoding) = {HandleQuery(Encoded(t, encoding))}
<1> DEFINE body == Encoded(t, encoding)
           extracted == HttpExtractSql(body)
           stmt == SqlParse(extracted.sql)
<1>1. HandleQuery(body) =
        IF extracted.ok /\ stmt # Refused THEN ExecuteStatement(stmt) ELSE Refused
  BY Zenon DEF HandleQuery
<1>2. CASE encoding = "raw"
  <2>1. body = t
    BY <1>2, Zenon DEF Encoded
  <2>2. CASE At(t, Skip(t, 1, Blanks)) = LeftBrace
    <3>1. extracted = ExtractJsonSql(t)
      BY <2>1, <2>2, HttpExtractIs
    <3>2. ~extracted.ok
      BY <1>2, <2>2, <3>1, Zenon DEF TakenForJson, LeftBrace
    <3>3. Denoted(t) = {}
      BY <2>2, BracesSayNothing
    <3> HIDE DEF body, extracted
    <3> QED
      BY <1>1, <3>2, <3>3 DEF Meanings, body
  <2>3. CASE At(t, Skip(t, 1, Blanks)) # LeftBrace
    <3>1. extracted = CopyRawSql(t)
      BY <2>1, <2>3, HttpExtractIs
    <3>2. Sendable(t, encoding) <=> extracted.ok
      BY <1>2, <3>1 DEF Sendable
    <3> HIDE DEF extracted
    <3>3. extracted.ok => extracted.sql \in Seq(Chars) /\ Denoted(extracted.sql) = Denoted(t)
      BY <3>1, CopyKeepsMeaning
    <3>4. extracted.ok => IF stmt = Refused THEN Denoted(t) = {}
                          ELSE Denoted(t) = {ExecuteStatement(stmt)}
      BY <3>3, ParserIsRight
    <3> HIDE DEF stmt
    <3> QED
      BY <1>1, <3>2, <3>4 DEF Meanings
  <2> QED
    BY <2>2, <2>3
<1>3. CASE encoding # "raw"
  <2>1. encoding \in {"json", "spaced"}
    BY <1>3 DEF Encodings
  <2>2. extracted = IF "vt" \in Range(t) THEN NoSql ELSE Sql(t)
    BY <2>1, JsonIsExtracted
  <2>3. Sendable(t, encoding) <=> Len(t) < SqlMax /\ "vt" \notin Range(t)
    BY <1>3 DEF Sendable
  <2> HIDE DEF extracted
  <2>4. /\ Sendable(t, encoding) <=> extracted.ok
        /\ extracted.ok => extracted.sql = t
    BY <2>2, <2>3 DEF Sql, NoSql
  <2>5. extracted.ok => IF stmt = Refused THEN Denoted(t) = {}
                        ELSE Denoted(t) = {ExecuteStatement(stmt)}
    BY <2>4, ParserIsRight
  <2> HIDE DEF stmt
  <2> QED
    BY <1>1, <2>4, <2>5 DEF Meanings
<1> QED
  BY <1>2, <1>3

-----------------------------------------------------------------------------
(* The outcomes.                                                           *)

\* The outcomes of a posting are those of the text there is now.
OutcomeInv ==
  \/ outcome = [e \in {} |-> Refused]
  \/ outcome = [e \in Encodings |-> HandleQuery(Encoded(text, e))]

\* The outcomes are what the text means.
LEMMA OutcomesMean ==
  ASSUME TextInv, OutcomeInv
  PROVE  QueryMeansWhatItSays
<1> SUFFICES ASSUME NEW e \in DOMAIN outcome, ~TakenForJson(text, e)
             PROVE  IF Meanings(text, e) = {} THEN outcome[e] = Refused
                    ELSE Meanings(text, e) = {outcome[e]}
  BY Zenon DEF QueryMeansWhatItSays, Meanings
<1>1. CASE outcome = [d \in {} |-> Refused]
  BY <1>1
<1>2. CASE outcome = [d \in Encodings |-> HandleQuery(Encoded(text, d))]
  <2>1. e \in Encodings /\ outcome[e] = HandleQuery(Encoded(text, e))
    BY <1>2
  <2> QED
    BY <2>1, BodiesAreHandled DEF TextInv
<1> QED
  BY <1>1, <1>2 DEF OutcomeInv

\* No step leaves an outcome that is not of the text: a change takes them all away.
LEMMA OutcomesAreOfTheText ==
  ASSUME OutcomeInv, [Next]_vars
  PROVE  OutcomeInv'
<1>1. CASE Write
  BY <1>1 DEF Write, Edit, OutcomeInv
<1>2. CASE Replace
  BY <1>2 DEF Replace, Edit, OutcomeInv
<1>3. CASE Erase
  BY <1>3 DEF Erase, Edit, OutcomeInv
<1>4. CASE Post
  BY <1>4 DEF Post, OutcomeInv
<1>5. CASE UNCHANGED vars
  BY <1>5 DEF vars, OutcomeInv
<1> QED
  BY <1>1, <1>2, <1>3, <1>4, <1>5 DEF Next

\* The engine is called with what the query says, for every text of any length and
\* however it is posted: neither the raw body, nor the two JSON bodies, nor the
\* parser changes what is asked of the engine, and a text that says nothing, or
\* more than the limits allow, never reaches it.
THEOREM QueriesMeanWhatTheySay == Spec => []QueryMeansWhatItSays
<1>1. TextInv /\ [Next]_vars => TextInv'
  BY NextKeepsTexts
<1>2. Init => OutcomeInv
  BY DEF Init, OutcomeInv
<1>3. OutcomeInv /\ [Next]_vars => OutcomeInv'
  BY OutcomesAreOfTheText
<1>4. TextInv /\ OutcomeInv => QueryMeansWhatItSays
  BY OutcomesMean
<1> QED
  BY <1>1, <1>2, <1>3, <1>4, TextInitially, PTL DEF Spec
=============================================================================
