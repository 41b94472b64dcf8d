------------------------------ MODULE DataFile ------------------------------
(***************************************************************************)
(* The text of the data file that src/db.c appends to and db_init parses.  *)
(*                                                                         *)
(* A text is one line without its newline: a sequence of comma-separated   *)
(* fields, each a sequence of tokens written next to each other.  A token  *)
(* is an integer (its decimal digits) or the name of a user (a model value *)
(* that does not start with a digit).  A failed append may leave any       *)
(* prefix of a row, and the next row is then glued to it: "1,kim," and     *)
(* "2,lee,30" together read "1,kim,2,lee,30".                              *)
(***************************************************************************)
EXTENDS Integers, Sequences

\* The empty text: one field without tokens.
EmptyText == << <<>> >>

\* What fprintf("%d,%s,%d") writes for a row, without the newline.
RowText(r) == << <<r.id>>, r.name, <<r.age>> >>

\* The text b written directly behind the text a.
Glue(a, b) ==
  [i \in 1..Len(a) + Len(b) - 1 |->
     CASE i < Len(a) -> a[i]
       [] i = Len(a) -> a[i] \o b[1]
       [] i > Len(a) -> b[i - Len(a) + 1]]

\* The prefixes of a row's text that a short write can leave in the file.  A
\* cut inside a number or a name reads like a shorter number or name.
Cuts(r) ==
  LET text == RowText(r)
  IN  {EmptyText}
        \cup {SubSeq(text, 1, n) : n \in 1..3}
        \cup {Append(SubSeq(text, 1, n), <<>>) : n \in 1..2}

IsNumber(token) == token \in Int

\* The smallest power of ten above n (numbers of up to four digits).
DecimalShift(n) ==
  CHOOSE p \in {10, 100, 1000, 10000} :
    n < p /\ \A q \in {10, 100, 1000, 10000} : n < q => p <= q

\* How many tokens at the start of a field a single %d reads: a minus sign ends
\* the number in front of it.
NumberLength(field) ==
  LET stops == {n \in 1..Len(field) : ~IsNumber(field[n]) \/ (n > 1 /\ field[n] < 0)}
  IN  IF stops = {} THEN Len(field)
      ELSE (CHOOSE n \in stops : \A m \in stops : n <= m) - 1

\* The integer that %d reads at the start of a field.
NumberValue(field) ==
  LET value[n \in 0..NumberLength(field)] ==
        IF n = 0 THEN 0
        ELSE IF n = 1 THEN field[1]
        ELSE value[n - 1] * DecimalShift(field[n]) + field[n]
  IN  value[NumberLength(field)]

\* sscanf(line, "%d,%127[^,],%d") = 3: the first field is a number and nothing
\* else, the second is not empty, the third starts with a number.
Scans(text) ==
  /\ Len(text) >= 3
  /\ Len(text[1]) > 0 /\ NumberLength(text[1]) = Len(text[1])
  /\ Len(text[2]) > 0
  /\ NumberLength(text[3]) > 0

\* The row that sscanf reads from a text that Scans.
ScannedRow(text) ==
  [id |-> NumberValue(text[1]), name |-> text[2], age |-> NumberValue(text[3])]
=============================================================================
