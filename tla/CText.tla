------------------------------- MODULE CText --------------------------------
(***************************************************************************)
(* C strings as sequences of characters, and the library functions that    *)
(* http.c and sql.c use on them.  A character is a TLA+ string; a text is  *)
(* read up to its end, where a C string has its zero byte "nul".           *)
(***************************************************************************)
EXTENDS Integers, Sequences, FiniteSetsExt

Digits == {"0", "1", "2"}
DigitValue(d) == CASE d = "0" -> 0 [] d = "1" -> 1 [] d = "2" -> 2

\* The characters for which isspace holds.  The form feed is not a character of
\* its own: nothing in the code tells it from "vt", which stands for both.
Blanks == {"sp", "tab", "lf", "vt", "cr"}

\* The character at i, the zero byte behind the end.
At(s, i) == IF i \in 1..Len(s) THEN s[i] ELSE "nul"

\* strstr: where x first occurs in s, 0 if nowhere.
Find(s, x) ==
  LET hits == {i \in 1..Len(s) - Len(x) + 1 : SubSeq(s, i, i + Len(x) - 1) = x}
  IN  IF hits = {} THEN 0 ELSE Min(hits)

\* The first place from i on that holds no character of C.
Skip(s, i, C) == Min({j \in i..Len(s) : s[j] \notin C} \cup {Len(s) + 1})

\* The number that these digits denote, 0 for none.
Number(digits) ==
  LET value[k \in 0..Len(digits)] ==
        IF k = 0 THEN 0 ELSE 10 * value[k - 1] + DigitValue(digits[k])
  IN  value[Len(digits)]
=============================================================================
