--------------------------- MODULE MCHttpExchange ---------------------------
(***************************************************************************)
(* Small instances of HttpExchange for TLC.  The messages are put together *)
(* from their parts, so that what each one means is known without parsing: *)
(* methods and paths of one to three bytes, header lines with and without  *)
(* a content length, bodies that contain line ends, an empty line and a    *)
(* zero byte, further bytes behind the body, and every message cut short   *)
(* at every place.                                                         *)
(***************************************************************************)
EXTENDS HttpExchange

Word(n) == [i \in 1..n |-> "w"]

RequestLines == {[method |-> Word(m), path |-> Word(p)] : m \in 1..2, p \in 1..2}

\* Header lines, and the body length they announce; -1 for a number that is none.
Headers ==
  {[lines |-> <<>>, length |-> 0],
   [lines |-> <<"w", "sp", "w">> \o CRLF, length |-> 0],
   [lines |-> <<"w", "cl", "1">> \o CRLF, length |-> 0],
   [lines |-> <<"cl", "w">> \o CRLF, length |-> -1],
   [lines |-> <<"cl", "2">> \o CRLF, length |-> 2],
   [lines |-> <<"cl", "1", "2">> \o CRLF, length |-> 12],
   [lines |-> <<"w">> \o CRLF \o <<"cl", "sp", "0", "1">> \o CRLF, length |-> 1],
   [lines |-> <<"cl", "1", "0">> \o CRLF \o <<"cl", "1">> \o CRLF, length |-> 10]}

Bodies ==
  {<<>>, <<"w", "1">>, CRLF, CRLF \o CRLF, <<"nul", "w", "2">>,
   <<"w", "cr", "lf", "cr", "lf", "cl", "1", "cr", "lf", "w">>}

Whole(line, header, body) ==
  line.method \o <<"sp">> \o line.path \o <<"sp", "w">> \o CRLF \o header.lines
    \o CRLF \o body

\* What the first k bytes of a message mean.
Meaning(line, header, body, k) ==
  LET head == Len(Whole(line, header, <<>>))
      total == head + header.length
  IN  IF header.length \in 0..MaxBody /\ total <= MaxRequest /\ total <= k
      THEN [method |-> line.method, path |-> line.path,
            body |-> SubSeq(body, 1, header.length)]
      ELSE NoRequest

MCMessages ==
  UNION {{[bytes |-> SubSeq(Whole(l, h, b), 1, k), means |-> Meaning(l, h, b, k)] :
            k \in 0..Len(Whole(l, h, b))} :
           l \in RequestLines, h \in Headers, b \in Bodies}

ASSUME MCMessagesAssumption == MessagesAreWellFormed
=============================================================================
