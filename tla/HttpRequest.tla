---------------------------- MODULE HttpRequest -----------------------------
(***************************************************************************)
(* http_read_request of src/http.c: the bytes of a request arrive in       *)
(* pieces of any size, and the reader has to find the end of the headers,  *)
(* the request line and the content length in what it has got so far.      *)
(*                                                                         *)
(* A byte is one of the strings "w" (part of a word), "sp", "cr", "lf",    *)
(* "nul" and the digits "0", "1", "2"; "cl" stands for the fifteen bytes   *)
(* Content-Length: in any case.  Signs in front of a number are left out.  *)
(***************************************************************************)
EXTENDS CText

CONSTANTS
  Messages,    \* what clients send: [bytes, means], means being what was meant
  NoRequest,   \* the meaning of bytes that are no request, or not a whole one
  MaxRequest,  \* HTTP_MAX_REQUEST
  MaxBody,     \* HTTP_MAX_BODY
  MethodMax,   \* what %7s reads at most
  PathMax      \* what %127s reads at most

ASSUME LimitsAssumption ==
  MaxRequest \in Nat /\ MaxBody \in Nat /\ MethodMax \in Nat /\ PathMax \in Nat

Bytes == {"w", "sp", "cr", "lf", "nul", "cl"} \cup Digits

ASSUME MessagesAssumption == \A m \in Messages : m.bytes \in Seq(Bytes)

VARIABLES
  message,  \* what this client sends
  used,     \* how many bytes have been received; they are in the buffer
  need,     \* total_needed, once the headers are complete
  reading,  \* "head", "body", and then "read", "refused" or "lost"
  request   \* the HttpRequest

readerVars == <<message, used, need, reading, request>>

CRLF == <<"cr", "lf">>

-----------------------------------------------------------------------------
(* The part of the buffer that is a C string, and the words in it.         *)

\* The bytes in front of the first zero byte.
CString(b) == SubSeq(b, 1, Min({i \in 1..Len(b) : b[i] = "nul"} \cup {Len(b) + 1}) - 1)

\* The place behind the word that starts at i and has at most max bytes.
WordEnd(s, i, max) ==
  Min({j \in i..Len(s) : s[j] \in Blanks} \cup {i + max, Len(s) + 1})

-----------------------------------------------------------------------------
(* What the reader finds in the buffer b.                                  *)

\* Where the empty line behind the headers begins.
HeadersEnd(b) == Find(CString(b), CRLF \o CRLF)

\* sscanf("%7s %127s"): method and path, if there are two words.
RequestLine(b) ==
  LET s == CString(b)
      m == Skip(s, 1, Blanks)
      mend == WordEnd(s, m, MethodMax)
      p == Skip(s, mend, Blanks)
      pend == WordEnd(s, p, PathMax)
  IN  [ok |-> mend > m /\ pend > p,
       method |-> SubSeq(s, m, mend - 1), path |-> SubSeq(s, p, pend - 1)]

\* The lines of the headers that begin with Content-Length:.
LengthLines(b) ==
  {i \in 3..HeadersEnd(b) - 1 :
     SubSeq(CString(b), i - 2, i - 1) = CRLF /\ CString(b)[i] = "cl"}

\* parse_content_length: the number in the first such line, 0 without one.
ContentLength(b) ==
  LET s == CString(b)
      value == Skip(s, Min(LengthLines(b)) + 1, Blanks)
      end == Skip(s, value, Digits)
  IN  IF LengthLines(b) = {} THEN [ok |-> TRUE, length |-> 0]
      ELSE IF end = value THEN [ok |-> FALSE, length |-> 0]
      ELSE [ok |-> TRUE, length |-> Number(SubSeq(s, value, end - 1))]

HeadFits(b) ==
  /\ ContentLength(b).length <= MaxBody
  /\ HeadersEnd(b) + 3 + ContentLength(b).length <= MaxRequest

HeadOk(b) == RequestLine(b).ok /\ ContentLength(b).ok /\ HeadFits(b)

-----------------------------------------------------------------------------
ReaderInit ==
  /\ message \in Messages
  /\ used = 0 /\ need = 0
  /\ reading = "head"
  /\ request = NoRequest

\* Faulty variant: what arrived behind the body is taken for a part of it.
RequestWithRest(b, total) ==
  [method |-> RequestLine(b).method, path |-> RequestLine(b).path,
   body |-> SubSeq(b, HeadersEnd(b) + 4, Len(b))]

\* The words of the request line, and what has arrived of the announced body.
RequestFrom(b, total) ==
  [method |-> RequestLine(b).method, path |-> RequestLine(b).path,
   body |-> SubSeq(b, HeadersEnd(b) + 4, Min({total, Len(b)}))]

\* recv returns the next n bytes while the headers are incomplete.
RecvHead(n) ==
  LET b == SubSeq(message.bytes, 1, used + n)
      total == HeadersEnd(b) + 3 + ContentLength(b).length
  IN  /\ reading = "head"
      /\ used + n <= MaxRequest
      /\ used' = used + n
      /\ CASE HeadersEnd(b) = 0 ->
                /\ reading' = IF used' < MaxRequest THEN "head" ELSE "refused"
                /\ UNCHANGED <<need, request>>
           [] HeadersEnd(b) # 0 /\ ~HeadOk(b) ->
                /\ reading' = "refused"
                /\ UNCHANGED <<need, request>>
           [] OTHER ->
                /\ need' = total
                /\ reading' = IF used' < total THEN "body" ELSE "read"
                /\ request' = RequestFrom(b, total)
      /\ UNCHANGED message

\* recv returns the next n bytes of the body.
RecvBody(n) ==
  /\ reading = "body"
  /\ used + n <= need
  /\ used' = used + n
  /\ reading' = IF used' < need THEN "body" ELSE "read"
  /\ request' = [request EXCEPT !.body = @ \o SubSeq(message.bytes, used + 1, used')]
  /\ UNCHANGED <<message, need>>

\* recv returns 0: the client has sent all it will send.
RecvEnd ==
  /\ reading \in {"head", "body"}
  /\ used = Len(message.bytes)
  /\ reading' = "refused"
  /\ UNCHANGED <<message, used, need, request>>

\* recv fails, other than by EINTR.
RecvFail ==
  /\ reading \in {"head", "body"}
  /\ reading' = "lost"
  /\ UNCHANGED <<message, used, need, request>>

ReaderStep ==
  \/ \E n \in 1..Len(message.bytes) - used : RecvHead(n) \/ RecvBody(n)
  \/ RecvEnd
  \/ RecvFail

-----------------------------------------------------------------------------
(* What a whole message says, without regard to how it arrives.            *)

\* The bytes up to the empty line.
HeadOf(b) == SubSeq(b, 1, HeadersEnd(b) + 3)

\* The head is enough to tell what it says: there are two words before it ends,
\* and something behind each Content-Length.
HeadIsComplete(b) ==
  /\ RequestLine(HeadOf(b)).ok
  /\ \A i \in LengthLines(HeadOf(b)) :
       \E j \in i + 1..Len(HeadOf(b)) : HeadOf(b)[j] \notin Blanks

\* The request that a message with a head conveys, if it is there as a whole.
Conveyed(b) ==
  LET end == Len(HeadOf(b)) + ContentLength(HeadOf(b)).length
  IN  IF HeadersEnd(b) # 0 /\ HeadOk(HeadOf(b)) /\ end <= Len(b)
      THEN [method |-> RequestLine(HeadOf(b)).method, path |-> RequestLine(HeadOf(b)).path,
            body |-> SubSeq(b, Len(HeadOf(b)) + 1, end)]
      ELSE NoRequest

\* The messages have complete heads, if any, and mean what they convey.
MessagesAreWellFormed ==
  \A m \in Messages :
    /\ HeadersEnd(m.bytes) # 0 => HeadIsComplete(m.bytes)
    /\ m.means = Conveyed(m.bytes)

-----------------------------------------------------------------------------
\* Whatever arrives, malformed or not, and in whatever pieces: nothing is stored
\* behind the end of http_read_request's buffer or of the body's array.
NothingOverflows ==
  /\ used <= MaxRequest
  /\ reading \in {"body", "read"} => Len(request.body) <= MaxBody

\* However the network cuts the bytes, also in the middle of a line end, of the
\* empty line or of a number, and whatever follows behind the body: the handler
\* gets the request that was sent, a request is refused only if it is cut short,
\* malformed or too long, and no buffer is overrun.
ReadsWhatWasSent ==
  /\ reading = "read" => request = message.means
  /\ reading = "refused" => message.means = NoRequest
  /\ NothingOverflows
=============================================================================
