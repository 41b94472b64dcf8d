---------------------------- MODULE HttpResponse ----------------------------
(***************************************************************************)
(* http_send_json_with_thread of src/http.c: a header, the body and, unless*)
(* the body ends with one, a newline are sent one after the other, each by *)
(* a loop of send calls that may take any number of bytes.  The header     *)
(* announces the length of what follows.  A byte is named by the piece it  *)
(* belongs to and its place in it.                                         *)
(***************************************************************************)
EXTENDS Integers, Sequences

CONSTANT HeaderLen  \* the length of the header

ASSUME HeaderAssumption == HeaderLen \in Nat \ {0}

VARIABLES
  bodyLen, newline,  \* strlen(json_body), and whether a newline is added
  announced,         \* the Content-Length in the header
  piece, position,   \* the send_all under way and its local `sent`
  stream,            \* the bytes the client's end has taken
  sending            \* "no", "yes", "sent" or "broken"

senderVars == <<bodyLen, newline, announced, piece, position, stream, sending>>

SenderInit ==
  /\ bodyLen = 0 /\ newline = FALSE /\ announced = 0
  /\ piece = 1 /\ position = 0
  /\ stream = <<>>
  /\ sending = "no"

\* response_body_len.
ResponseBodyLen(n, nl) == n + IF nl THEN 1 ELSE 0

\* A body of n bytes that does not end with a newline gets one, as an empty one
\* does.
StartSending(n, nl) ==
  /\ sending = "no"
  /\ n = 0 => nl
  /\ bodyLen' = n
  /\ newline' = nl
  /\ announced' = ResponseBodyLen(n, nl)
  /\ sending' = "yes"
  /\ UNCHANGED <<piece, position, stream>>

PieceLen == <<HeaderLen, bodyLen, IF newline THEN 1 ELSE 0>>

\* Faulty variant: after a short send the piece is sent from its start again.
FromStart(n) == [i \in 1..n |-> <<piece, i>>]

\* The next n bytes of the piece: buffer + sent.
NextBytes(n) == [i \in 1..n |-> <<piece, position + i>>]

\* send takes n bytes, at least one.
Send(n) ==
  /\ sending = "yes"
  /\ position + n <= PieceLen[piece]
  /\ stream' = stream \o NextBytes(n)
  /\ position' = position + n
  /\ UNCHANGED <<bodyLen, newline, announced, piece, sending>>

\* A send_all is complete, and the next one follows.
PieceDone ==
  /\ sending = "yes"
  /\ position = PieceLen[piece]
  /\ IF piece = 3 THEN sending' = "sent" /\ UNCHANGED <<piece, position>>
     ELSE piece' = piece + 1 /\ position' = 0 /\ UNCHANGED sending
  /\ UNCHANGED <<bodyLen, newline, announced, stream>>

\* send fails, other than by EINTR, or takes nothing.
SendFail ==
  /\ sending = "yes"
  /\ position < PieceLen[piece]
  /\ sending' = "broken"
  /\ UNCHANGED <<bodyLen, newline, announced, piece, position, stream>>

SenderStep ==
  \/ \E n \in 1..PieceLen[piece] - position : Send(n)
  \/ PieceDone
  \/ SendFail

-----------------------------------------------------------------------------
\* What a client that believes the header reads: the header and as many bytes as
\* it announces, the body first.
Response ==
  [i \in 1..HeaderLen + announced |->
     IF i <= HeaderLen THEN <<1, i>>
     ELSE IF i <= HeaderLen + bodyLen THEN <<2, i - HeaderLen>>
     ELSE <<3, i - HeaderLen - bodyLen>>]

\* However little the kernel takes at a time, the client sees a prefix of the
\* response, in order and without gaps or repetitions, and when sending succeeds
\* it has got neither less nor more than the header announced.
ResponseIsExact ==
  /\ sending # "no" => stream = SubSeq(Response, 1, Len(stream))
  /\ sending = "sent" => Len(stream) = HeaderLen + announced
=============================================================================
