------------------------ MODULE HttpExchangeProofs --------------------------
(***************************************************************************)
(* Proofs about HttpExchange: the reading of a request, the reply buffer   *)
(* of src/util.c and the sending of a response, for every limit and width, *)
(* every sequence of bytes and of appended texts, and every way in which   *)
(* recv and send cut them.                                                 *)
(*                                                                         *)
(* WritesFit and LoopsEnd are not inductive: they need that an allocation  *)
(* is at most half of the address range, so that no sum wraps, and how the *)
(* room asked for relates to the text at each place in util.c.             *)
(* ResponseIsExact needs where in the response each send_all begins, and   *)
(* NothingOverflows what is left of a body while it is read.               *)
(*                                                                         *)
(* ReadsWhatWasSent needs that the reader learns the same from the bytes   *)
(* it has, as soon as they contain the empty line, as from the whole head. *)
(***************************************************************************)
EXTENDS HttpExchange, FilterProofs, SequenceTheorems, TLAPS

\* The room asked for is that of the text, and one more byte in appendf.
RoomAskedFor ==
  place \in {"reserve", "double"} => extra = text + rounds

\* An allocation never exceeds the largest object, and exists until released.
Allocation ==
  /\ cap <= ObjectMax
  /\ place = "none" => len = 0
  /\ place \in {"none", "idle", "copy"} => rounds = 0

BuilderInv ==
  /\ BuilderTypeOK /\ RoomAskedFor /\ Allocation /\ WritesFit /\ LoopsEnd

\* A sum that a size_t can hold is not changed by its wrap-around.
LEMMA SizeExact == ASSUME NEW n \in Nat, n <= SizeMax PROVE Size(n) = n
  BY SizeAssumption DEF Size

\* Doubling stays in range behind the test of json_builder_reserve.
LEMMA HalfOfSize ==
  ASSUME NEW n \in Nat, ~(n > SizeMax \div 2) PROVE n * 2 <= SizeMax
  BY SizeAssumption

\* The sums that the builder computes do not wrap: two objects fit into the
\* address range together.
LEMMA SumsExact ==
  ASSUME BuilderInv, place # "none"
  PROVE  /\ len \in Nat /\ text \in Nat /\ rounds \in Nat
         /\ len < ObjectMax
         /\ text < ObjectMax \/ text = 0
         /\ Size(len + text) = len + text
         /\ Size(text + 1) = text + 1
         /\ place \in {"reserve", "double"} => Needed = len + text + rounds + 1
  <1>1. len \in Nat /\ text \in Nat /\ rounds \in Nat /\ cap \in Nat
    BY TextsAssumption DEF BuilderInv, BuilderTypeOK
  <1>2. len < ObjectMax
    BY <1>1, SizeAssumption DEF BuilderInv, Allocation, WritesFit
  <1>3. text < ObjectMax \/ text = 0
    BY TextsAssumption DEF BuilderInv, BuilderTypeOK
  <1>4. len + text <= SizeMax /\ text + 1 <= SizeMax /\ len + text + rounds + 1 <= SizeMax
    BY <1>1, <1>2, <1>3, SizeAssumption DEF BuilderInv, LoopsEnd
  <1>5. Size(len + text) = len + text
    BY <1>1, <1>4, SizeExact
  <1>6. Size(text + 1) = text + 1
    BY <1>1, <1>4, SizeExact
  <1>7. ASSUME place \in {"reserve", "double"} PROVE Needed = len + text + rounds + 1
    <2>1. extra = text + rounds
      BY <1>7 DEF BuilderInv, RoomAskedFor
    <2>2. len + extra + 1 \in Nat /\ len + extra + 1 <= SizeMax
      BY <1>1, <1>4, <2>1
    <2>3. Size(len + extra + 1) = len + extra + 1
      BY <2>2, SizeExact
    <2> QED
      BY <1>1, <2>1, <2>3 DEF Needed
  <1> QED
    BY <1>1, <1>2, <1>3, <1>5, <1>6, <1>7

\* Every step of util.c preserves the invariant.
LEMMA BuilderInvPreserved == BuilderInv /\ [BuilderNext]_builderVars => BuilderInv'
  <1> SUFFICES ASSUME BuilderInv, [BuilderNext]_builderVars PROVE BuilderInv'
    OBVIOUS
  <1> USE DEF BuilderInv
  <1>0. /\ len \in Nat /\ cap \in Nat /\ text \in Nat /\ rounds \in Nat
        /\ nextCap \in Nat /\ extra \in Nat
    BY TextsAssumption DEF BuilderTypeOK
  <1>1. CASE Create
    BY <1>1, SizeAssumption, FirstCapAssumption
    DEF Create, BuilderTypeOK, RoomAskedFor, Allocation, WritesFit, LoopsEnd
  <1>2. ASSUME NEW n \in Texts, AppendText(n) PROVE BuilderInv'
    BY <1>2, SizeAssumption, TextsAssumption
    DEF AppendText, BuilderTypeOK, RoomAskedFor, Allocation, WritesFit, LoopsEnd
  <1>3. ASSUME NEW n \in Texts, AppendFormatted(n) PROVE BuilderInv'
    BY <1>3, SizeAssumption, TextsAssumption
    DEF AppendFormatted, BuilderTypeOK, RoomAskedFor, Allocation, WritesFit, LoopsEnd
  <1>4. CASE Reserve
    <2>1. Needed = len + text + rounds + 1
      BY <1>4, SumsExact DEF Reserve
    <2>2. BuilderTypeOK'
      BY <1>4, FirstCapAssumption, SizeAssumption DEF Reserve, Granted, BuilderTypeOK
    <2>3. RoomAskedFor' /\ Allocation'
      BY <1>4, <1>0 DEF Reserve, Granted, RoomAskedFor, Allocation
    <2>4. WritesFit' /\ LoopsEnd'
      BY <1>4, <2>1, <1>0, FirstCapAssumption DEF Reserve, Granted, Allocation, WritesFit, LoopsEnd
    <2> QED
      BY <2>2, <2>3, <2>4
  <1>5. CASE Double
    <2>1. nextCap * 2 \in Nat /\ nextCap * 2 <= SizeMax
      BY <1>5, <1>0, HalfOfSize DEF Double, DoublingTooLarge
    <2>2. nextCap' = nextCap * 2
      BY <1>5, <2>1, SizeExact DEF Double
    <2> QED
      BY <1>5, <2>1, <2>2
      DEF Double, BuilderTypeOK, RoomAskedFor, Allocation, WritesFit, LoopsEnd
  <1>6. CASE Realloc
    <2>1. Needed = len + text + rounds + 1
      BY <1>6, SumsExact DEF Realloc
    <2>2. BuilderTypeOK'
      BY <1>6 DEF Realloc, Granted, BuilderTypeOK
    <2>3. RoomAskedFor' /\ Allocation'
      BY <1>6, <1>0 DEF Realloc, Granted, RoomAskedFor, Allocation
    <2>4. WritesFit' /\ LoopsEnd'
      BY <1>6, <2>1, <1>0 DEF Realloc, Granted, Allocation, WritesFit, LoopsEnd
    <2> QED
      BY <2>2, <2>3, <2>4
  <1>7. CASE Copy
    <2>1. len' = len + text
      BY <1>7, SumsExact DEF Copy
    <2> QED
      BY <1>7, <2>1, <1>0, SizeAssumption
      DEF Copy, BuilderTypeOK, RoomAskedFor, Allocation, WritesFit, LoopsEnd
  <1>8. CASE Format
    <2>1. Size(len + text) = len + text /\ Size(text + 1) = text + 1
      BY <1>8, SumsExact DEF Format
    <2>2. CASE Formatted
      BY <1>8, <2>1, <2>2, <1>0, SizeAssumption
      DEF Format, Formatted, BuilderTypeOK, RoomAskedFor, Allocation, WritesFit,
          LoopsEnd
    <2>3. CASE ~Formatted
      <3>1. rounds = 0
        BY <1>8, <2>1, <2>3, <1>0 DEF Format, Formatted, LoopsEnd
      <3>2. text + 1 <= SizeMax
        BY <1>8, <1>0, SumsExact, SizeAssumption DEF Format
      <3> QED
        BY <1>8, <2>1, <2>3, <3>1, <3>2, <1>0
        DEF Format, BuilderTypeOK, RoomAskedFor, Allocation, WritesFit, LoopsEnd
    <2> QED
      BY <2>2, <2>3
  <1>9. ASSUME NoBuffer PROVE BuilderInv'
    BY <1>9, SizeAssumption
    DEF NoBuffer, BuilderTypeOK, RoomAskedFor, Allocation, WritesFit, LoopsEnd
  <1>10. CASE UNCHANGED builderVars
    BY <1>10
    DEF builderVars, BuilderTypeOK, RoomAskedFor, Allocation, WritesFit, LoopsEnd
  <1> QED
    BY <1>1, <1>2, <1>3, <1>4, <1>5, <1>6, <1>7, <1>8, <1>9, <1>10
    DEF BuilderNext, BuilderStep, Refuse, Release

-----------------------------------------------------------------------------
(* The exchange as a whole, and the sending of a response.                 *)

\* Where in the response a piece begins.
Before(p) ==
  IF p = 1 THEN 0 ELSE IF p = 2 THEN HeaderLen ELSE HeaderLen + bodyLen

SenderTypeOK ==
  /\ bodyLen \in Nat /\ newline \in BOOLEAN
  /\ piece \in 1..3 /\ position \in Nat
  /\ stream \in Seq(Nat \X Nat)
  /\ sending \in {"no", "yes", "sent", "broken"}

\* The client has what was in front of the piece and what send_all has sent of
\* it, byte by byte as the response has them.
SentSoFar ==
  /\ announced = ResponseBodyLen(bodyLen, newline)
  /\ position <= PieceLen[piece]
  /\ Len(stream) = Before(piece) + position
  /\ \A i \in 1..Len(stream) : stream[i] = Response[i]

\* Nothing is sent before the start, and at the end nothing is left.
StartAndEnd ==
  /\ sending = "no" => piece = 1 /\ position = 0
  /\ sending = "sent" => piece = 3 /\ position = PieceLen[3]

SenderInv == SenderTypeOK /\ SentSoFar /\ StartAndEnd

\* The lengths of the pieces are those that the header announces.
LEMMA Lengths ==
  ASSUME SenderTypeOK
  PROVE  /\ PieceLen[1] = HeaderLen
         /\ PieceLen[2] = bodyLen
         /\ PieceLen[3] \in Nat
         /\ ResponseBodyLen(bodyLen, newline) = bodyLen + PieceLen[3]
  BY DEF SenderTypeOK, PieceLen, ResponseBodyLen

\* The next byte of a piece is the next byte of the response.
LEMMA ResponseAt ==
  ASSUME SenderInv, NEW k \in Nat \ {0}, position + k <= PieceLen[piece]
  PROVE  /\ Len(stream) + k \in 1..HeaderLen + announced
         /\ Response[Len(stream) + k] = <<piece, position + k>>
  <1>1. /\ HeaderLen \in Nat /\ bodyLen \in Nat /\ announced \in Nat
        /\ position \in Nat /\ piece \in {1, 2, 3}
        /\ Len(stream) = Before(piece) + position
        /\ announced = bodyLen + PieceLen[3]
    BY Lengths, HeaderAssumption DEF SenderInv, SenderTypeOK, SentSoFar
  <1>2. CASE piece = 1
    BY <1>1, <1>2, Lengths DEF Before, Response, SenderInv
  <1>3. CASE piece = 2
    <2>1. k + position <= bodyLen
      BY <1>1, <1>3, Lengths DEF SenderInv
    <2>2. /\ Len(stream) + k = HeaderLen + (position + k)
          /\ Len(stream) + k \in 1..HeaderLen + announced
      BY <1>1, <1>3, <2>1, Lengths DEF Before, SenderInv
    <2>3. Response[Len(stream) + k] = <<2, (Len(stream) + k) - HeaderLen>>
      <3> DEFINE i == Len(stream) + k
      <3>1. i \in 1..HeaderLen + announced /\ ~(i <= HeaderLen) /\ i <= HeaderLen + bodyLen
        BY <1>1, <2>1, <2>2
      <3> HIDE DEF i
      <3>2. Response[i] = <<2, i - HeaderLen>>
        BY <3>1 DEF Response
      <3> QED
        BY <3>2 DEF i
    <2> QED
      BY <1>1, <1>3, <2>2, <2>3
  <1>4. CASE piece = 3
    BY <1>1, <1>4, Lengths DEF Before, Response, SenderInv
  <1> QED
    BY <1>1, <1>2, <1>3, <1>4

\* A response whose description has not changed is the same one.
LEMMA SameResponse ==
  ASSUME bodyLen' = bodyLen, announced' = announced, newline' = newline
  PROVE  /\ Response' = Response
         /\ PieceLen' = PieceLen
         /\ ResponseBodyLen(bodyLen, newline)' = ResponseBodyLen(bodyLen, newline)
         /\ \A p : Before(p)' = Before(p)
  BY DEF Response, PieceLen, ResponseBodyLen, Before

\* Every step of the sender preserves the invariant.
LEMMA SenderStepPreserves == ASSUME SenderInv, SenderStep PROVE SenderInv'
  <1>0. /\ bodyLen \in Nat /\ newline \in BOOLEAN /\ piece \in 1..3 /\ position \in Nat
        /\ stream \in Seq(Nat \X Nat) /\ Len(stream) \in Nat
    BY LenProperties DEF SenderInv, SenderTypeOK
  <1>1. /\ bodyLen' = bodyLen /\ announced' = announced /\ newline' = newline
    BY DEF SenderStep, Send, PieceDone, SendFail
  <1>2. ASSUME NEW n \in 1..PieceLen[piece] - position, Send(n) PROVE SenderInv'
    <2>1. PieceLen[piece] \in Nat
      BY <1>0, Lengths, HeaderAssumption DEF SenderInv
    <2>2. n \in Nat \ {0} /\ position + n <= PieceLen[piece]
      BY <1>0, <1>2, <2>1
    <2> DEFINE part == NextBytes(n)
    <2>3. part \in Seq(Nat \X Nat) /\ Len(part) = n
      <3>1. \A i \in 1..n : <<piece, position + i>> \in Nat \X Nat
        BY <1>0, <2>2
      <3> QED
        BY <2>2, <3>1 DEF NextBytes
    <2>4. \A i \in 1..n : part[i] = <<piece, position + i>>
      BY DEF NextBytes
    <2> HIDE DEF part
    <2>5. /\ stream' = stream \o part /\ position' = position + n
          /\ piece' = piece /\ sending' = sending /\ sending = "yes"
      BY <1>2 DEF Send, part
    <2>6. /\ stream' \in Seq(Nat \X Nat)
          /\ Len(stream') = Len(stream) + n
          /\ \A i \in 1..Len(stream) : stream'[i] = stream[i]
          /\ \A i \in Len(stream) + 1..Len(stream) + n : stream'[i] = part[i - Len(stream)]
      <3>1. Len(stream \o part) = Len(stream) + Len(part)
        BY <1>0, <2>3, ConcatProperties
      <3>2. stream \o part \in Seq(Nat \X Nat)
        BY <1>0, <2>3, ConcatProperties
      <3>3. \A i \in 1..Len(stream) + Len(part) :
              (stream \o part)[i] = IF i <= Len(stream) THEN stream[i]
                                    ELSE part[i - Len(stream)]
        BY <1>0, <2>3, ConcatProperties
      <3> HIDE DEF SenderInv
      <3> QED
        BY <1>0, <2>2, <2>3, <2>5, <3>1, <3>2, <3>3
    <2>7. SenderTypeOK'
      BY <1>0, <1>1, <2>2, <2>5, <2>6 DEF SenderInv, SenderTypeOK
    <2>8. ASSUME NEW i \in 1..Len(stream') PROVE stream'[i] = Response[i]
      <3>1. CASE i <= Len(stream)
        <4>1. i \in 1..Len(stream)
          BY <1>0, <2>2, <2>6, <2>8, <3>1
        <4> QED
          BY <2>6, <4>1 DEF SenderInv, SentSoFar
      <3>2. CASE i > Len(stream)
        <4> DEFINE k == i - Len(stream)
        <4>1. k \in 1..n /\ k \in Nat \ {0} /\ i = Len(stream) + k
          BY <1>0, <2>2, <2>6, <2>8, <3>2
        <4>2. position + k <= PieceLen[piece]
          BY <1>0, <2>1, <2>2, <4>1
        <4> HIDE DEF k
        <4>3. Response[Len(stream) + k] = <<piece, position + k>>
          BY <4>1, <4>2, ResponseAt
        <4>4. stream'[i] = part[k]
          <5>1. i \in Len(stream) + 1..Len(stream) + n /\ i - Len(stream) = k
            BY <1>0, <2>2, <4>1
          <5>2. stream'[i] = part[i - Len(stream)]
            BY <2>6, <5>1
          <5> QED
            BY <5>1, <5>2
        <4> QED
          BY <2>4, <4>1, <4>3, <4>4
      <3> QED
        BY <1>0, <2>2, <2>6, <3>1, <3>2
    <2>9. Before(piece) \in Nat
      BY <1>0, HeaderAssumption DEF Before
    <2>10. Len(stream') = Before(piece) + (position + n)
      BY <1>0, <2>2, <2>6, <2>9 DEF SenderInv, SentSoFar
    <2>11. SentSoFar'
      BY <1>1, <2>2, <2>5, <2>8, <2>10, SameResponse DEF SenderInv, SentSoFar
    <2>12. StartAndEnd'
      BY <2>5 DEF StartAndEnd
    <2> QED
      BY <2>7, <2>11, <2>12 DEF SenderInv
  <1>3. CASE PieceDone
    <2>1. stream' = stream
      BY <1>3 DEF PieceDone
    <2>2. /\ PieceLen[1] = HeaderLen /\ PieceLen[2] = bodyLen /\ PieceLen[3] \in Nat
      BY Lengths DEF SenderInv
    <2>3. SenderTypeOK'
      BY <1>0, <1>1, <1>3, <2>1 DEF PieceDone, SenderInv, SenderTypeOK
    <2>4. position' <= PieceLen[piece'] /\ Before(piece') + position' = Before(piece) + position
      <3>1. CASE piece = 1
        BY <1>0, <1>3, <2>2, <3>1, HeaderAssumption DEF PieceDone, Before
      <3>2. CASE piece = 2
        BY <1>0, <1>3, <2>2, <3>2, HeaderAssumption DEF PieceDone, Before
      <3>3. CASE piece = 3
        BY <1>0, <1>3, <2>2, <3>3, HeaderAssumption DEF PieceDone, Before
      <3> QED
        BY <1>0, <3>1, <3>2, <3>3
    <2>5. SentSoFar'
      BY <1>1, <2>1, <2>4, SameResponse DEF SenderInv, SentSoFar
    <2>6. StartAndEnd'
      BY <1>1, <1>3, SameResponse DEF PieceDone, SenderInv, StartAndEnd
    <2> QED
      BY <2>3, <2>5, <2>6 DEF SenderInv
  <1>4. CASE SendFail
    <2>1. stream' = stream /\ piece' = piece /\ position' = position /\ sending' = "broken"
      BY <1>4 DEF SendFail
    <2> QED
      BY <1>1, <2>1, SameResponse
      DEF SenderInv, SenderTypeOK, SentSoFar, StartAndEnd
  <1> QED
    BY <1>2, <1>3, <1>4 DEF SenderStep

\* The response begins with nothing sent.
LEMMA StartPreserves ==
  ASSUME SenderInv, NEW n \in Nat, NEW nl \in BOOLEAN, StartSending(n, nl)
  PROVE  SenderInv'
  <1>1. /\ bodyLen' = n /\ newline' = nl /\ announced' = ResponseBodyLen(n, nl)
        /\ piece' = 1 /\ position' = 0 /\ stream' = stream /\ sending' = "yes"
    BY DEF StartSending, SenderInv, StartAndEnd
  <1>2. SenderTypeOK'
    BY <1>1 DEF SenderInv, SenderTypeOK
  <1>3. Len(stream') = 0
    BY <1>1, HeaderAssumption DEF StartSending, SenderInv, StartAndEnd, SentSoFar, Before
  <1>4. Before(piece)' = 0 /\ PieceLen'[1] = HeaderLen
    BY <1>1 DEF Before, PieceLen
  <1>5. SentSoFar'
    BY <1>1, <1>3, <1>4, HeaderAssumption DEF SentSoFar, ResponseBodyLen
  <1>6. StartAndEnd'
    BY <1>1 DEF StartAndEnd
  <1> QED
    BY <1>2, <1>5, <1>6 DEF SenderInv

\* The two parts of the exchange whose lengths meet: a body is as long as what the
\* builder holds.
ExchangeInv == BuilderInv /\ SenderInv

\* Every step of the exchange preserves both invariants.
LEMMA ExchangeNext == ASSUME ExchangeInv, [Next]_vars PROVE ExchangeInv'
  <1>1. [BuilderNext]_builderVars
    BY DEF Next, vars, Reading, BeginResponse, Building, BeginSending, Sending, Closed,
           BuilderNext
  <1>2. BuilderInv'
    BY <1>1, BuilderInvPreserved DEF ExchangeInv
  <1>3. CASE UNCHANGED senderVars
    BY <1>2, <1>3, SameResponse
    DEF ExchangeInv, senderVars, SenderInv, SenderTypeOK, SentSoFar, StartAndEnd
  <1>4. CASE BeginSending
    <2>1. len \in Nat
      BY DEF ExchangeInv, BuilderInv, BuilderTypeOK
    <2>2. PICK n \in Nat, nl \in BOOLEAN : StartSending(n, nl)
      BY <1>4, <2>1, FixedBodyAssumption DEF BeginSending
    <2> QED
      BY <1>2, <2>2, StartPreserves DEF ExchangeInv
  <1>5. CASE Sending
    BY <1>2, <1>5, SenderStepPreserves DEF Sending, ExchangeInv
  <1>6. \/ UNCHANGED senderVars \/ BeginSending \/ Sending
    BY DEF Next, vars, Reading, BeginResponse, Building, Closed
  <1> QED
    BY <1>2, <1>3, <1>4, <1>5, <1>6 DEF ExchangeInv

\* The invariant holds of every connection.
THEOREM ExchangeInvariant == Spec => []ExchangeInv
  <1>1. Init => BuilderInv
    BY SizeAssumption
    DEF Init, BuilderInit, BuilderInv, BuilderTypeOK, RoomAskedFor, Allocation,
        WritesFit, LoopsEnd
  <1>2. Init => SenderInv
    <2> SUFFICES ASSUME Init PROVE SenderInv
      OBVIOUS
    <2>1. /\ bodyLen = 0 /\ newline = FALSE /\ announced = 0 /\ piece = 1
          /\ position = 0 /\ stream = <<>> /\ sending = "no"
      BY DEF Init, SenderInit
    <2>2. stream \in Seq(Nat \X Nat) /\ Len(stream) = 0
      BY <2>1, EmptySeq
    <2>3. SentSoFar
      BY <2>1, <2>2, HeaderAssumption DEF SentSoFar, ResponseBodyLen, PieceLen, Before
    <2>4. SenderTypeOK
      <3>1. bodyLen \in Nat /\ piece \in 1..3 /\ position \in Nat
        BY <2>1
      <3>2. newline \in BOOLEAN /\ sending \in {"no", "yes", "sent", "broken"}
        BY <2>1, Zenon
      <3> QED
        BY <2>2, <3>1, <3>2 DEF SenderTypeOK
    <2>5. StartAndEnd
      BY <2>1 DEF StartAndEnd
    <2> QED
      BY <2>3, <2>4, <2>5 DEF SenderInv
  <1> QED
    BY <1>1, <1>2, ExchangeNext, PTL DEF Spec, ExchangeInv

\* However many bytes each send takes, the client gets a prefix of the response,
\* and all of it and nothing else when http_send_json_with_thread succeeds.
THEOREM ResponseArrivesExactly == Spec => []ResponseIsExact
  <1>1. ExchangeInv => ResponseIsExact
    <2> SUFFICES ASSUME SenderInv PROVE ResponseIsExact
      BY DEF ExchangeInv
    <2>1. /\ HeaderLen \in Nat /\ bodyLen \in Nat /\ position \in Nat
          /\ PieceLen[1] = HeaderLen /\ PieceLen[2] = bodyLen /\ PieceLen[3] \in Nat
          /\ announced = bodyLen + PieceLen[3]
          /\ stream \in Seq(Nat \X Nat) /\ Len(stream) \in Nat
      BY Lengths, LenProperties, HeaderAssumption DEF SenderInv, SenderTypeOK, SentSoFar
    <2>2. Len(stream) <= HeaderLen + announced
      BY <2>1 DEF SenderInv, SenderTypeOK, SentSoFar, Before
    <2>3. sending = "sent" => Len(stream) = HeaderLen + announced
      BY <2>1 DEF SenderInv, SentSoFar, StartAndEnd, Before
    <2>4. SubSeq(Response, 1, Len(stream)) = [i \in 1..Len(stream) |-> Response[i]]
      BY <2>1, <2>2 DEF Response
    <2>5. stream = [i \in 1..Len(stream) |-> stream[i]]
      BY <2>1, LenProperties
    <2>6. stream = SubSeq(Response, 1, Len(stream))
      BY <2>4, <2>5 DEF SenderInv, SentSoFar
    <2> QED
      BY <2>3, <2>6 DEF ResponseIsExact
  <1> QED
    BY <1>1, ExchangeInvariant, PTL

\* In every exchange, no append writes outside the buffer of src/util.c.
THEOREM BuilderWritesFit == Spec => []WritesFit
  <1>1. ExchangeInv => WritesFit
    BY DEF ExchangeInv, BuilderInv
  <1> QED
    BY <1>1, ExchangeInvariant, PTL

\* In every exchange, both loops of src/util.c come to their end.
THEOREM BuilderLoopsEnd == Spec => []LoopsEnd
  <1>1. ExchangeInv => LoopsEnd
    BY DEF ExchangeInv, BuilderInv
  <1> QED
    BY <1>1, ExchangeInvariant, PTL

\* In every exchange, all sizes of the builder stay in the range of a size_t.
THEOREM BuilderTypes == Spec => []BuilderTypeOK
  <1>1. ExchangeInv => BuilderTypeOK
    BY DEF ExchangeInv, BuilderInv
  <1> QED
    BY <1>1, ExchangeInvariant, PTL

-----------------------------------------------------------------------------
(* Reading a request: the buffer and the body's array are never overrun.   *)

\* The minimum of a set of numbers is one of them, and no other is smaller.
LEMMA MinIsLeast ==
  ASSUME NEW T, T \subseteq Nat, T # {}
  PROVE  Min(T) \in T /\ \A y \in T : Min(T) <= y
  <1>1. \E x \in T : \A y \in T : x <= y
    BY LeastNumber
  <1> QED
    BY <1>1 DEF Min

\* The C string in a buffer is a text no longer than the buffer.
LEMMA CStringIsPart ==
  ASSUME NEW b \in Seq(Bytes)
  PROVE  CString(b) \in Seq(Bytes) /\ Len(CString(b)) <= Len(b)
  <1> DEFINE T == {i \in 1..Len(b) : b[i] = "nul"} \cup {Len(b) + 1}
  <1>1. Len(b) \in Nat
    BY LenProperties
  <1>2. T \subseteq Nat /\ T # {} /\ \A y \in T : y \in 1..Len(b) + 1
    BY <1>1
  <1> HIDE DEF T
  <1>3. Min(T) \in 1..Len(b) + 1
    BY <1>2, MinIsLeast
  <1> DEFINE m == Min(T) - 1
  <1>4. CString(b) = SubSeq(b, 1, m)
    BY DEF CString, T
  <1>5. m \in 0..Len(b)
    BY <1>1, <1>3
  <1> HIDE DEF m
  <1>6. SubSeq(b, 1, m) = [i \in 1..m |-> b[i]]
    BY <1>1, <1>5
  <1>7. \A i \in 1..m : b[i] \in Bytes
    BY <1>1, <1>5, ElementOfSeq
  <1>8. [i \in 1..m |-> b[i]] \in Seq(Bytes) /\ Len([i \in 1..m |-> b[i]]) = m
    BY <1>5, <1>7, IsASeq
  <1> QED
    BY <1>1, <1>4, <1>5, <1>6, <1>8

\* The empty line behind the headers lies inside the C string.
LEMMA HeadersEndInside ==
  ASSUME NEW b \in Seq(Bytes), HeadersEnd(b) # 0
  PROVE  HeadersEnd(b) \in Nat \ {0} /\ HeadersEnd(b) + 3 <= Len(CString(b))
  <1> DEFINE s == CString(b)
             x == CRLF \o CRLF
             hits == {i \in 1..Len(s) - Len(x) + 1 : SubSeq(s, i, i + Len(x) - 1) = x}
  <1>1. Len(s) \in Nat
    BY CStringIsPart, LenProperties
  <1>2. Len(x) = 4
    BY DEF CRLF
  <1>3. HeadersEnd(b) = IF hits = {} THEN 0 ELSE Min(hits)
    BY DEF HeadersEnd, Find
  <1>4. \A i \in hits : i \in 1..Len(s) - Len(x) + 1
    OBVIOUS
  <1> HIDE DEF s, x, hits
  <1>5. hits \subseteq Nat
    BY <1>1, <1>2, <1>4
  <1>6. HeadersEnd(b) \in hits
    BY <1>3, <1>5, MinIsLeast
  <1> QED
    BY <1>1, <1>2, <1>4, <1>6 DEF s

\* strspn: the place behind a run of characters of C.
LEMMA SkipStops ==
  ASSUME NEW s \in Seq(Bytes), NEW i \in 1..Len(s) + 1, NEW C
  PROVE  /\ Skip(s, i, C) \in i..Len(s) + 1
         /\ \A j \in i..Skip(s, i, C) - 1 : s[j] \in C
  <1> DEFINE T == {j \in i..Len(s) : s[j] \notin C} \cup {Len(s) + 1}
  <1>1. Len(s) \in Nat
    BY LenProperties
  <1>2. T \subseteq Nat /\ T # {} /\ \A y \in T : y \in i..Len(s) + 1
    BY <1>1
  <1>3. \A j \in i..Len(s) : j \notin T => s[j] \in C
    OBVIOUS
  <1> HIDE DEF T
  <1>4. Min(T) \in i..Len(s) + 1 /\ \A y \in T : Min(T) <= y
    BY <1>2, MinIsLeast
  <1>5. Skip(s, i, C) = Min(T)
    BY DEF Skip, T
  <1>6. ASSUME NEW j \in i..Min(T) - 1 PROVE s[j] \in C
    <2>1. j \in i..Len(s) /\ ~(Min(T) <= j)
      BY <1>1, <1>4, <1>6
    <2> QED
      BY <1>3, <1>4, <2>1
  <1> QED
    BY <1>4, <1>5, <1>6

\* What parse_content_length reads from digits is a number: the equation of
\* Number has a solution and each of its values is natural, both by induction on
\* how many digits there are.
LEMMA NumberIsNatural ==
  ASSUME NEW s, NEW j \in Nat, Len(s) = j, \A k \in 1..j : s[k] \in Digits
  PROVE  Number(s) \in Nat
  <1> DEFINE Digit(k) == DigitValue(s[k])
             Solves(f, n) ==
               f = [k \in 0..n |-> IF k = 0 THEN 0 ELSE 10 * f[k - 1] + Digit(k)]
             T == {d \in Nat : \E f \in [0..d -> Nat] : Solves(f, d)}
  <1>1. \A k \in 1..j : Digit(k) \in Nat
    <2> TAKE k \in 1..j
    <2>1. s[k] \in Digits
      OBVIOUS
    <2> QED
      BY <2>1 DEF Digits, DigitValue
  <1> HIDE DEF Digit
  <1>2. 0 \in T
    <2> DEFINE f == [k \in 0..0 |-> 0]
    <2>1. f \in [0..0 -> Nat] /\ Solves(f, 0)
      OBVIOUS
    <2> QED
      BY <2>1
  <1>3. ASSUME NEW d \in 0..j - 1, d \in T PROVE d + 1 \in T
    <2>1. PICK f \in [0..d -> Nat] : Solves(f, d)
      BY <1>3
    <2> DEFINE new == 10 * f[d] + Digit(d + 1)
               h == [k \in 0..d + 1 |-> IF k = d + 1 THEN new ELSE f[k]]
    <2>2. new \in Nat
      BY <1>1
    <2>3. h \in [0..d + 1 -> Nat]
      BY <2>2
    <2>4. ASSUME NEW k \in 0..d + 1
          PROVE  h[k] = IF k = 0 THEN 0 ELSE 10 * h[k - 1] + Digit(k)
      <3>1. CASE k = d + 1
        <4>1. k # 0 /\ k - 1 = d /\ h[k - 1] = f[d] /\ h[k] = new
          BY <3>1
        <4> QED
          BY <3>1, <4>1
      <3>2. CASE k # d + 1
        <4>1. k \in 0..d /\ h[k] = f[k] /\ (k # 0 => h[k - 1] = f[k - 1])
          BY <3>2
        <4>2. f[k] = IF k = 0 THEN 0 ELSE 10 * f[k - 1] + Digit(k)
          BY <2>1, <4>1
        <4> HIDE DEF h
        <4> QED
          BY <4>1, <4>2
      <3> QED
        BY <3>1, <3>2
    <2> HIDE DEF new
    <2>5. h = [k \in 0..d + 1 |-> h[k]]
      OBVIOUS
    <2> HIDE DEF h
    <2>6. Solves(h, d + 1)
      BY <2>4, <2>5
    <2>7. d + 1 \in Nat
      OBVIOUS
    <2> QED
      BY <2>3, <2>6, <2>7
  <1> HIDE DEF T
  <1>5. j \in T
    <2>1. 0..j \subseteq T
      BY <1>2, <1>3, SetInduction
    <2> QED
      BY <2>1
  <1>6. PICK f \in [0..j -> Nat] : Solves(f, j)
    BY <1>5 DEF T
  <1> DEFINE value == CHOOSE g : Solves(g, j)
  <1>7. Solves(value, j)
    BY <1>6
  <1>8. Number(s) = value[j]
    BY DEF Number, Digit
  <1> HIDE DEF value
  <1> DEFINE U == {d \in Nat : d <= j => value[d] \in Nat}
  <1>9. 0 \in U
    BY <1>7
  <1>10. ASSUME NEW d \in 0..j - 1, d \in U PROVE d + 1 \in U
    <2>1. d + 1 \in 0..j /\ d + 1 # 0 /\ (d + 1) - 1 = d
      OBVIOUS
    <2>2. value[d + 1] = 10 * value[d] + Digit(d + 1)
      BY <1>7, <2>1
    <2>3. value[d] \in Nat /\ Digit(d + 1) \in Nat
      BY <1>1, <1>10
    <2> QED
      BY <2>2, <2>3
  <1> HIDE DEF U
  <1>11. j \in U
    <2>1. 0..j \subseteq U
      BY <1>9, <1>10, SetInduction
    <2> QED
      BY <2>1
  <1> QED
    BY <1>8, <1>11 DEF U

\* A piece of a sequence of bytes is one, with the length its bounds give.
LEMMA PartOfBytes ==
  ASSUME NEW b \in Seq(Bytes), NEW m \in Nat \ {0}, NEW n \in 0..Len(b), m <= n + 1
  PROVE  /\ SubSeq(b, m, n) \in Seq(Bytes) /\ Len(SubSeq(b, m, n)) = n - m + 1
         /\ \A i \in 1..n - m + 1 : SubSeq(b, m, n)[i] = b[m + i - 1]
  <1>1. Len(b) \in Nat
    BY LenProperties
  <1>2. \A i \in m..n : b[i] \in Bytes
    BY <1>1, ElementOfSeq
  <1>3. SubSeq(b, m, n) \in Seq(Bytes) /\ Len(SubSeq(b, m, n)) = n - m + 1
    BY <1>1, <1>2, SubSeqProperties
  <1>4. \A i \in 1..n - m + 1 : SubSeq(b, m, n)[i] = b[m + i - 1]
    BY <1>1
  <1> QED
    BY <1>3, <1>4

\* parse_content_length yields a length.
LEMMA ContentLengthIsNatural ==
  ASSUME NEW b \in Seq(Bytes), HeadersEnd(b) # 0
  PROVE  ContentLength(b).length \in Nat
  <1> DEFINE s == CString(b)
             lines == LengthLines(b)
             value == Skip(s, Min(lines) + 1, Blanks)
             end == Skip(s, value, Digits)
             digits == SubSeq(s, value, end - 1)
  <1>1. /\ HeadersEnd(b) \in Nat /\ HeadersEnd(b) + 3 <= Len(s)
        /\ s \in Seq(Bytes) /\ Len(s) \in Nat
    BY HeadersEndInside, CStringIsPart, LenProperties
  <1>2. \A i \in lines : i \in 3..HeadersEnd(b) - 1
    BY DEF LengthLines
  <1>3. ContentLength(b).length
          = IF lines = {} \/ end = value THEN 0 ELSE Number(digits)
    BY DEF ContentLength
  <1> HIDE DEF s, lines
  <1>4. ASSUME lines # {} PROVE Number(digits) \in Nat
    <2>1. Min(lines) + 1 \in 1..Len(s) + 1
      <3>1. lines \subseteq Nat
        BY <1>1, <1>2
      <3>2. Min(lines) \in lines
        BY <1>4, <3>1, MinIsLeast
      <3> QED
        BY <1>1, <1>2, <3>2
    <2>2. value \in 1..Len(s) + 1
      BY <1>1, <2>1, SkipStops
    <2> HIDE DEF value
    <2>3. end \in value..Len(s) + 1 /\ \A j \in value..end - 1 : s[j] \in Digits
      BY <1>1, <2>2, SkipStops
    <2> HIDE DEF end
    <2>4. /\ value \in Nat \ {0} /\ end - 1 \in 0..Len(s) /\ value <= (end - 1) + 1
          /\ end - value \in Nat /\ (end - 1) - value + 1 = end - value
      BY <1>1, <2>2, <2>3
    <2>5. /\ Len(digits) = end - value
          /\ \A i \in 1..end - value : digits[i] = s[value + i - 1]
      BY <1>1, <2>4, PartOfBytes
    <2>6. \A i \in 1..end - value : value + i - 1 \in value..end - 1
      BY <2>4
    <2> HIDE DEF digits
    <2> QED
      BY <2>3, <2>4, <2>5, <2>6, NumberIsNatural
  <1> QED
    BY <1>3, <1>4

\* The reader's state while it reads, and that it is reset when the response
\* begins.  What is left of the body fits behind what there is of it.
ReaderInv ==
  /\ stage = "read" =>
       /\ message.bytes \in Seq(Bytes) /\ message \in Messages
       /\ used \in 0..MaxRequest
       /\ reading = "body" =>
            /\ DOMAIN request = {"method", "path", "body"}
            /\ request.body \in Seq(Bytes)
            /\ need \in 0..MaxRequest /\ used <= need
            /\ Len(request.body) + (need - used) <= MaxBody
       /\ reading = "read" => Len(request.body) <= MaxBody
  /\ stage # "read" => used = 0 /\ reading = "head"

\* The first piece with a complete head leaves room for the rest of the body.
LEMMA HeadLeavesRoom ==
  ASSUME NEW b \in Seq(Bytes), HeadersEnd(b) # 0, HeadOk(b),
         NEW total, total = HeadersEnd(b) + 3 + ContentLength(b).length
  PROVE  /\ total \in 0..MaxRequest
         /\ RequestFrom(b, total).body \in Seq(Bytes)
         /\ Len(b) < total =>
              Len(RequestFrom(b, total).body) + (total - Len(b)) <= MaxBody
         /\ Len(RequestFrom(b, total).body) <= MaxBody
  <1>1. /\ HeadersEnd(b) \in Nat \ {0} /\ HeadersEnd(b) + 3 <= Len(b)
        /\ Len(b) \in Nat
    BY HeadersEndInside, CStringIsPart, LenProperties
  <1>2. ContentLength(b).length \in Nat
    BY ContentLengthIsNatural
  <1>3. ContentLength(b).length <= MaxBody /\ total <= MaxRequest
    BY DEF HeadOk, HeadFits
  <1> DEFINE e == Min({total, Len(b)})
  <1>4. total \in Nat /\ HeadersEnd(b) + 3 <= total
    BY <1>1, <1>2
  <1>5. e \in {total, Len(b)} /\ e <= total /\ e <= Len(b)
    <2>1. {total, Len(b)} \subseteq Nat /\ {total, Len(b)} # {}
      BY <1>1, <1>4
    <2> QED
      BY <2>1, MinIsLeast
  <1>6. RequestFrom(b, total).body = SubSeq(b, HeadersEnd(b) + 4, e)
    BY DEF RequestFrom
  <1> HIDE DEF e
  <1>7. e \in 0..Len(b) /\ HeadersEnd(b) + 4 \in Nat \ {0} /\ HeadersEnd(b) + 4 <= e + 1
    BY <1>1, <1>4, <1>5
  <1>8. /\ RequestFrom(b, total).body \in Seq(Bytes)
        /\ Len(RequestFrom(b, total).body) = e - (HeadersEnd(b) + 4) + 1
    BY <1>6, <1>7, PartOfBytes
  <1>9. total \in 0..MaxRequest
    BY <1>3, <1>4, LimitsAssumption
  <1> DEFINE h == HeadersEnd(b)  l == ContentLength(b).length  n == Len(b)
             k == Len(RequestFrom(b, total).body)
  <1>a. /\ h \in Nat /\ l \in Nat /\ n \in Nat /\ total \in Nat /\ e \in Nat
        /\ MaxBody \in Nat
    BY <1>1, <1>2, <1>4, <1>7, LimitsAssumption
  <1>b. k = e - (h + 4) + 1 /\ total = h + 3 + l /\ l <= MaxBody /\ e <= total
    BY <1>3, <1>5, <1>8
  <1>10. k <= MaxBody
    <2> HIDE DEF h, l, k
    <2> QED
      BY ONLY <1>a, <1>b
  <1>11. ASSUME Len(b) < total
         PROVE  Len(RequestFrom(b, total).body) + (total - Len(b)) <= MaxBody
    <2>1. e = Len(b)
      BY <1>1, <1>4, <1>5, <1>11
    <2> QED
      <3>1. k + (total - n) <= MaxBody
        <4> HIDE DEF h, l, k, n
        <4> QED
          BY ONLY <1>a, <1>b, <2>1 DEF n
      <3> QED
        BY <3>1
  <1> QED
    BY <1>8, <1>9, <1>10, <1>11

\* Every step of the reader preserves the invariant.
LEMMA ReaderStepPreserves ==
  ASSUME ReaderInv, stage = "read", stage' = "read", ReaderStep
  PROVE  ReaderInv'
  <1>0. /\ message.bytes \in Seq(Bytes) /\ message \in Messages
        /\ used \in 0..MaxRequest /\ Len(message.bytes) \in Nat
        /\ message' = message
    BY LenProperties
    DEF ReaderInv, ReaderStep, RecvHead, RecvBody, RecvEnd, RecvFail
  <1>1. ASSUME NEW n \in 1..Len(message.bytes) - used, RecvHead(n) PROVE ReaderInv'
    <2> DEFINE b == SubSeq(message.bytes, 1, used + n)
               total == HeadersEnd(b) + 3 + ContentLength(b).length
    <2>1. /\ used + n \in 0..Len(message.bytes) /\ used + n \in 0..MaxRequest
          /\ used' = used + n
      BY <1>0, <1>1, LimitsAssumption DEF RecvHead
    <2>2. b \in Seq(Bytes) /\ Len(b) = used + n
      BY <1>0, <2>1, PartOfBytes, LimitsAssumption
    <2>3. CASE HeadersEnd(b) = 0
      <3>1. reading' \in {"head", "refused"}
        BY <1>1, <2>3 DEF RecvHead
      <3> QED
        BY <1>0, <2>1, <3>1 DEF ReaderInv
    <2>4. CASE HeadersEnd(b) # 0 /\ ~HeadOk(b)
      <3>1. reading' = "refused"
        BY <1>1, <2>4 DEF RecvHead
      <3> QED
        BY <1>0, <2>1, <3>1 DEF ReaderInv
    <2>5. CASE HeadersEnd(b) # 0 /\ HeadOk(b)
      <3>1. /\ need' = total /\ request' = RequestFrom(b, total)
            /\ reading' = IF used' < total THEN "body" ELSE "read"
        BY <1>1, <2>5 DEF RecvHead
      <3>2. DOMAIN RequestFrom(b, total) = {"method", "path", "body"}
        BY DEF RequestFrom
      <3> HIDE DEF b, total
      <3>3. /\ total \in 0..MaxRequest
            /\ RequestFrom(b, total).body \in Seq(Bytes)
            /\ Len(b) < total =>
                 Len(RequestFrom(b, total).body) + (total - Len(b)) <= MaxBody
            /\ Len(RequestFrom(b, total).body) <= MaxBody
        BY <2>2, <2>5, HeadLeavesRoom DEF total
      <3>4. total \in Nat /\ MaxRequest \in Nat
        BY <3>3, LimitsAssumption
      <3>5. CASE used' < total
        BY <1>0, <2>1, <2>2, <3>1, <3>2, <3>3, <3>4, <3>5 DEF ReaderInv
      <3>6. CASE ~(used' < total)
        BY <1>0, <2>1, <2>2, <3>1, <3>3, <3>6 DEF ReaderInv
      <3> QED
        BY <3>5, <3>6
    <2> QED
      BY <2>3, <2>4, <2>5
  <1>2. ASSUME NEW n \in 1..Len(message.bytes) - used, RecvBody(n) PROVE ReaderInv'
    <2> DEFINE new == SubSeq(message.bytes, used + 1, used + n)
    <2>1. /\ DOMAIN request = {"method", "path", "body"} /\ request.body \in Seq(Bytes)
          /\ Len(request.body) \in Nat
          /\ need \in 0..MaxRequest /\ Len(request.body) + (need - used) <= MaxBody
      BY <1>2, LenProperties DEF RecvBody, ReaderInv
    <2>2. /\ used' = used + n /\ used + n <= need /\ need' = need
          /\ used + n \in 0..Len(message.bytes) /\ used + n \in 0..MaxRequest
          /\ reading' = IF used' < need THEN "body" ELSE "read"
      <3>1. /\ used' = used + n /\ used + n <= need /\ need' = need
            /\ reading' = IF used' < need THEN "body" ELSE "read"
        BY <1>2 DEF RecvBody
      <3>2. used \in Nat /\ need \in Nat /\ need <= MaxRequest /\ n \in Nat
        BY <1>0, <1>2, <2>1, LimitsAssumption
      <3>3. used + n \in 0..Len(message.bytes) /\ used + n \in 0..MaxRequest
        BY <1>0, <1>2, <3>1, <3>2, LimitsAssumption
      <3> QED
        BY <3>1, <3>3
    <2>3. new \in Seq(Bytes) /\ Len(new) = n
      BY <1>0, <1>2, <2>2, PartOfBytes, LimitsAssumption
    <2>4. request' = [request EXCEPT !.body = request.body \o new]
      BY <1>2 DEF RecvBody
    <2> HIDE DEF new
    <2>5. DOMAIN request' = {"method", "path", "body"} /\ request'.body = request.body \o new
      BY <2>1, <2>4
    <2>6. /\ request.body \o new \in Seq(Bytes)
          /\ Len(request.body \o new) = Len(request.body) + n
      BY <2>1, <2>3, ConcatProperties
    <2>7. Len(request'.body) + (need' - used') <= MaxBody /\ Len(request'.body) <= MaxBody
      BY <1>0, <1>2, <2>1, <2>2, <2>5, <2>6, LimitsAssumption
    <2>8. /\ request'.body \in Seq(Bytes) /\ need' \in 0..MaxRequest /\ used' <= need'
          /\ used' \in 0..MaxRequest
      BY <2>1, <2>2, <2>5, <2>6
    <2> QED
      BY <1>0, <2>5, <2>7, <2>8 DEF ReaderInv
  <1>3. CASE RecvEnd
    BY <1>0, <1>3 DEF RecvEnd, ReaderInv
  <1>4. CASE RecvFail
    BY <1>0, <1>4 DEF RecvFail, ReaderInv
  <1> QED
    BY <1>1, <1>2, <1>3, <1>4 DEF ReaderStep

\* Whatever a client sends and however it arrives, http_read_request stays inside
\* its buffer and inside the body's array.
THEOREM ReaderStaysInside == Spec => []NothingOverflows
  <1>1. Init => ReaderInv
    BY MessagesAssumption, LimitsAssumption DEF Init, ReaderInit, ReaderInv
  <1>2. ASSUME ReaderInv, [Next]_vars PROVE ReaderInv'
    <2>1. CASE Reading
      BY <1>2, <2>1, ReaderStepPreserves DEF Reading
    <2>2. CASE BeginResponse
      BY <2>2 DEF BeginResponse, ReaderInv
    <2>3. CASE Building \/ BeginSending \/ Sending
      <3>1. /\ message' = message /\ used' = used /\ need' = need /\ reading' = reading
            /\ request' = request
        BY <2>3 DEF Building, BeginSending, Sending, readerVars
      <3>2. stage' = stage \/ (stage = "build" /\ stage' = "send")
        BY <2>3 DEF Building, BeginSending, Sending
      <3> QED
        BY <1>2, <3>1, <3>2 DEF ReaderInv
    <2>4. CASE UNCHANGED vars
      BY <1>2, <2>4 DEF vars, readerVars, ReaderInv
    <2> QED
      BY <1>2, <2>1, <2>2, <2>3, <2>4 DEF Next, Closed
  <1>3. ReaderInv => NothingOverflows
    <2> SUFFICES ASSUME ReaderInv PROVE NothingOverflows
      OBVIOUS
    <2>1. CASE stage = "read" /\ reading = "body"
      <3>1. /\ request.body \in Seq(Bytes) /\ Len(request.body) \in Nat
            /\ need \in Int /\ used \in Int /\ used <= need
            /\ Len(request.body) + (need - used) <= MaxBody
            /\ used <= MaxRequest
        BY <2>1, LenProperties, LimitsAssumption DEF ReaderInv
      <3> QED
        BY <3>1, LimitsAssumption DEF NothingOverflows
    <2>2. CASE stage = "read" /\ reading # "body"
      BY <2>2, LimitsAssumption DEF ReaderInv, NothingOverflows
    <2>3. CASE stage # "read"
      BY <2>3, LimitsAssumption DEF ReaderInv, NothingOverflows
    <2> QED
      BY <2>1, <2>2, <2>3
  <1> QED
    BY <1>1, <1>2, <1>3, PTL DEF Spec

-----------------------------------------------------------------------------
(* Reading a request: what is found in the pieces that have arrived is     *)
(* what is found in the whole message.                                     *)

\* Four bytes that make an empty line.
EmptyLineAt(b, i) == b[i] = "cr" /\ b[i + 1] = "lf" /\ b[i + 2] = "cr" /\ b[i + 3] = "lf"

\* The first empty line of b begins at e, and no zero byte comes before its end.
EmptyLineFirst(b, e) ==
  /\ e + 3 <= Len(b) /\ EmptyLineAt(b, e)
  /\ \A i \in 1..e + 3 : b[i] # "nul"
  /\ \A i \in 1..e - 1 : ~EmptyLineAt(b, i)

\* s begins with h.
StartsWith(s, h) == Len(h) <= Len(s) /\ \A i \in 1..Len(h) : h[i] = s[i]

\* The C string in a buffer reaches to the first zero byte.
LEMMA CStringStops ==
  ASSUME NEW b \in Seq(Bytes)
  PROVE  /\ StartsWith(b, CString(b))
         /\ \A n \in 0..Len(b) :
              (\A i \in 1..n : b[i] # "nul") => n <= Len(CString(b))
         /\ \A i \in 1..Len(CString(b)) : b[i] # "nul"
  <1> DEFINE T == {i \in 1..Len(b) : b[i] = "nul"} \cup {Len(b) + 1}
  <1>1. Len(b) \in Nat
    BY LenProperties
  <1>2. T \subseteq Nat /\ T # {} /\ \A y \in T : y \in 1..Len(b) + 1
    BY <1>1
  <1>3. \A y \in T : y = Len(b) + 1 \/ b[y] = "nul"
    OBVIOUS
  <1>4. \A i \in 1..Len(b) : b[i] = "nul" => i \in T
    OBVIOUS
  <1> HIDE DEF T
  <1>5. Min(T) \in T /\ Min(T) \in 1..Len(b) + 1 /\ \A y \in T : Min(T) <= y
    BY <1>2, MinIsLeast
  <1> DEFINE m == Min(T) - 1
  <1>6. CString(b) = SubSeq(b, 1, m)
    BY DEF CString, T
  <1>7. m \in 0..Len(b) /\ 1 <= m + 1 /\ 1 \in Nat \ {0} /\ m - 1 + 1 = m
    BY <1>1, <1>5
  <1>8. Len(CString(b)) = m /\ \A i \in 1..m : CString(b)[i] = b[1 + i - 1]
    <2> HIDE DEF m
    <2> QED
      BY <1>6, <1>7, PartOfBytes
  <1>9. \A i \in 1..m : 1 + i - 1 = i /\ b[i] # "nul"
    BY <1>1, <1>4, <1>5
  <1>10. ASSUME NEW n \in 0..Len(b), \A i \in 1..n : b[i] # "nul" PROVE n <= m
    BY <1>1, <1>3, <1>5, <1>10
  <1>11. \A i \in 1..m : CString(b)[i] = b[i]
    BY <1>8, <1>9
  <1> HIDE DEF m
  <1> QED
    BY <1>1, <1>7, <1>8, <1>9, <1>10, <1>11 DEF StartsWith

\* Where strstr finds the empty line is where there is one.
LEMMA EmptyLineFound ==
  ASSUME NEW s \in Seq(Bytes), NEW i \in 1..Len(s) - 3
  PROVE  SubSeq(s, i, i + Len(CRLF \o CRLF) - 1) = CRLF \o CRLF <=> EmptyLineAt(s, i)
  <1>1. Len(s) \in Nat
    BY LenProperties
  <1>2. CRLF \o CRLF = <<"cr", "lf", "cr", "lf">> /\ Len(CRLF \o CRLF) = 4
    <2> DEFINE x == CRLF \o CRLF
    <2>1. Len(x) = 4
      BY DEF CRLF
    <2>2. x[1] = "cr" /\ x[2] = "lf" /\ x[3] = "cr" /\ x[4] = "lf"
      BY DEF CRLF
    <2>3. x \in Seq({"cr", "lf"})
      <3>1. CRLF \in Seq({"cr", "lf"})
        BY DEF CRLF
      <3> QED
        BY <3>1, ConcatProperties
    <2> HIDE DEF x
    <2>4. x = <<x[1], x[2], x[3], x[4]>>
      BY <2>1, <2>3
    <2> QED
      BY <2>1, <2>2, <2>4 DEF x
  <1> DEFINE p == SubSeq(s, i, i + 3)
  <1>3. /\ i \in Nat \ {0} /\ i + 3 \in 0..Len(s) /\ i <= (i + 3) + 1
        /\ (i + 3) - i + 1 = 4 /\ i + Len(CRLF \o CRLF) - 1 = i + 3
    BY <1>1, <1>2
  <1>4. Len(p) = 4 /\ p \in Seq(Bytes) /\ \A k \in 1..4 : p[k] = s[i + k - 1]
    BY <1>3, PartOfBytes
  <1>5. p[1] = s[i] /\ p[2] = s[i + 1] /\ p[3] = s[i + 2] /\ p[4] = s[i + 3]
    BY <1>3, <1>4
  <1> HIDE DEF p
  <1>6. p = <<"cr", "lf", "cr", "lf">>
          <=> p[1] = "cr" /\ p[2] = "lf" /\ p[3] = "cr" /\ p[4] = "lf"
    BY <1>4
  <1> QED
    BY <1>2, <1>3, <1>5, <1>6 DEF EmptyLineAt, p

\* What HeadersEnd finds is the first empty line, if there is one.
LEMMA HeadersEndIs ==
  ASSUME NEW b \in Seq(Bytes)
  PROVE  /\ HeadersEnd(b) # 0 => EmptyLineFirst(b, HeadersEnd(b))
         /\ \A e \in Nat \ {0} : EmptyLineFirst(b, e) => HeadersEnd(b) = e
  <1> DEFINE s == CString(b)
             x == CRLF \o CRLF
             hits == {i \in 1..Len(s) - Len(x) + 1 : SubSeq(s, i, i + Len(x) - 1) = x}
  <1>1. s \in Seq(Bytes) /\ Len(s) \in Nat /\ Len(b) \in Nat /\ Len(s) <= Len(b)
    BY CStringIsPart, LenProperties
  <1>2. Len(x) = 4
    BY DEF CRLF
  <1>3. HeadersEnd(b) = IF hits = {} THEN 0 ELSE Min(hits)
    BY DEF HeadersEnd, Find
  <1>4. /\ \A i \in 1..Len(s) : s[i] = b[i] /\ b[i] # "nul"
        /\ \A n \in 0..Len(b) : (\A i \in 1..n : b[i] # "nul") => n <= Len(s)
    BY CStringStops DEF StartsWith
  <1>5. hits = {i \in 1..Len(s) - 3 : EmptyLineAt(s, i)}
    <2>1. Len(s) - Len(x) + 1 = Len(s) - 3
      BY <1>1, <1>2
    <2>2. \A i \in 1..Len(s) - 3 :
            SubSeq(s, i, i + Len(x) - 1) = x <=> EmptyLineAt(s, i)
      BY <1>1, EmptyLineFound
    <2> QED
      BY <2>1, <2>2
  <1>6. \A i \in 1..Len(s) - 3 : EmptyLineAt(s, i) <=> EmptyLineAt(b, i)
    <2> TAKE i \in 1..Len(s) - 3
    <2>1. i \in 1..Len(s) /\ i + 1 \in 1..Len(s) /\ i + 2 \in 1..Len(s) /\ i + 3 \in 1..Len(s)
      BY <1>1
    <2> QED
      BY <1>4, <2>1 DEF EmptyLineAt
  <1> HIDE DEF s, x, hits
  <1>7. \A i : i \in hits <=> i \in 1..Len(s) - 3 /\ EmptyLineAt(b, i)
    BY <1>5, <1>6
  <1>8. hits \subseteq Nat
    BY <1>1, <1>7
  <1>9. ASSUME HeadersEnd(b) # 0 PROVE EmptyLineFirst(b, HeadersEnd(b))
    <2>1. HeadersEnd(b) \in hits /\ \A y \in hits : HeadersEnd(b) <= y
      BY <1>3, <1>8, <1>9, MinIsLeast
    <2>2. /\ HeadersEnd(b) \in 1..Len(s) - 3 /\ EmptyLineAt(b, HeadersEnd(b))
      BY <1>7, <2>1
    <2>3. \A i \in 1..HeadersEnd(b) + 3 : b[i] # "nul"
      BY <1>1, <1>4, <2>2
    <2>4. \A i \in 1..HeadersEnd(b) - 1 : i \in 1..Len(s) - 3 /\ ~(HeadersEnd(b) <= i)
      BY <1>1, <2>2
    <2>5. \A i \in 1..HeadersEnd(b) - 1 : ~EmptyLineAt(b, i)
      BY <1>7, <2>1, <2>4
    <2>6. HeadersEnd(b) + 3 <= Len(b)
      BY <1>1, <2>2
    <2> QED
      BY <2>2, <2>3, <2>5, <2>6 DEF EmptyLineFirst
  <1>10. ASSUME NEW e \in Nat \ {0}, EmptyLineFirst(b, e) PROVE HeadersEnd(b) = e
    <2>1. /\ e + 3 \in 0..Len(b) /\ \A i \in 1..e + 3 : b[i] # "nul"
          /\ EmptyLineAt(b, e) /\ \A i \in 1..e - 1 : ~EmptyLineAt(b, i)
      BY <1>1, <1>10 DEF EmptyLineFirst
    <2>2. e + 3 <= Len(s)
      BY <1>4, <2>1
    <2>3. e \in hits
      BY <1>1, <1>7, <2>1, <2>2
    <2>4. Min(hits) \in hits /\ Min(hits) <= e
      BY <1>8, <2>3, MinIsLeast
    <2>5. Min(hits) \in 1..Len(s) - 3 /\ EmptyLineAt(b, Min(hits))
      BY <1>7, <2>4
    <2>6. ~(Min(hits) \in 1..e - 1)
      BY <2>1, <2>5
    <2>7. Min(hits) = e
      BY <1>1, <2>4, <2>5, <2>6
    <2> QED
      BY <1>3, <2>3, <2>7
  <1> QED
    BY <1>9, <1>10
\* Where the headers end in a piece of a message, they end in the whole, and the
\* other way round once the piece has them.
LEMMA HeadersEndInPart ==
  ASSUME NEW b \in Seq(Bytes), NEW n \in 0..Len(b)
  PROVE  /\ HeadersEnd(SubSeq(b, 1, n)) # 0 => HeadersEnd(b) = HeadersEnd(SubSeq(b, 1, n))
         /\ HeadersEnd(b) # 0 /\ HeadersEnd(b) + 3 <= n =>
              HeadersEnd(SubSeq(b, 1, n)) = HeadersEnd(b)
  <1> DEFINE p == SubSeq(b, 1, n)
  <1>1. Len(b) \in Nat /\ n \in Nat /\ n <= Len(b)
    BY LenProperties
  <1>2. p \in Seq(Bytes) /\ Len(p) = n /\ \A i \in 1..n : p[i] = b[i]
    <2>1. 1 \in Nat \ {0} /\ 1 <= n + 1 /\ n - 1 + 1 = n /\ \A i \in 1..n : 1 + i - 1 = i
      BY <1>1
    <2> QED
      BY <2>1, PartOfBytes
  <1> HIDE DEF p
  <1>3. ASSUME NEW e \in Nat \ {0}, e + 3 <= n
        PROVE  EmptyLineFirst(p, e) <=> EmptyLineFirst(b, e)
    <2>1. \A i \in 1..e : EmptyLineAt(p, i) <=> EmptyLineAt(b, i)
      <3> TAKE i \in 1..e
      <3>1. i \in 1..n /\ i + 1 \in 1..n /\ i + 2 \in 1..n /\ i + 3 \in 1..n
        BY <1>1, <1>3
      <3> QED
        BY <1>2, <3>1 DEF EmptyLineAt
    <2>2. \A i \in 1..e + 3 : p[i] = b[i]
      BY <1>1, <1>2, <1>3
    <2>3. e \in 1..e /\ \A i \in 1..e - 1 : i \in 1..e
      OBVIOUS
    <2>4. e + 3 <= Len(p) /\ e + 3 <= Len(b)
      BY <1>1, <1>2, <1>3
    <2> QED
      BY <2>1, <2>2, <2>3, <2>4 DEF EmptyLineFirst
  <1>4. /\ HeadersEnd(p) # 0 => /\ HeadersEnd(p) \in Nat \ {0} /\ HeadersEnd(p) + 3 <= n
        /\ HeadersEnd(b) # 0 => HeadersEnd(b) \in Nat \ {0}
    BY <1>1, <1>2, HeadersEndInside, CStringIsPart, LenProperties
  <1>5. HeadersEnd(p) # 0 => HeadersEnd(b) = HeadersEnd(p)
    BY <1>2, <1>3, <1>4, HeadersEndIs
  <1>6. HeadersEnd(b) # 0 /\ HeadersEnd(b) + 3 <= n => HeadersEnd(p) = HeadersEnd(b)
    BY <1>2, <1>3, <1>4, HeadersEndIs
  <1> QED
    BY <1>5, <1>6 DEF p

\* Skip passes exactly the characters of C.
LEMMA SkipIs ==
  ASSUME NEW s \in Seq(Bytes), NEW i \in 1..Len(s) + 1, NEW C
  PROVE  /\ Skip(s, i, C) <= Len(s) => s[Skip(s, i, C)] \notin C
         /\ \A k \in i..Len(s) :
              s[k] \notin C /\ (\A j \in i..k - 1 : s[j] \in C) => Skip(s, i, C) = k
  <1> DEFINE T == {j \in i..Len(s) : s[j] \notin C} \cup {Len(s) + 1}
  <1>1. Len(s) \in Nat
    BY LenProperties
  <1>2. T \subseteq Nat /\ T # {} /\ \A y \in T : y \in i..Len(s) + 1
    BY <1>1
  <1>3. \A y \in T : y = Len(s) + 1 \/ s[y] \notin C
    OBVIOUS
  <1>4. \A y \in i..Len(s) : s[y] \notin C => y \in T
    OBVIOUS
  <1>5. Skip(s, i, C) = Min(T)
    BY DEF Skip
  <1> HIDE DEF T
  <1>6. Min(T) \in T /\ \A y \in T : Min(T) <= y
    BY <1>2, MinIsLeast
  <1>7. ASSUME NEW k \in i..Len(s), s[k] \notin C, \A j \in i..k - 1 : s[j] \in C
        PROVE  Min(T) = k
    <2>1. Min(T) <= k /\ Min(T) \in i..Len(s) + 1
      BY <1>2, <1>4, <1>6, <1>7
    <2>2. ASSUME Min(T) \in i..k - 1 PROVE FALSE
      <3>1. s[Min(T)] \in C /\ Min(T) # Len(s) + 1
        BY <1>1, <1>7, <2>2
      <3> QED
        BY <1>3, <1>6, <3>1
    <2>3. i \in Int /\ k \in Int /\ Min(T) \in Int
      BY <1>1, <2>1
    <2> QED
      BY <2>1, <2>2, <2>3
  <1>8. Min(T) <= Len(s) => s[Min(T)] \notin C
    <2>1. Min(T) \in i..Len(s) + 1 /\ (Min(T) = Len(s) + 1 \/ s[Min(T)] \notin C)
      BY <1>2, <1>3, <1>6
    <2> QED
      BY <1>1, <2>1
  <1> QED
    BY <1>5, <1>7, <1>8

\* A run that ends inside the head ends at the same place in the whole text.
LEMMA SkipAgrees ==
  ASSUME NEW s \in Seq(Bytes), NEW h \in Seq(Bytes), StartsWith(s, h),
         NEW i \in 1..Len(h) + 1, NEW C, Skip(h, i, C) <= Len(h)
  PROVE  Skip(s, i, C) = Skip(h, i, C)
  <1> DEFINE k == Skip(h, i, C)
  <1>1. Len(s) \in Nat /\ Len(h) \in Nat
    BY LenProperties
  <1>2. Len(h) <= Len(s) /\ \A j \in 1..Len(h) : h[j] = s[j]
    BY DEF StartsWith
  <1>3. k \in i..Len(h) + 1 /\ (\A j \in i..k - 1 : h[j] \in C) /\ h[k] \notin C
    BY SkipStops, SkipIs
  <1> HIDE DEF k
  <1>4. k <= Len(h)
    BY DEF k
  <1>5. k \in i..Len(s) /\ i \in 1..Len(s) + 1 /\ s[k] = h[k]
    BY <1>1, <1>2, <1>3, <1>4
  <1>6. \A j \in i..k - 1 : s[j] = h[j]
    BY <1>1, <1>2, <1>3, <1>4
  <1> QED
    BY <1>3, <1>5, <1>6, SkipIs DEF k

\* So does a word that begins before a blank of the head.
LEMMA WordEndAgrees ==
  ASSUME NEW s \in Seq(Bytes), NEW h \in Seq(Bytes), StartsWith(s, h),
         NEW e \in 1..Len(h), h[e] \in Blanks, NEW i \in 1..e, NEW max \in Nat
  PROVE  WordEnd(h, i, max) \in i..e /\ WordEnd(s, i, max) = WordEnd(h, i, max)
  <1>1. Len(s) \in Nat /\ Len(h) \in Nat
    BY LenProperties
  <1>2. Len(h) <= Len(s) /\ \A j \in 1..Len(h) : h[j] = s[j]
    BY DEF StartsWith
  <1> DEFINE T == {j \in i..Len(h) : h[j] \in Blanks} \cup {i + max, Len(h) + 1}
             U == {j \in i..Len(s) : s[j] \in Blanks} \cup {i + max, Len(s) + 1}
  <1>3. WordEnd(h, i, max) = Min(T) /\ WordEnd(s, i, max) = Min(U)
    BY DEF WordEnd
  <1>4. T \subseteq Nat /\ e \in T /\ \A y \in T : y >= i
    BY <1>1
  <1>5. U \subseteq Nat /\ U # {}
    BY <1>1
  <1>6. \A y \in 1..Len(h) : y \in T <=> y \in U
    <2> TAKE y \in 1..Len(h)
    <2>1. y # Len(h) + 1 /\ y # Len(s) + 1 /\ h[y] = s[y]
          /\ (y \in i..Len(h) <=> y \in i..Len(s))
      BY <1>1, <1>2
    <2> QED
      BY <2>1
  <1> HIDE DEF T, U
  <1>7. Min(T) \in T /\ Min(T) <= e /\ Min(T) >= i /\ Min(T) \in Nat /\ \A y \in T : Min(T) <= y
    BY <1>4, MinIsLeast
  <1>8. Min(U) \in U /\ \A y \in U : Min(U) <= y
    BY <1>5, MinIsLeast
  <1>9. Min(T) \in 1..Len(h)
    BY <1>1, <1>7
  <1>10. Min(U) <= Min(T)
    BY <1>6, <1>7, <1>8, <1>9
  <1>11. Min(U) \in T
    <2>1. Min(U) \in Nat
      BY <1>5, <1>8
    <2>2. Min(U) # 0
      <3>1. \A y \in U : y >= i
        <4>1. i \in Nat /\ i + max >= i /\ Len(s) + 1 >= i
          BY <1>1, <1>2
        <4> QED
          BY <1>1, <4>1 DEF U
      <3> QED
        BY <1>8, <3>1
    <2>3. Min(U) \in 1..Len(h)
      BY <1>1, <1>9, <1>10, <2>1, <2>2
    <2> QED
      BY <1>6, <1>8, <2>3
  <1>12. Min(U) = Min(T)
    <2>1. Min(T) <= Min(U) /\ Min(U) \in Nat /\ Min(T) \in Nat
      BY <1>4, <1>7, <1>11
    <2> QED
      BY <1>10, <2>1
  <1> QED
    BY <1>3, <1>7, <1>12
\* There is no word behind the end of a text.
LEMMA NoWordAtEnd ==
  ASSUME NEW s \in Seq(Bytes), NEW max \in Nat
  PROVE  WordEnd(s, Len(s) + 1, max) = Len(s) + 1
  <1>1. Len(s) \in Nat
    BY LenProperties
  <1> DEFINE i == Len(s) + 1
             T == {j \in i..Len(s) : s[j] \in Blanks} \cup {i + max, i}
  <1>2. WordEnd(s, i, max) = Min(T)
    BY DEF WordEnd
  <1>3. T \subseteq Nat /\ i \in T /\ \A y \in T : y >= i
    BY <1>1
  <1>4. i \in Nat
    BY <1>1
  <1> HIDE DEF i, T
  <1>5. Min(T) \in T /\ Min(T) <= i /\ Min(T) >= i /\ Min(T) \in Nat
    BY <1>3, MinIsLeast
  <1> QED
    BY <1>2, <1>4, <1>5 DEF i

\* What lies inside the head is the same piece of the whole text.
LEMMA PartAgrees ==
  ASSUME NEW s \in Seq(Bytes), NEW h \in Seq(Bytes), StartsWith(s, h),
         NEW m \in Nat \ {0}, NEW n \in 0..Len(h), m <= n + 1
  PROVE  SubSeq(s, m, n) = SubSeq(h, m, n)
  <1>1. Len(s) \in Nat /\ Len(h) \in Nat
    BY LenProperties
  <1>2. Len(h) <= Len(s) /\ \A j \in 1..Len(h) : h[j] = s[j]
    BY DEF StartsWith
  <1>3. n \in 0..Len(s)
    BY <1>1, <1>2
  <1> DEFINE x == SubSeq(s, m, n)  y == SubSeq(h, m, n)
  <1>4. /\ x \in Seq(Bytes) /\ Len(x) = n - m + 1
        /\ y \in Seq(Bytes) /\ Len(y) = n - m + 1
        /\ \A i \in 1..n - m + 1 : x[i] = s[m + i - 1] /\ y[i] = h[m + i - 1]
    BY <1>3, PartOfBytes
  <1>5. \A i \in 1..n - m + 1 : m + i - 1 \in 1..Len(h)
    BY <1>1
  <1>6. \A i \in 1..n - m + 1 : x[i] = y[i]
    BY <1>2, <1>4, <1>5
  <1> HIDE DEF x, y
  <1>7. x = y
    BY <1>4, <1>6, SeqEqual
  <1> QED
    BY <1>7 DEF x, y

\* The head is a C string that ends with the empty line, and the text begins with it.
LEMMA HeadFacts ==
  ASSUME NEW b \in Seq(Bytes), HeadersEnd(b) # 0
  PROVE  /\ HeadOf(b) \in Seq(Bytes) /\ Len(HeadOf(b)) = HeadersEnd(b) + 3
         /\ HeadersEnd(b) \in 1..Len(HeadOf(b)) /\ Len(HeadOf(b)) <= Len(b)
         /\ HeadersEnd(HeadOf(b)) = HeadersEnd(b)
         /\ CString(HeadOf(b)) = HeadOf(b)
         /\ CString(b) \in Seq(Bytes) /\ StartsWith(CString(b), HeadOf(b))
         /\ HeadOf(b)[HeadersEnd(b)] = "cr"
         /\ \A i \in HeadersEnd(b)..Len(HeadOf(b)) : HeadOf(b)[i] \in Blanks
  <1> DEFINE e == HeadersEnd(b)  h == HeadOf(b)  s == CString(b)
  <1>1. /\ e \in Nat \ {0} /\ e + 3 <= Len(s) /\ s \in Seq(Bytes) /\ Len(s) \in Nat
        /\ Len(s) <= Len(b) /\ Len(b) \in Nat
    BY HeadersEndInside, CStringIsPart, LenProperties
  <1> HIDE DEF e, s
  <1>2. e + 3 \in 0..Len(b) /\ 1 \in Nat \ {0} /\ 1 <= (e + 3) + 1 /\ (e + 3) - 1 + 1 = e + 3
    BY <1>1
  <1>3. /\ h \in Seq(Bytes) /\ Len(h) = e + 3
        /\ \A i \in 1..e + 3 : h[i] = b[i]
    <2>1. h = SubSeq(b, 1, e + 3)
      BY DEF HeadOf, e
    <2>2. \A i \in 1..e + 3 : 1 + i - 1 = i
      BY <1>1
    <2> QED
      BY <1>2, <2>1, <2>2, PartOfBytes
  <1>4. HeadersEnd(h) = e
    <2>1. e + 3 <= e + 3
      BY <1>1
    <2> QED
      BY <1>2, <2>1, HeadersEndInPart DEF HeadOf, e
  <1> HIDE DEF h
  <1>5. StartsWith(b, s) /\ \A i \in 1..Len(s) : b[i] # "nul"
    BY CStringStops DEF s
  <1>6. StartsWith(s, h)
    BY <1>1, <1>3, <1>5 DEF StartsWith
  <1>7. CString(h) = h
    <2>1. \A i \in 1..Len(h) : h[i] # "nul"
      BY <1>1, <1>3, <1>5
    <2>2. Len(h) \in 0..Len(h)
      BY <1>1, <1>3
    <2>3. /\ StartsWith(h, CString(h)) /\ Len(h) <= Len(CString(h))
          /\ CString(h) \in Seq(Bytes) /\ Len(CString(h)) <= Len(h)
          /\ Len(CString(h)) \in Nat
      BY <1>3, <2>1, <2>2, CStringStops, CStringIsPart, LenProperties
    <2>4. Len(CString(h)) = Len(h) /\ \A i \in 1..Len(h) : CString(h)[i] = h[i]
      BY <1>1, <1>3, <2>3 DEF StartsWith
    <2> QED
      BY <1>3, <2>3, <2>4, SeqEqual
  <1>8. EmptyLineAt(h, e)
    BY <1>1, <1>3, <1>4, HeadersEndIs DEF EmptyLineFirst
  <1>9. \A i \in e..e + 3 : h[i] \in Blanks
    <2>1. \A i \in e..e + 3 : i = e \/ i = e + 1 \/ i = e + 2 \/ i = e + 3
      BY <1>1
    <2> QED
      BY <1>8, <2>1 DEF EmptyLineAt, Blanks
  <1>10. h[e] = "cr" /\ e \in 1..Len(h) /\ Len(h) <= Len(b)
    BY <1>1, <1>3, <1>8 DEF EmptyLineAt
  <1> QED
    BY <1>1, <1>3, <1>4, <1>6, <1>7, <1>9, <1>10 DEF e, h, s

\* The request line is the same in the head and in what follows it.
LEMMA RequestLineAgrees ==
  ASSUME NEW b \in Seq(Bytes), HeadersEnd(b) # 0, RequestLine(HeadOf(b)).ok
  PROVE  RequestLine(b) = RequestLine(HeadOf(b))
  <1> DEFINE e == HeadersEnd(b)  h == HeadOf(b)  s == CString(b)
  <1>1. /\ h \in Seq(Bytes) /\ Len(h) = e + 3 /\ Len(h) \in Nat /\ e \in 1..Len(h)
        /\ CString(h) = h /\ s \in Seq(Bytes) /\ StartsWith(s, h)
        /\ h[e] \in Blanks /\ \A i \in e..Len(h) : h[i] \in Blanks
    BY HeadFacts, LenProperties DEF Blanks
  <1> DEFINE m == Skip(h, 1, Blanks)  mend == WordEnd(h, m, MethodMax)
             p == Skip(h, mend, Blanks)  pend == WordEnd(h, p, PathMax)
             ms == Skip(s, 1, Blanks)  mends == WordEnd(s, ms, MethodMax)
             ps == Skip(s, mends, Blanks)  pends == WordEnd(s, ps, PathMax)
  <1>2. /\ RequestLine(h) = [ok |-> mend > m /\ pend > p,
                             method |-> SubSeq(h, m, mend - 1), path |-> SubSeq(h, p, pend - 1)]
        /\ RequestLine(b) = [ok |-> mends > ms /\ pends > ps,
                             method |-> SubSeq(s, ms, mends - 1), path |-> SubSeq(s, ps, pends - 1)]
    BY <1>1 DEF RequestLine
  <1>3. mend > m /\ pend > p
    <2>1. RequestLine(h).ok
      OBVIOUS
    <2>2. RequestLine(h).ok = (mend > m /\ pend > p)
      <3> HIDE DEF h, s, e, m, mend, p, pend, ms, mends, ps, pends
      <3> QED
        BY <1>2
    <2> QED
      BY <2>1, <2>2
  <1> HIDE DEF h, s, e
  \* A word that is there begins before the empty line.
  <1>4. ASSUME NEW i \in 1..Len(h) + 1, NEW max \in Nat,
               WordEnd(h, Skip(h, i, Blanks), max) > Skip(h, i, Blanks)
        PROVE  /\ Skip(h, i, Blanks) \in 1..e
               /\ Skip(s, i, Blanks) = Skip(h, i, Blanks)
               /\ WordEnd(h, Skip(h, i, Blanks), max) \in 1..e
               /\ WordEnd(s, Skip(h, i, Blanks), max) = WordEnd(h, Skip(h, i, Blanks), max)
    <2> DEFINE k == Skip(h, i, Blanks)
    <2>1. k \in i..Len(h) + 1 /\ (k <= Len(h) => h[k] \notin Blanks)
      BY <1>1, SkipStops, SkipIs
    <2>2. k # Len(h) + 1
      <3>1. SUFFICES ASSUME k = Len(h) + 1 PROVE FALSE
        OBVIOUS
      <3>2. WordEnd(h, k, max) = k
        BY <1>1, <3>1, NoWordAtEnd
      <3>3. k \in Nat
        BY <1>1, <3>1
      <3> QED
        BY <1>4, <3>2, <3>3
    <2>3. k <= Len(h) /\ k \in 1..e
      <3>1. k \in 1..Len(h)
        BY <1>1, <2>1, <2>2
      <3>2. k \notin e..Len(h)
        BY <1>1, <2>1, <3>1
      <3> QED
        BY <1>1, <3>1, <3>2
    <2>4. Skip(s, i, Blanks) = k
      BY <1>1, <2>3, SkipAgrees
    <2> HIDE DEF k
    <2>5. WordEnd(h, k, max) \in k..e /\ WordEnd(s, k, max) = WordEnd(h, k, max)
      BY <1>1, <2>3, WordEndAgrees
    <2> QED
      BY <1>1, <2>3, <2>4, <2>5 DEF k
  <1>5. m \in 1..e /\ ms = m /\ mend \in 1..e /\ mends = mend
    <2>1. 1 \in 1..Len(h) + 1
      BY <1>1
    <2> QED
      BY <1>3, <1>4, <2>1, LimitsAssumption
  <1>6. p \in 1..e /\ ps = p /\ pend \in 1..e /\ pends = pend
    <2>1. mend \in 1..Len(h) + 1
      BY <1>1, <1>5
    <2>2. ps = Skip(s, mend, Blanks)
      BY <1>5
    <2> HIDE DEF mend
    <2>3. p \in 1..e /\ Skip(s, mend, Blanks) = p /\ pend \in 1..e
          /\ WordEnd(s, p, PathMax) = pend
      BY <1>3, <1>4, <2>1, LimitsAssumption
    <2> QED
      BY <2>2, <2>3
  <1> HIDE DEF m, mend, p, pend, ms, mends, ps, pends
  <1>7. ASSUME NEW i \in 1..e, NEW j \in 1..e, j > i
        PROVE  SubSeq(s, i, j - 1) = SubSeq(h, i, j - 1)
    <2>1. i \in Nat \ {0} /\ j - 1 \in 0..Len(h) /\ i <= (j - 1) + 1
      BY <1>1, <1>7
    <2> QED
      BY <1>1, <2>1, PartAgrees
  <1> QED
    BY <1>2, <1>3, <1>5, <1>6, <1>7 DEF h
\* So is the content length, if each Content-Length of the head has a value there.
LEMMA ContentLengthAgrees ==
  ASSUME NEW b \in Seq(Bytes), HeadersEnd(b) # 0,
         \A i \in LengthLines(HeadOf(b)) :
           \E j \in i + 1..Len(HeadOf(b)) : HeadOf(b)[j] \notin Blanks
  PROVE  ContentLength(b) = ContentLength(HeadOf(b))
  <1> DEFINE e == HeadersEnd(b)  h == HeadOf(b)  s == CString(b)  l == LengthLines(h)
  <1>1. /\ h \in Seq(Bytes) /\ Len(h) = e + 3 /\ Len(h) \in Nat /\ e \in 1..Len(h)
        /\ CString(h) = h /\ s \in Seq(Bytes) /\ StartsWith(s, h)
        /\ h[e] = "cr" /\ HeadersEnd(h) = e
        /\ \A i \in e..Len(h) : h[i] \in Blanks
    BY HeadFacts, LenProperties
  <1>2. \A i \in l : \E j \in i + 1..Len(h) : h[j] \notin Blanks
    OBVIOUS
  <1> HIDE DEF h, s, e
  <1>3. ASSUME NEW i \in 3..e - 1
        PROVE  SubSeq(s, i - 2, i - 1) = SubSeq(h, i - 2, i - 1) /\ s[i] = h[i]
    <2>1. i - 2 \in Nat \ {0} /\ i - 1 \in 0..Len(h) /\ i - 2 <= (i - 1) + 1
      BY <1>1
    <2>2. SubSeq(s, i - 2, i - 1) = SubSeq(h, i - 2, i - 1)
      BY <1>1, <2>1, PartAgrees
    <2>3. i \in 1..Len(h)
      BY <1>1
    <2> QED
      BY <1>1, <2>2, <2>3 DEF StartsWith
  <1>4. LengthLines(b) = l /\ \A i \in l : i \in 3..e - 1
    <2>1. /\ LengthLines(b) = {i \in 3..e - 1 : SubSeq(s, i - 2, i - 1) = CRLF /\ s[i] = "cl"}
          /\ l = {i \in 3..e - 1 : SubSeq(h, i - 2, i - 1) = CRLF /\ h[i] = "cl"}
      BY <1>1 DEF LengthLines, e, s
    <2> HIDE DEF l
    <2> QED
      BY <1>3, <2>1
  <1> HIDE DEF l
  <1> DEFINE f == Min(l) + 1
             v == Skip(h, f, Blanks)  d == Skip(h, v, Digits)
             vs == Skip(s, f, Blanks)  ds == Skip(s, vs, Digits)
  <1>5. /\ ContentLength(h)
             = IF l = {} THEN [ok |-> TRUE, length |-> 0]
               ELSE IF d = v THEN [ok |-> FALSE, length |-> 0]
               ELSE [ok |-> TRUE, length |-> Number(SubSeq(h, v, d - 1))]
        /\ ContentLength(b)
             = IF l = {} THEN [ok |-> TRUE, length |-> 0]
               ELSE IF ds = vs THEN [ok |-> FALSE, length |-> 0]
               ELSE [ok |-> TRUE, length |-> Number(SubSeq(s, vs, ds - 1))]
    BY <1>1, <1>4 DEF ContentLength, l, s
  <1>6. ASSUME l # {} PROVE vs = v /\ ds = d /\ SubSeq(s, v, d - 1) = SubSeq(h, v, d - 1)
    <2>1. Min(l) \in l /\ Min(l) \in 3..e - 1
      <3>1. l \subseteq Nat
        BY <1>1, <1>4
      <3> QED
        BY <1>4, <1>6, <3>1, MinIsLeast
    <2>2. f \in 1..Len(h) + 1
      BY <1>1, <2>1
    <2>3. \E j \in f..Len(h) : h[j] \notin Blanks
      BY <1>2, <2>1
    <2> HIDE DEF f
    <2>4. /\ v \in f..Len(h) + 1 /\ (\A j \in f..v - 1 : h[j] \in Blanks)
          /\ v <= Len(h) => h[v] \notin Blanks
      BY <1>1, <2>2, SkipStops, SkipIs
    <2> HIDE DEF v
    <2>5. v \in 1..Len(h)
      <3>1. v # Len(h) + 1
        BY <1>1, <2>2, <2>3, <2>4
      <3> QED
        BY <1>1, <2>2, <2>4, <3>1
    <2>6. v \in 1..e
      <3>1. v \notin e..Len(h)
        BY <1>1, <2>4, <2>5
      <3> QED
        BY <1>1, <2>5, <3>1
    <2>7. vs = v
      BY <1>1, <2>2, <2>5, SkipAgrees DEF v
    <2>8. /\ d \in v..Len(h) + 1 /\ \A j \in v..d - 1 : h[j] \in Digits
      BY <1>1, <2>5, SkipStops
    <2> HIDE DEF d
    <2>9. d \in v..e
      <3>1. h[e] \notin Digits
        BY <1>1 DEF Digits
      <3>2. ~(e \in v..d - 1)
        BY <2>8, <3>1
      <3> QED
        BY <1>1, <2>6, <2>8, <3>2
    <2>10. ds = d
      <3>1. d <= Len(h) /\ v \in 1..Len(h) + 1
        BY <1>1, <2>6, <2>9
      <3> QED
        BY <1>1, <2>7, <3>1, SkipAgrees DEF d
    <2>11. v \in Nat \ {0} /\ d - 1 \in 0..Len(h) /\ v <= (d - 1) + 1
      BY <1>1, <2>6, <2>9
    <2> QED
      BY <1>1, <2>7, <2>10, <2>11, PartAgrees
  <1> HIDE DEF v, d, vs, ds, f
  <1>7. CASE l = {}
    BY <1>5, <1>7 DEF h
  <1>8. CASE l # {}
    <2> DEFINE x == SubSeq(h, v, d - 1)  y == SubSeq(s, vs, ds - 1)
    <2>1. vs = v /\ ds = d /\ y = x
      BY <1>6, <1>8
    <2>2. /\ ContentLength(h) = IF d = v THEN [ok |-> FALSE, length |-> 0]
                                ELSE [ok |-> TRUE, length |-> Number(x)]
          /\ ContentLength(b) = IF ds = vs THEN [ok |-> FALSE, length |-> 0]
                                ELSE [ok |-> TRUE, length |-> Number(y)]
      BY <1>5, <1>8
    <2> HIDE DEF x, y
    <2>3. ContentLength(b) = ContentLength(h)
      BY <2>1, <2>2
    <2> QED
      BY <2>3 DEF h
  <1> QED
    BY <1>7, <1>8

\* A piece of a message that has its head shows what the head says, and no piece
\* shows another head.
LEMMA PieceSaysSame ==
  ASSUME NEW b \in Seq(Bytes), HeadersEnd(b) # 0 => HeadIsComplete(b),
         NEW n \in 0..Len(b), HeadersEnd(SubSeq(b, 1, n)) # 0
  PROVE  LET p == SubSeq(b, 1, n)
         IN  /\ HeadersEnd(b) = HeadersEnd(p) /\ Len(HeadOf(b)) = HeadersEnd(p) + 3
             /\ Len(HeadOf(b)) <= n
             /\ RequestLine(p) = RequestLine(HeadOf(b))
             /\ ContentLength(p) = ContentLength(HeadOf(b))
             /\ HeadOk(p) <=> HeadOk(HeadOf(b))
  <1> DEFINE p == SubSeq(b, 1, n)  e == HeadersEnd(b)
  <1>1. Len(b) \in Nat /\ n \in Nat /\ n <= Len(b)
    BY LenProperties
  <1>2. p \in Seq(Bytes) /\ Len(p) = n /\ \A i \in 1..n : p[i] = b[i]
    <2>1. 1 \in Nat \ {0} /\ 1 <= n + 1 /\ n - 1 + 1 = n /\ \A i \in 1..n : 1 + i - 1 = i
      BY <1>1
    <2> QED
      BY <2>1, PartOfBytes
  <1>3. HeadersEnd(p) = e /\ HeadersEnd(p) # 0 /\ e # 0
    BY HeadersEndInPart
  <1>4. HeadIsComplete(b)
    BY <1>3
  <1> HIDE DEF p, e
  <1>5. /\ HeadOf(p) \in Seq(Bytes) /\ Len(HeadOf(p)) = e + 3 /\ Len(HeadOf(p)) <= n
        /\ HeadOf(b) \in Seq(Bytes) /\ Len(HeadOf(b)) = e + 3 /\ e \in 1..e + 3
        /\ HeadersEnd(HeadOf(b)) = e /\ Len(HeadOf(b)) <= Len(b)
    BY <1>2, <1>3, HeadFacts DEF e
  <1>6. HeadOf(p) = HeadOf(b)
    <2>1. StartsWith(b, p)
      BY <1>1, <1>2 DEF StartsWith
    <2>2. 1 \in Nat \ {0} /\ e + 3 \in 0..Len(p) /\ 1 <= (e + 3) + 1
      BY <1>1, <1>2, <1>5
    <2>3. HeadOf(p) = SubSeq(p, 1, e + 3) /\ HeadOf(b) = SubSeq(b, 1, e + 3)
      BY <1>3 DEF HeadOf, e
    <2> QED
      BY <1>2, <2>1, <2>2, <2>3, PartAgrees
  <1>7. RequestLine(p) = RequestLine(HeadOf(b))
    BY <1>2, <1>3, <1>4, <1>6, RequestLineAgrees DEF HeadIsComplete
  <1>8. ContentLength(p) = ContentLength(HeadOf(b))
    BY <1>2, <1>3, <1>4, <1>6, ContentLengthAgrees DEF HeadIsComplete
  <1>9. HeadOk(p) <=> HeadOk(HeadOf(b))
    BY <1>3, <1>5, <1>7, <1>8 DEF HeadOk, HeadFits
  <1> QED
    BY <1>3, <1>5, <1>7, <1>8, <1>9 DEF p, e
\* What the reader has found so far is what the whole message conveys, and what it
\* has of the body is the part of the message behind its head.
MeaningInv ==
  /\ stage = "read" =>
       /\ message \in Messages /\ used \in 0..Len(message.bytes)
       /\ reading = "head" => HeadersEnd(SubSeq(message.bytes, 1, used)) = 0
       /\ reading = "body" =>
            LET h == HeadOf(message.bytes)
            IN  /\ HeadersEnd(message.bytes) # 0 /\ HeadOk(h)
                /\ need = Len(h) + ContentLength(h).length
                /\ Len(h) <= used /\ used < need
                /\ request = [method |-> RequestLine(h).method, path |-> RequestLine(h).path,
                              body |-> SubSeq(message.bytes, Len(h) + 1, used)]
       /\ reading = "read" => request = message.means
       /\ reading = "refused" => message.means = NoRequest
  /\ stage # "read" => reading = "head"

\* The pieces of the head and the first piece of the body.
LEMMA RecvHeadKeepsMeaning ==
  ASSUME MessagesAreWellFormed, MeaningInv, stage = "read", stage' = "read",
         NEW n \in 1..Len(message.bytes) - used, RecvHead(n)
  PROVE  MeaningInv'
  <1> DEFINE all == message.bytes  m == used + n  b == SubSeq(all, 1, m)
             h == HeadOf(all)  total == HeadersEnd(b) + 3 + ContentLength(b).length
  <1>1. /\ message \in Messages /\ all \in Seq(Bytes) /\ Len(all) \in Nat
        /\ used \in 0..Len(all) /\ m \in 0..Len(all)
        /\ used' = m /\ message' = message /\ m <= MaxRequest
    BY MessagesAssumption, LenProperties DEF MeaningInv, RecvHead
  <1>2. (HeadersEnd(all) # 0 => HeadIsComplete(all)) /\ message.means = Conveyed(all)
    BY <1>1 DEF MessagesAreWellFormed
  <1>3. /\ b \in Seq(Bytes) /\ Len(b) = m /\ StartsWith(all, b)
    <2>1. 1 \in Nat \ {0} /\ 1 <= m + 1 /\ m - 1 + 1 = m /\ \A i \in 1..m : 1 + i - 1 = i
      BY <1>1
    <2>2. b \in Seq(Bytes) /\ Len(b) = m /\ \A i \in 1..m : b[i] = all[i]
      BY <1>1, <2>1, PartOfBytes
    <2> QED
      BY <1>1, <2>2 DEF StartsWith
  <1>4. CASE HeadersEnd(b) = 0
    <2>1. reading' = IF used' < MaxRequest THEN "head" ELSE "refused"
      BY <1>4 DEF RecvHead
    <2>2. ASSUME reading' = "refused" PROVE message.means = NoRequest
      <3>1. m = MaxRequest
        BY <1>1, <2>1, <2>2, LimitsAssumption
      <3>2. SUFFICES ASSUME HeadersEnd(all) # 0, HeadOk(h) PROVE FALSE
        BY <1>2 DEF Conveyed
      <3>3. /\ h \in Seq(Bytes) /\ HeadersEnd(h) = HeadersEnd(all)
            /\ HeadersEnd(all) \in 1..Len(h) /\ Len(h) = HeadersEnd(all) + 3
        BY <1>1, <3>2, HeadFacts
      <3>4. Len(h) \in Nat /\ HeadersEnd(all) \in Nat /\ ContentLength(h).length \in Nat
        BY <3>2, <3>3, ContentLengthIsNatural, LenProperties
      <3>5. HeadersEnd(all) + 3 + ContentLength(h).length <= MaxRequest
        BY <3>2, <3>3 DEF HeadOk, HeadFits
      <3>6. HeadersEnd(all) + 3 <= m
        BY <3>1, <3>4, <3>5, LimitsAssumption
      <3>7. HeadersEnd(b) = HeadersEnd(all)
        BY <1>1, <3>2, <3>6, HeadersEndInPart
      <3> QED
        BY <1>4, <3>2, <3>7
    <2>3. reading' \in {"head", "refused"}
      BY <2>1
    <2> QED
      BY <1>1, <1>4, <2>2, <2>3 DEF MeaningInv
  <1>5. CASE HeadersEnd(b) # 0
    <2>1. /\ HeadersEnd(all) = HeadersEnd(b) /\ Len(h) = HeadersEnd(b) + 3 /\ Len(h) <= m
          /\ RequestLine(b) = RequestLine(h) /\ ContentLength(b) = ContentLength(h)
          /\ HeadOk(b) <=> HeadOk(h)
      BY <1>1, <1>2, <1>5, PieceSaysSame
    <2>2. CASE ~HeadOk(b)
      <3>1. reading' = "refused"
        BY <1>5, <2>2 DEF RecvHead
      <3>2. message.means = NoRequest
        BY <1>2, <2>1, <2>2 DEF Conveyed
      <3> QED
        BY <1>1, <3>1, <3>2 DEF MeaningInv
    <2>3. CASE HeadOk(b)
      <3>1. /\ need' = total /\ request' = RequestFrom(b, total)
            /\ reading' = IF used' < total THEN "body" ELSE "read"
        BY <1>5, <2>3 DEF RecvHead
      <3>2. Len(h) \in Nat /\ ContentLength(h).length \in Nat /\ h \in Seq(Bytes)
        BY <1>1, <1>3, <1>5, <2>1, HeadFacts, ContentLengthIsNatural, LenProperties
      <3>3. total = Len(h) + ContentLength(h).length /\ total \in Nat /\ Len(h) <= total
        BY <2>1, <3>2
      <3> DEFINE last == Min({total, Len(b)})
      <3>4. /\ total <= m => last = total
            /\ m < total => last = m
        <4>1. {total, m} \subseteq Nat /\ {total, m} # {} /\ m \in Nat
          BY <1>1, <3>3
        <4>2. Min({total, m}) \in {total, m} /\ Min({total, m}) <= total
              /\ Min({total, m}) <= m
          BY <4>1, MinIsLeast
        <4>3. last = Min({total, m})
          BY <1>3
        <4> HIDE DEF last
        <4> QED
          BY <3>3, <4>1, <4>2, <4>3
      <3>5. request' = [method |-> RequestLine(h).method, path |-> RequestLine(h).path,
                        body |-> SubSeq(b, Len(h) + 1, last)]
        <4>1. HeadersEnd(b) + 4 = Len(h) + 1
          BY <2>1, <3>2, <1>1, <1>3, <1>5, HeadersEndInside
        <4> QED
          BY <2>1, <3>1, <4>1 DEF RequestFrom
      <3> HIDE DEF last, total
      <3>6. last \in 0..Len(b) /\ Len(h) + 1 \in Nat \ {0} /\ Len(h) + 1 <= last + 1
        BY <1>1, <1>3, <2>1, <3>2, <3>3, <3>4
      <3>7. SubSeq(b, Len(h) + 1, last) = SubSeq(all, Len(h) + 1, last)
        BY <1>1, <1>3, <3>6, PartAgrees
      <3>8. CASE m < total
        <4>1. /\ reading' = "body" /\ last = m
              /\ request' = [method |-> RequestLine(h).method, path |-> RequestLine(h).path,
                             body |-> SubSeq(all, Len(h) + 1, m)]
          BY <1>1, <3>1, <3>4, <3>5, <3>7, <3>8
        <4>2. HeadersEnd(all) # 0 /\ HeadOk(h) /\ need' = Len(h) + ContentLength(h).length
              /\ Len(h) <= m /\ m < need'
          BY <1>5, <2>1, <2>3, <3>1, <3>3, <3>8
        <4> QED
          BY <1>1, <4>1, <4>2 DEF MeaningInv
      <3>9. CASE ~(m < total)
        <4>1. total <= m /\ total <= Len(all)
          BY <1>1, <3>3, <3>9
        <4>2. /\ reading' = "read" /\ last = total
          BY <1>1, <3>1, <3>4, <3>9, <4>1
        <4>3. message.means
                = [method |-> RequestLine(h).method, path |-> RequestLine(h).path,
                   body |-> SubSeq(all, Len(h) + 1, total)]
          BY <1>2, <1>5, <2>1, <2>3, <3>3, <4>1 DEF Conveyed
        <4>4. request' = message.means
          BY <3>5, <3>7, <4>2, <4>3
        <4> QED
          BY <1>1, <4>2, <4>4 DEF MeaningInv
      <3> QED
        BY <3>8, <3>9
    <2> QED
      BY <2>2, <2>3
  <1> QED
    BY <1>4, <1>5

\* The further pieces of the body.
LEMMA RecvBodyKeepsMeaning ==
  ASSUME MessagesAreWellFormed, MeaningInv, stage = "read", stage' = "read",
         NEW n \in 1..Len(message.bytes) - used, RecvBody(n)
  PROVE  MeaningInv'
  <1> DEFINE all == message.bytes  m == used + n  h == HeadOf(all)
             Got(k) == [method |-> RequestLine(h).method, path |-> RequestLine(h).path,
                        body |-> SubSeq(all, Len(h) + 1, k)]
  <1>1. /\ message \in Messages /\ all \in Seq(Bytes) /\ Len(all) \in Nat
        /\ used \in 0..Len(all) /\ m \in 0..Len(all)
        /\ used' = m /\ message' = message /\ need' = need /\ m <= need
        /\ reading' = IF used' < need THEN "body" ELSE "read"
        /\ request' = [request EXCEPT !.body = request.body \o SubSeq(all, used + 1, m)]
    <2>1. /\ message \in Messages /\ used \in 0..Len(all)
      BY DEF MeaningInv
    <2>2. all \in Seq(Bytes) /\ Len(all) \in Nat
      BY <2>1, MessagesAssumption, LenProperties
    <2>3. m \in 0..Len(all)
      BY <2>1, <2>2
    <2> QED
      BY <2>1, <2>2, <2>3 DEF RecvBody
  <1>2. /\ HeadersEnd(all) # 0 /\ HeadOk(h) /\ need = Len(h) + ContentLength(h).length
        /\ Len(h) <= used /\ used < need /\ request = Got(used)
    BY DEF MeaningInv, RecvBody
  <1>3. message.means = Conveyed(all)
    BY <1>1 DEF MessagesAreWellFormed
  <1>4. h \in Seq(Bytes) /\ Len(h) \in Nat /\ ContentLength(h).length \in Nat
    BY <1>1, <1>2, HeadFacts, ContentLengthIsNatural, LenProperties
  <1>5. SubSeq(all, Len(h) + 1, used) \o SubSeq(all, used + 1, m) = SubSeq(all, Len(h) + 1, m)
    <2>1. used <= m
      BY <1>1
    <2> HIDE DEF all, h, m
    <2>2. /\ Len(h) + 1 \in 1..Len(all) + 1 /\ used \in (Len(h) + 1) - 1..Len(all)
          /\ m \in used..Len(all)
      BY <1>1, <1>2, <1>4, <2>1
    <2> QED
      BY <1>1, <2>2, ConcatAdjacentSubSeq
  <1>6. request' = Got(m)
    BY <1>1, <1>2, <1>5
  <1> HIDE DEF h
  <1>7. CASE m < need
    <2>1. reading' = "body" /\ Len(h) <= m
      BY <1>1, <1>2, <1>4, <1>7
    <2> QED
      BY <1>1, <1>2, <1>6, <1>7, <2>1 DEF MeaningInv, h
  <1>8. CASE ~(m < need)
    <2>1. reading' = "read" /\ m = need
      <3>1. m \in Nat /\ need \in Nat
        <4>1. m \in Nat
          BY <1>1
        <4>2. need = Len(h) + ContentLength(h).length
          BY <1>2
        <4> HIDE DEF m, all
        <4> QED
          BY <1>4, <4>1, <4>2
      <3> HIDE DEF m
      <3> QED
        BY <1>1, <1>8, <3>1
    <2>2. message.means = Got(m)
      <3>1. m <= Len(all) /\ m = Len(h) + ContentLength(h).length
        BY <1>1, <1>2, <2>1
      <3> HIDE DEF all, m
      <3> QED
        BY <1>2, <1>3, <3>1 DEF Conveyed, h
    <2> QED
      BY <1>1, <1>6, <2>1, <2>2 DEF MeaningInv
  <1> QED
    BY <1>7, <1>8

\* A message that ends too early conveys nothing.
LEMMA RecvEndKeepsMeaning ==
  ASSUME MessagesAreWellFormed, MeaningInv, stage = "read", stage' = "read", RecvEnd
  PROVE  MeaningInv'
  <1> DEFINE all == message.bytes  h == HeadOf(all)
  <1>1. /\ message \in Messages /\ all \in Seq(Bytes) /\ Len(all) \in Nat
        /\ used = Len(all) /\ used' = used /\ message' = message /\ reading' = "refused"
        /\ reading \in {"head", "body"}
    BY MessagesAssumption, LenProperties DEF MeaningInv, RecvEnd
  <1>2. message.means = Conveyed(all)
    BY <1>1 DEF MessagesAreWellFormed
  <1>3. CASE reading = "head"
    <2>1. SubSeq(all, 1, used) = all
      BY <1>1, SubSeqFull
    <2>2. HeadersEnd(all) = 0
      BY <1>3, <2>1 DEF MeaningInv
    <2>3. message.means = NoRequest
      BY <1>2, <2>2 DEF Conveyed
    <2> QED
      BY <1>1, <2>3 DEF MeaningInv
  <1>4. CASE reading = "body"
    <2>1. HeadersEnd(all) # 0 /\ need = Len(h) + ContentLength(h).length /\ used < need
      BY <1>4 DEF MeaningInv
    <2>2. Len(h) \in Nat /\ ContentLength(h).length \in Nat
      BY <1>1, <2>1, HeadFacts, ContentLengthIsNatural, LenProperties
    <2>3. ~(Len(h) + ContentLength(h).length <= Len(all))
      BY <1>1, <2>1, <2>2
    <2>4. message.means = NoRequest
      BY <1>2, <2>3 DEF Conveyed
    <2> QED
      BY <1>1, <2>4 DEF MeaningInv
  <1> QED
    BY <1>1, <1>3, <1>4

\* The handler gets the request that was sent, in whatever pieces it comes, and a
\* request is refused only if it is cut short, malformed or too long.
THEOREM RequestIsReadAsSent ==
  ASSUME MessagesAreWellFormed
  PROVE  Spec => []ReadsWhatWasSent
  <1>1. Init => MeaningInv
    <2> SUFFICES ASSUME Init PROVE MeaningInv
      OBVIOUS
    <2>1. /\ message \in Messages /\ used = 0 /\ reading = "head" /\ stage = "read"
          /\ message.bytes \in Seq(Bytes) /\ Len(message.bytes) \in Nat
      BY MessagesAssumption, LenProperties DEF Init, ReaderInit
    <2> DEFINE b == SubSeq(message.bytes, 1, 0)
    <2>2. b \in Seq(Bytes) /\ Len(b) = 0
      <3>1. 1 \in Nat \ {0} /\ 0 \in 0..Len(message.bytes) /\ 1 <= 0 + 1 /\ 0 - 1 + 1 = 0
        BY <2>1
      <3> QED
        BY <2>1, <3>1, PartOfBytes
    <2> HIDE DEF b
    <2>3. HeadersEnd(b) = 0
      <3>1. HeadersEnd(b) # 0 => HeadersEnd(b) \in Nat \ {0} /\ HeadersEnd(b) + 3 <= Len(b)
        BY <2>2, HeadersEndIs, HeadersEndInside DEF EmptyLineFirst
      <3> QED
        BY <2>2, <3>1
    <2> QED
      BY <2>1, <2>3 DEF MeaningInv, b
  <1>2. ASSUME MeaningInv, [Next]_vars PROVE MeaningInv'
    <2>1. CASE Reading
      <3>1. stage = "read" /\ stage' = "read" /\ ReaderStep
        BY <2>1 DEF Reading
      <3>2. CASE RecvFail
        BY <1>2, <3>1, <3>2 DEF RecvFail, MeaningInv
      <3> QED
        BY <1>2, <3>1, <3>2, RecvHeadKeepsMeaning, RecvBodyKeepsMeaning,
           RecvEndKeepsMeaning DEF ReaderStep
    <2>2. CASE BeginResponse
      BY <2>2 DEF BeginResponse, MeaningInv
    <2>3. CASE Building \/ BeginSending \/ Sending
      <3>1. /\ message' = message /\ used' = used /\ need' = need /\ reading' = reading
            /\ request' = request
        BY <2>3 DEF Building, BeginSending, Sending, readerVars
      <3>2. stage' = stage \/ (stage = "build" /\ stage' = "send")
        BY <2>3 DEF Building, BeginSending, Sending
      <3> QED
        BY <1>2, <3>1, <3>2 DEF MeaningInv
    <2>4. CASE UNCHANGED vars
      BY <1>2, <2>4 DEF vars, readerVars, MeaningInv
    <2> QED
      BY <1>2, <2>1, <2>2, <2>3, <2>4 DEF Next, Closed
  <1>3. MeaningInv /\ NothingOverflows => ReadsWhatWasSent
    BY DEF MeaningInv, ReadsWhatWasSent
  <1> QED
    BY <1>1, <1>2, <1>3, ReaderStaysInside, PTL DEF Spec
=============================================================================
