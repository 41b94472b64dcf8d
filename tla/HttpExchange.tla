---------------------------- MODULE HttpExchange ----------------------------
(***************************************************************************)
(* One connection from the point of view of the worker that serves it      *)
(* (handle_client in src/server.c): the request is read, a body is built,  *)
(* the response is sent.  Composes HttpRequest, JsonBuilder and            *)
(* HttpResponse.  What was read is forgotten when the response begins: the *)
(* buffer is local to http_read_request.                                   *)
(***************************************************************************)
EXTENDS HttpRequest, JsonBuilder, HttpResponse

CONSTANTS
  NoMessage,  \* the message of a connection that is past reading
  FixedBody   \* the length of the fixed body that is sent without memory

ASSUME FixedBodyAssumption == FixedBody \in Nat

VARIABLE stage  \* "read", "build" or "send"

vars == <<readerVars, builderVars, senderVars, stage>>

Init == ReaderInit /\ BuilderInit /\ SenderInit /\ stage = "read"

Reading ==
  /\ stage = "read"
  /\ ReaderStep
  /\ UNCHANGED <<builderVars, senderVars, stage>>

\* handle_client has its request, or the message of its refusal.
BeginResponse ==
  /\ stage = "read"
  /\ reading \in {"read", "refused", "lost"}
  /\ stage' = "build"
  /\ message' = NoMessage
  /\ used' = 0 /\ need' = 0
  /\ reading' = "head"
  /\ request' = NoRequest
  /\ UNCHANGED <<builderVars, senderVars>>

Building ==
  /\ stage = "build"
  /\ BuilderStep
  /\ UNCHANGED <<readerVars, senderVars, stage>>

\* The body is taken out of the builder and sent, or the fixed one without it.
BeginSending ==
  /\ stage = "build"
  /\ \/ /\ Release
        /\ \E nl \in BOOLEAN : StartSending(len, nl)
     \/ /\ place = "none"
        /\ StartSending(FixedBody, TRUE)
        /\ UNCHANGED builderVars
  /\ stage' = "send"
  /\ UNCHANGED readerVars

Sending ==
  /\ stage = "send"
  /\ SenderStep
  /\ UNCHANGED <<readerVars, builderVars, stage>>

\* The connection is closed.
Closed ==
  /\ sending \in {"sent", "broken"}
  /\ UNCHANGED vars

Next == Reading \/ BeginResponse \/ Building \/ BeginSending \/ Sending \/ Closed

Spec == Init /\ [][Next]_vars
=============================================================================
