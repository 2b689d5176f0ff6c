------------------------------ MODULE Service ------------------------------
(***************************************************************************)
(* What the worker promises its clients: every fetch gets at most one      *)
(* answer, an answer to this very request.  A body over the limit is never *)
(* served; any other request is answered by the bridge, or with an error   *)
(* of the worker's own (index.js:469-541).                                 *)
(***************************************************************************)
EXTENDS Bridge

CONSTANTS
  Fetches,     \* the requests clients send
  RequestOf,   \* [Fetches -> Requests]: what fetch f asks the guest
  MaxBody,     \* MAX_BODY_SIZE: 1 MiB
  Rejected,    \* payloads of which `new Response` rejects the status or a header
  NullBody     \* payloads with a status that forbids a body: 101, 204, 205, 304

VARIABLES
  inbox,       \* [Fetches -> [hasBody, declared, size]]: the requests as sent
  answer

NoAnswer   == [kind |-> "none", payload |-> <<>>]
TooLarge   == [kind |-> "payload too large", payload |-> <<>>]
BadGateway == [kind |-> "bad gateway", payload |-> <<>>]
ServerError == [kind |-> "internal server error", payload |-> <<>>]

\* A response as the client gets it: without its body where the status forbids one.
Reply(p) ==
  IF p \in Rejected THEN ServerError
  ELSE [kind |-> IF p \in NullBody THEN "without body" ELSE "with body", payload |-> p]

Oversize(m) == m.hasBody /\ (m.declared > MaxBody \/ m.size > MaxBody)

Permitted(f) ==
  IF Oversize(inbox[f]) THEN {TooLarge, ServerError}
  ELSE {BadGateway, ServerError} \union {Reply(p) : p \in AnswersTo(RequestOf[f])}

Init == answer = [f \in Fetches |-> NoAnswer]

Answer(f) ==
  /\ answer[f] = NoAnswer
  /\ \E a \in Permitted(f) : answer' = [answer EXCEPT ![f] = a]
  /\ UNCHANGED inbox

Spec == Init /\ [][\E f \in Fetches : Answer(f)]_<<inbox, answer>>
=============================================================================
