------------------------------- MODULE Bridge -------------------------------
(***************************************************************************)
(* Requests and responses as the guest's bridge sees them                  *)
(* (bridge.gleam:48-57, 69-108, 150-167): what a request asks for, and     *)
(* which payloads handle/2 may return for it.                              *)
(***************************************************************************)
EXTENDS Frame

CONSTANTS
  Requests,           \* [purpose, form, answers]; answers: what the handler may respond
  InvalidPayload,     \* 400 "invalid request payload"
  BadMethod,          \* 400 "bad method"
  NoContent,          \* wisp.no_content()
  FilesNotSupported   \* 501, in place of a file body

ASSUME RequestsAssumption ==
  Requests \subseteq [purpose : {"serve", "warmup"},
                      form    : {"ok", "invalid payload", "bad method"},
                      answers : SUBSET Payloads]
ASSUME BridgePayloadsAssumption ==
  {InvalidPayload, BadMethod, NoContent, FilesNotSupported} \subseteq Payloads

\* handle/2: an undecodable request is answered with an error, the warm-up with no
\* content, and a served request by the handler, whose file bodies become a 501.
AnswersTo(r) ==
  CASE r.form = "invalid payload" -> {InvalidPayload}
    [] r.form = "bad method"      -> {BadMethod}
    [] r.form = "ok" /\ r.purpose = "warmup" -> {NoContent}
    [] r.form = "ok" /\ r.purpose = "serve"  -> r.answers \union {FilesNotSupported}

\* What runWasm does beside returning one of ParseOutput's results.
Pending == [kind |-> "pending", payload |-> <<>>]
Throws  == [kind |-> "throws", payload |-> <<>>]
=============================================================================
