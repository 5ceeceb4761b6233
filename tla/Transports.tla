------------------------------ MODULE Transports ------------------------------
(***************************************************************************)
(* What the transports to the providers make of one answer: codex (openai),*)
(* lmstudio, cloud (anthropic and openrouter alike) and decision, under    *)
(* internal, in transport.go and codex_transport.go.                       *)
(*                                                                         *)
(* An answer of a provider is a record of its HTTP status, whether it is   *)
(* an event stream, and its body.  A body of an accepted request is        *)
(*   object, prose, fenced, empty  the text it carries: a JSON object, some*)
(*                                 text, an object in a Markdown fence, "" *)
(*   interrupted   a stream that sends some text and then an error event   *)
(*   failed        a stream that sends an error event and no text          *)
(*   overlong      a stream with a line beyond the buffer of its scanner   *)
(*   garbled       no JSON where JSON belongs                              *)
(*   unreadable    the connection ends first, or the body is over its limit*)
(* To a request that looks for models or verifies a key, object is a list  *)
(* and empty is a JSON object without one.                                 *)
(***************************************************************************)
EXTENDS ErrorContract

Providers == {"openai", "lmstudio", "cloud", "decision"}

\* What a request for a text names, and the transport behind it.
LLMs        == {"openai", "lmstudio", "anthropic", "openrouter"}
Family(llm) == IF llm \in {"anthropic", "openrouter"} THEN "cloud" ELSE llm

Texts == {"object", "prose", "fenced", "empty"}

StreamAnswers == [status : {200}, sse : {TRUE}, body : Texts \cup {"interrupted", "failed", "overlong", "garbled", "unreadable"}]
PlainAnswers  == [status : {200}, sse : {FALSE}, body : Texts \cup {"garbled", "unreadable"}]
Refusals      == [status : {302, 400, 401, 404, 408, 409, 429, 500, 504, 529}, sse : {FALSE},
                  body : {"error", "usage_limit", "unreadable"}]

Codes ==
  [openai   |-> [rejected |-> "ERR_CODEX_AUTH_REJECTED", timeout |-> "ERR_CODEX_TIMEOUT",
                 limited |-> "ERR_CODEX_RATE_LIMITED", request |-> "ERR_CODEX_REQUEST_INVALID",
                 response |-> "ERR_CODEX_STREAM_INVALID", failed |-> "ERR_CODEX_HTTP_FAILED"],
   lmstudio |-> [rejected |-> "ERR_LMSTUDIO_AUTH_REJECTED", timeout |-> "ERR_LMSTUDIO_TIMEOUT",
                 limited |-> "ERR_LMSTUDIO_RATE_LIMITED", request |-> "ERR_LMSTUDIO_REQUEST_INVALID",
                 response |-> "ERR_LMSTUDIO_RESPONSE_INVALID", failed |-> "ERR_LMSTUDIO_HTTP_FAILED"],
   cloud    |-> [rejected |-> "ERR_CLOUD_AUTH_REJECTED", timeout |-> "ERR_CLOUD_TIMEOUT",
                 limited |-> "ERR_CLOUD_RATE_LIMITED", request |-> "ERR_CLOUD_REQUEST_INVALID",
                 response |-> "ERR_CLOUD_RESPONSE_INVALID", failed |-> "ERR_CLOUD_PROVIDER_FAILED"],
   decision |-> [rejected |-> "ERR_DECISION_AUTH_REJECTED", timeout |-> "ERR_DECISION_TIMEOUT",
                 limited |-> "ERR_DECISION_RATE_LIMITED", request |-> "ERR_DECISION_REQUEST_INVALID",
                 response |-> "ERR_DECISION_RESPONSE_INVALID", failed |-> "ERR_DECISION_PROVIDER_FAILED"]]

Cancelled      == Error("ERR_CONTEXT_CANCELLED", 408)
TimedOut(p)    == Error(Codes[p].timeout, 504)
Failed(p)      == Error(Codes[p].failed, 502)
BadAnswer(p)   == Error(Codes[p].response, 502)
BadRequest(p)  == Error(Codes[p].request, 400)
EmptyAnswer    == Error("ERR_CLOUD_RESPONSE_EMPTY", 502)
InvalidContract == Error("ERR_LLM_REQUEST_INVALID", 400)

NoError   == Error("", 0)
OK(text)  == [error |-> NoError, text |-> text]
Err(e)    == [error |-> e, text |-> "none"]
IsOK(out) == out.error = NoError

StatusError(p, status) ==
  CASE status \in {401, 403} -> Error(Codes[p].rejected, 401)
    [] status \in {408, 504} \/ (p = "decision" /\ status = 529) -> TimedOut(p)
    [] status = 429 -> Error(Codes[p].limited, 429)
    [] status \in 400..499 /\ status \notin {401, 403, 408, 429} -> BadRequest(p)
    [] OTHER -> Failed(p)

\* NormalizeStructuredOutputText lets only a JSON object pass.
Structured_LetsFencePass(out) ==
  IF IsOK(out) /\ out.text \notin {"object", "fenced"} THEN Err(UnsupportedOutputContract) ELSE out

Structured(out) ==
  IF IsOK(out) /\ out.text # "object" THEN Err(UnsupportedOutputContract) ELSE out

Contracted(request, out) == IF request.contract THEN Structured(out) ELSE out

InvalidContracts(request) == IF request.contract THEN {InvalidContract} ELSE {}

------------------------------------------------------------------------------
(* Codex always asks for a stream and takes what comes, an error event     *)
(* included; a refusal of a request with a contract is laid to the contract.*)

CodexChecks(request) ==
  {BadRequest("openai"), Error("ERR_CODEX_ACCOUNT_ID_MISSING", 400)} \cup InvalidContracts(request)

CodexText(answer) ==
  CASE answer.body \in {"unreadable", "overlong"} -> Err(BadAnswer("openai"))
    [] answer.body = "interrupted" -> OK("prose")
    [] answer.body \in {"garbled", "failed"} -> OK("empty")
    [] answer.body \in Texts       -> OK(answer.body)

CodexRefusal(request, answer) ==
  LET e == StatusError("openai", answer.status)
  IN  IF e # BadRequest("openai") THEN e
      ELSE IF answer.body = "usage_limit" THEN Error(Codes.openai.limited, 429)
      ELSE IF request.contract THEN UnsupportedOutputContract
      ELSE e

SendCodexResponse(request, answer) ==
  IF answer.status = 200 THEN Contracted(request, CodexText(answer)) ELSE Err(CodexRefusal(request, answer))

\* The answers sendOnce asks to try again.
Retryable_AnyRefusal(status) == status >= 400

Retryable(status) == status \in {408, 429, 500, 502, 503, 504}

------------------------------------------------------------------------------
(* LM Studio: whatever comes decides between stream and JSON, an error     *)
(* event is skipped, and an empty text is an answer.                       *)

LMStudioChecks(request) ==
  {Error("ERR_LMSTUDIO_BASE_URL_INVALID", 400), Error("ERR_LMSTUDIO_API_KEY_REQUIRED", 400)} \cup
  (IF request.op = "generate" THEN {BadRequest("lmstudio")} ELSE {Error("ERR_INVALID_PROFILE_ID", 400)}) \cup
  InvalidContracts(request)

LMStudioText(answer) ==
  CASE answer.body = "unreadable"  -> Err(BadAnswer("lmstudio"))
    [] answer.body = "overlong"    -> Err(BadAnswer("openai"))   \* the scanner is codex's
    [] answer.body = "interrupted" -> OK("prose")
    [] answer.body = "failed"      -> OK("empty")
    [] answer.body = "garbled"     -> IF answer.sse THEN OK("empty") ELSE Err(BadAnswer("lmstudio"))
    [] answer.body \in Texts       -> OK(answer.body)

LMStudioRefusal(request, answer) ==
  IF request.contract /\ answer.status \in {400, 404, 422}
  THEN UnsupportedOutputContract
  ELSE StatusError("lmstudio", answer.status)

SendResponse(request, answer) ==
  IF answer.status = 200 THEN Contracted(request, LMStudioText(answer)) ELSE Err(LMStudioRefusal(request, answer))

ListModels(answer) ==
  IF answer.body = "unreadable" THEN Err(BadAnswer("lmstudio"))
  ELSE IF answer.status # 200 THEN Err(StatusError("lmstudio", answer.status))
  ELSE IF answer.body = "garbled" THEN Err(BadAnswer("lmstudio"))
  ELSE OK("authenticated")

------------------------------------------------------------------------------
(* Cloud: the body is read before the status is looked at, what was asked  *)
(* for decides between stream and JSON, an error event ends the answer, and*)
(* an empty text is an error.                                              *)

CloudChecks(request) ==
  {BadRequest("cloud")} \cup InvalidContracts(request) \cup
  (IF request.op = "configure" THEN {Error("ERR_LLM_REQUEST_INVALID", 400)} ELSE {})

CloudText(request, answer) ==
  IF request.stream
  THEN CASE answer.body = "overlong" -> Err(BadAnswer("cloud"))
         [] answer.body \in {"interrupted", "failed"} -> Err(Failed("cloud"))
         [] answer.body \in Texts   -> OK(IF answer.sse THEN answer.body ELSE "empty")
         [] answer.body = "garbled" -> OK("empty")
  ELSE IF answer.sse \/ answer.body = "garbled" THEN Err(BadAnswer("cloud")) ELSE OK(answer.body)

CloudRefusal(request, answer) ==
  LET e == StatusError("cloud", answer.status)
  IN  IF request.contract /\ e = BadRequest("cloud") THEN UnsupportedOutputContract ELSE e

NonEmpty(out) == IF out = OK("empty") THEN Err(EmptyAnswer) ELSE out

CloudSend(request, answer) ==
  IF answer.body = "unreadable" THEN Err(BadAnswer("cloud"))
  ELSE IF answer.status # 200 THEN Err(CloudRefusal(request, answer))
  ELSE NonEmpty(Contracted(request, CloudText(request, answer)))

VerifyKey_ByStatusOnly(p, answer) ==
  IF answer.status = 200 THEN OK("authenticated") ELSE Err(StatusError(p, answer.status))

\* Both cloud and decision.
VerifyKey(p, answer) ==
  IF answer.body = "unreadable" THEN Err(BadAnswer(p))
  ELSE IF answer.status # 200 THEN Err(StatusError(p, answer.status))
  ELSE IF answer.body # "object" THEN Err(BadAnswer(p))
  ELSE OK("authenticated")

------------------------------------------------------------------------------
(* Decision.                                                               *)

DecisionChecks(request) == {BadRequest("decision")}

Evaluate(answer) ==
  IF answer.body = "unreadable" THEN Err(BadAnswer("decision"))
  ELSE IF answer.status # 200 THEN Err(StatusError("decision", answer.status))
  ELSE IF answer.body # "object" THEN Err(BadAnswer("decision"))
  ELSE OK("object")

------------------------------------------------------------------------------
(* All of them.                                                            *)

Checks(request) ==
  CASE request.provider = "openai"   -> CodexChecks(request)
    [] request.provider = "lmstudio" -> LMStudioChecks(request)
    [] request.provider = "cloud"    -> CloudChecks(request)
    [] request.provider = "decision" -> DecisionChecks(request)

Generated(request, answer) ==
  CASE request.provider = "openai"   -> SendCodexResponse(request, answer)
    [] request.provider = "lmstudio" -> SendResponse(request, answer)
    [] request.provider = "cloud"    -> CloudSend(request, answer)
    [] request.provider = "decision" -> Evaluate(answer)

Verified(request, answer) ==
  IF request.provider = "lmstudio" THEN ListModels(answer) ELSE VerifyKey(request.provider, answer)
===============================================================================
