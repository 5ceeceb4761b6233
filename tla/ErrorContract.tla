---------------------------- MODULE ErrorContract ----------------------------
(***************************************************************************)
(* The errors of the generation path and what each layer makes of them:    *)
(* the HTTP routes (internal/httpapi/routes_llm.go, routes_decisions.go)   *)
(* translate the errors of store, refresher and transports into public     *)
(* codes, and the MCP server (internal/mcpstdio/server.go) reads a code    *)
(* back from the text of an HTTP answer.                                   *)
(*                                                                         *)
(* An error is its code and its HTTP status; messages and details are left *)
(* out.  No message holds the code of another error, so that a search for  *)
(* a code in the text of an answer is a test of the answer's own code.     *)
(*                                                                         *)
(* An operator A_Fault is A with a fault a change to the code could bring  *)
(* in; nothing else uses it.                                               *)
(***************************************************************************)
EXTENDS Naturals

Error(code, status) == [code |-> code, status |-> status]

\* What the credential store and, for openai, the refresher may answer.
StoreErrors ==
  {Error("ERR_AUTH_PROFILE_NOT_FOUND", 404), Error("ERR_INVALID_PROFILE_ID", 400),
   Error("ERR_AUTH_STORE_CORRUPTED", 500), Error("ERR_TOKEN_DECRYPTION_FAILED", 500),
   Error("ERR_CONTEXT_CANCELLED", 408)}
RefreshErrors ==
  {Error("ERR_AUTH_STORE_LOCK_TIMEOUT", 409), Error("ERR_TOKEN_REFRESH_FAILED", 401),
   Error("ERR_TOKEN_RESPONSE_INVALID", 502), Error("ERR_ACCOUNT_ID_CHANGED", 409)} \cup StoreErrors
SaveErrors ==
  {Error("ERR_AUTH_STORE_WRITE_FAILED", 500), Error("ERR_AUTH_STORE_LOCK_TIMEOUT", 409)} \cup StoreErrors

UnsupportedOutputContract == Error("ERR_LLM_OUTPUT_CONTRACT_UNSUPPORTED", 422)
UnknownProvider           == Error("ERR_LLM_PROVIDER_UNKNOWN", 400)

------------------------------------------------------------------------------
(* The HTTP layer.                                                         *)

NeedLogin  == {"ERR_AUTH_PROFILE_NOT_FOUND", "ERR_CODEX_ACCOUNT_ID_MISSING"}
Rejections == {"ERR_CODEX_AUTH_REJECTED", "ERR_LMSTUDIO_AUTH_REJECTED", "ERR_CLOUD_AUTH_REJECTED",
               "ERR_LOGIN_SESSION_EXPIRED"}
Limits     == {"ERR_CODEX_RATE_LIMITED", "ERR_LMSTUDIO_RATE_LIMITED", "ERR_CLOUD_RATE_LIMITED"}
Timeouts   == {"ERR_CODEX_TIMEOUT", "ERR_LMSTUDIO_TIMEOUT", "ERR_CLOUD_TIMEOUT"}
Invalid    == {"ERR_INVALID_JSON", "ERR_PAYLOAD_TOO_LARGE", "ERR_INVALID_PROFILE_ID",
               "ERR_INVALID_PROVIDER_ID", "ERR_CODEX_REQUEST_INVALID", "ERR_LMSTUDIO_REQUEST_INVALID",
               "ERR_LMSTUDIO_BASE_URL_INVALID", "ERR_LMSTUDIO_API_KEY_REQUIRED", "ERR_CLOUD_REQUEST_INVALID"}
AsTheyAre  == {"ERR_LLM_PROVIDER_UNKNOWN", "ERR_LLM_REQUEST_INVALID", "ERR_LLM_REFRESH_UNSUPPORTED"}

Unavailable_KeepsStatus(e) == Error("ERR_LLM_PROVIDER_UNAVAILABLE", e.status)

Unavailable(e) == Error("ERR_LLM_PROVIDER_UNAVAILABLE", 502)

NormalizeLLMError(e) ==
  CASE e.code \in AsTheyAre                              -> e
    [] e.code = "ERR_LLM_OUTPUT_CONTRACT_UNSUPPORTED"    -> UnsupportedOutputContract
    [] e.code \in NeedLogin                              -> Error("ERR_LLM_AUTH_REQUIRED", 401)
    [] e.code \in Rejections                             -> Error("ERR_LLM_AUTH_EXPIRED", 401)
    [] e.code = "ERR_LOGIN_SESSION_NOT_FOUND"            -> Error("ERR_LLM_REQUEST_INVALID", 404)
    [] e.code \in Limits                                 -> Error("ERR_LLM_RATE_LIMITED", 429)
    [] e.code = "ERR_CLOUD_RESPONSE_EMPTY"               -> Error("ERR_LLM_RESPONSE_EMPTY", 502)
    [] e.code \in Timeouts                               -> Error("ERR_LLM_PROVIDER_UNAVAILABLE", 504)
    [] e.code = "ERR_CONTEXT_CANCELLED"                  -> Error("ERR_LLM_PROVIDER_UNAVAILABLE", 408)
    [] e.code \in Invalid                                -> Error("ERR_LLM_REQUEST_INVALID", e.status)
    [] OTHER                                             -> Unavailable(e)

NormalizeDecisionError(e) ==
  CASE e.code = "ERR_AUTH_PROFILE_NOT_FOUND"  -> Error("ERR_DECISION_AUTH_REQUIRED", 401)
    [] e.code = "ERR_DECISION_AUTH_REJECTED"  -> Error("ERR_DECISION_AUTH_EXPIRED", 401)
    [] e.code = "ERR_DECISION_RATE_LIMITED"   -> Error("ERR_DECISION_RATE_LIMITED", 429)
    [] e.code = "ERR_DECISION_TIMEOUT"        -> Error("ERR_DECISION_PROVIDER_UNAVAILABLE", 504)
    [] e.code \in {"ERR_DECISION_REQUEST_INVALID", "ERR_INVALID_JSON", "ERR_PAYLOAD_TOO_LARGE"} ->
         Error("ERR_DECISION_REQUEST_INVALID", e.status)
    [] OTHER -> e

------------------------------------------------------------------------------
(* The MCP server finds the first of these in the text "middleware HTTP    *)
(* <status>: <body>", or in the text of a failed call.                     *)

PublicCodes ==
  {"ERR_LLM_PROVIDER_UNKNOWN", "ERR_LLM_REFRESH_UNSUPPORTED", "ERR_LLM_AUTH_REQUIRED",
   "ERR_LLM_AUTH_EXPIRED", "ERR_LLM_RATE_LIMITED", "ERR_LLM_REQUEST_INVALID", "ERR_LLM_PROVIDER_UNAVAILABLE"}

CodeFromError(e) ==
  IF e.code \in PublicCodes THEN e.code
  ELSE IF e.code \in {"ERR_MIDDLEWARE_UNAUTHORIZED", "ERR_AUTH_PROFILE_NOT_FOUND",
                      "ERR_LMSTUDIO_API_KEY_REQUIRED"} THEN "ERR_LLM_AUTH_REQUIRED"
  ELSE IF \/ e.code \in {"ERR_TOKEN_REFRESH_FAILED", "ERR_ACCOUNT_ID_CHANGED",
                         "ERR_CODEX_AUTH_REJECTED", "ERR_LMSTUDIO_AUTH_REJECTED"}
          \/ e.status = 401 THEN "ERR_LLM_AUTH_EXPIRED"
  ELSE IF \/ e.code \in {"ERR_CODEX_RATE_LIMITED", "ERR_LMSTUDIO_RATE_LIMITED"}
          \/ e.status = 429 THEN "ERR_LLM_RATE_LIMITED"
  ELSE IF \/ e.code \in {"ERR_CODEX_REQUEST_INVALID", "ERR_LMSTUDIO_REQUEST_INVALID",
                         "ERR_LMSTUDIO_BASE_URL_INVALID", "ERR_INVALID_JSON", "ERR_INVALID_PROJECT_ID",
                         "ERR_INVALID_PROFILE_ID", "ERR_INVALID_PROVIDER_ID"}
          \/ e.status = 400 THEN "ERR_LLM_REQUEST_INVALID"
  ELSE IF \/ e.code \in {"ERR_CODEX_STREAM_INVALID", "ERR_CODEX_HTTP_FAILED", "ERR_CODEX_TIMEOUT",
                         "ERR_LMSTUDIO_HTTP_FAILED", "ERR_LMSTUDIO_TIMEOUT", "ERR_LMSTUDIO_RESPONSE_INVALID"}
          \/ e.status \in {502, 503, 504} THEN "ERR_LLM_PROVIDER_UNAVAILABLE"
  ELSE "ERR_LLM_INTERNAL"

------------------------------------------------------------------------------
(* The table of public errors in docs/LLM_PROVIDER_CONTRACT.md.            *)

DocumentedStatuses ==
  [ERR_LLM_PROVIDER_UNKNOWN            |-> {400},
   ERR_LLM_AUTH_REQUIRED               |-> {401},
   ERR_LLM_AUTH_EXPIRED                |-> {401},
   ERR_LLM_REFRESH_UNSUPPORTED         |-> {400},
   ERR_LLM_REQUEST_INVALID             |-> {400, 413},
   ERR_LLM_OUTPUT_CONTRACT_UNSUPPORTED |-> {422},
   ERR_LLM_PROVIDER_UNAVAILABLE        |-> {408, 502, 504},
   ERR_LLM_RATE_LIMITED                |-> {429},
   ERR_LLM_RESPONSE_EMPTY              |-> {502},
   ERR_LLM_INTERNAL                    |-> {500}]

DocumentedErrors == UNION {{Error(c, s) : s \in DocumentedStatuses[c]} : c \in DOMAIN DocumentedStatuses}
==============================================================================
