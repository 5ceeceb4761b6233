------------------------------- MODULE Gateway -------------------------------
(***************************************************************************)
(* One request to a route that has a provider behind it, from its arrival  *)
(* to its answer: generation, the configuration of an API key, status and  *)
(* refresh, on the llm routes (internal/httpapi/routes_llm.go), the        *)
(* decisions routes (routes_decisions.go) and the legacy routes of openai  *)
(* and lmstudio (routes_auth.go, routes_codex.go, routes_lmstudio.go), with*)
(* the retry loop of internal/codex/codex_transport.go.                    *)
(*                                                                         *)
(* Requests meet only in the credential store and the refresher, which     *)
(* AuthStore and TokenRefresh model; here they succeed or fail.            *)
(*                                                                         *)
(* An operator A_Fault is A with a fault a change to the code could bring  *)
(* in; Next uses none of them.                                             *)
(***************************************************************************)
EXTENDS Transports

CONSTANT MaxRetries   \* OPENAI_CODEX_MAX_RETRIES

ASSUME MaxRetriesAssumption == MaxRetries \in 0..10

VARIABLES
  request,    \* what the client asks for
  pc,         \* where its handler is
  connected,  \* the client has not hung up: r.Context() is alive
  attempt,    \* the loop variable of SendCodexResponse
  sends,      \* how many requests have gone to the provider
  last,       \* history: how the last of them ended
  saved,      \* the credential has been stored
  reply       \* the answer to the client

vars == <<request, pc, connected, attempt, sends, last, saved, reply>>

RoutesOf(provider) == CASE provider \in {"openai", "lmstudio"} -> {"llm", "legacy"}
                        [] provider = "cloud"                  -> {"llm"}
                        [] provider = "decision"               -> {"decisions"}

Asks(ops, flags) == [route : {"llm", "legacy", "decisions"}, provider : Providers, op : ops,
                     contract : flags, stream : flags]

\* The routes there are: openai is configured by a login (LoginSessions), decisions have no
\* contract, stream or refresh, and the legacy refresh is for openai.
Requests ==
  {r \in Asks({"generate"}, BOOLEAN) \cup Asks({"configure", "status", "refresh"}, {FALSE}) :
     /\ r.route \in RoutesOf(r.provider)
     /\ r.provider = "decision" => r.op # "refresh" /\ ~ r.contract /\ ~ r.stream
     /\ r.provider = "openai"   => r.op # "configure"
     /\ r.route = "legacy" /\ r.op = "refresh" => r.provider = "openai"}

NoAnswer  == [status |-> 0, sse |-> FALSE, body |-> "none"]
Ended(end, answer) == [end |-> end, answer |-> answer]

States == {"receive", "resolve", "check", "send", "wait", "backoff", "save", "done"}

TypeOK ==
  /\ request \in Requests
  /\ pc \in States
  /\ connected \in BOOLEAN /\ saved \in BOOLEAN
  /\ attempt \in 0..MaxRetries
  /\ sends \in 0..(MaxRetries + 1)
  /\ last.end \in {"none", "replied", "broken", "timeout", "cancelled"}
  /\ last.answer \in {NoAnswer} \cup StreamAnswers \cup PlainAnswers \cup Refusals
  /\ reply.text \in Texts \cup {"none", "authenticated", "unauthenticated"}

Init ==
  /\ request \in Requests
  /\ pc = "receive"
  /\ connected = TRUE
  /\ attempt = 0
  /\ sends = 0
  /\ last = Ended("none", NoAnswer)
  /\ saved = FALSE
  /\ reply = Err(NoError)

------------------------------------------------------------------------------
(* Answers.  The legacy routes pass an error on as it is; the decisions    *)
(* routes translate those of the transport and, for an evaluation, of the  *)
(* credential.                                                             *)

Public(e) ==
  CASE request.route = "llm"    -> NormalizeLLMError(e)
    [] request.route = "legacy" -> e
    [] request.route = "decisions" ->
         IF pc \in {"receive", "save"} \/ request.op = "status" THEN e ELSE NormalizeDecisionError(e)

Succeed(text) == pc' = "done" /\ reply' = OK(text)
Fail(e)       == pc' = "done" /\ reply' = Err(Public(e))

\* An error of a cancelled context needs a client that has hung up.
Possible(e) == e.code = "ERR_CONTEXT_CANCELLED" => ~ connected

HangUp ==
  /\ pc # "done" /\ connected
  /\ connected' = FALSE
  /\ UNCHANGED <<request, pc, attempt, sends, last, saved, reply>>

------------------------------------------------------------------------------
(* Reading the request and its credential.                                 *)

ReceiveErrors ==
  LET json     == {Error("ERR_INVALID_JSON", 400), Error("ERR_PAYLOAD_TOO_LARGE", 413)}
      identity == {UnknownProvider, Error("ERR_LLM_REQUEST_INVALID", 400)}
  IN  CASE request.route = "llm" /\ request.op = "status" -> identity
        [] request.route = "llm" /\ request.op # "status" -> json \cup identity
        [] request.route = "decisions" ->
             {Error("ERR_DECISION_PROVIDER_UNKNOWN", 400), Error("ERR_INVALID_PROFILE_ID", 400)}
               \cup (IF request.op = "status" THEN {} ELSE json)
        [] request.route = "legacy" -> IF request.op \in {"generate", "configure"} THEN json ELSE {}

RefreshUnsupported == request.op = "refresh" /\ request.provider # "openai"

Receive ==
  /\ pc = "receive" /\ ~ RefreshUnsupported
  /\ pc' = IF request.op = "configure" THEN "check" ELSE "resolve"
  /\ UNCHANGED <<request, connected, attempt, sends, last, saved, reply>>

Reject ==
  /\ pc = "receive"
  /\ \E e \in ReceiveErrors \cup
              (IF RefreshUnsupported THEN {Error("ERR_LLM_REFRESH_UNSUPPORTED", 400)} ELSE {}) : Fail(e)
  /\ UNCHANGED <<request, connected, attempt, sends, last, saved>>

Resolve ==
  /\ pc = "resolve"
  /\ IF request.op = "generate" THEN pc' = "check" /\ UNCHANGED reply ELSE Succeed("authenticated")
  /\ UNCHANGED <<request, connected, attempt, sends, last, saved>>

ResolveFails ==
  /\ pc = "resolve"
  /\ \E e \in IF request.provider = "openai" /\ request.op # "status" THEN RefreshErrors ELSE StoreErrors :
       /\ Possible(e)
       /\ IF request.op = "status" /\ e.code = "ERR_AUTH_PROFILE_NOT_FOUND" THEN Succeed("unauthenticated") ELSE Fail(e)
  /\ UNCHANGED <<request, connected, attempt, sends, last, saved>>

------------------------------------------------------------------------------
(* Sending it.                                                             *)

Check ==
  /\ pc = "check"
  /\ pc' = "send"
  /\ UNCHANGED <<request, connected, attempt, sends, last, saved, reply>>

CheckFails ==
  /\ pc = "check"
  /\ \E e \in Checks(request) : Fail(e)
  /\ UNCHANGED <<request, connected, attempt, sends, last, saved>>

Send ==
  /\ pc = "send" /\ connected
  /\ pc' = "wait"
  /\ sends' = sends + 1
  /\ UNCHANGED <<request, connected, attempt, last, saved, reply>>

SendCancelled ==
  /\ pc = "send" /\ ~ connected
  /\ Fail(Cancelled)
  /\ UNCHANGED <<request, connected, attempt, sends, last, saved>>

------------------------------------------------------------------------------
(* The end of an attempt.  Only codex has a retry loop.                    *)

MayRetry == request.provider = "openai" /\ attempt < MaxRetries

TryAgainOr(answered) ==
  IF MayRetry THEN pc' = "backoff" /\ UNCHANGED <<saved, reply>> ELSE answered

Returns(out) ==
  /\ UNCHANGED saved
  /\ IF ~ IsOK(out) THEN Fail(out.error)
     ELSE IF request.op = "generate" THEN Succeed(out.text)
     ELSE pc' = "save" /\ UNCHANGED reply

Answers == IF request.op = "generate" /\ request.provider # "decision"
           THEN StreamAnswers \cup PlainAnswers \cup Refusals
           ELSE {a \in PlainAnswers : a.body \notin {"prose", "fenced"}} \cup Refusals

ProviderAnswers ==
  /\ pc = "wait"
  /\ \E a \in Answers :
       /\ last' = Ended("replied", a)
       /\ LET out == IF request.op = "generate" THEN Generated(request, a) ELSE Verified(request, a)
          IN  IF Retryable(a.status) THEN TryAgainOr(Returns(out)) ELSE Returns(out)
  /\ UNCHANGED <<request, connected, attempt, sends>>

ConnectionBreaks ==
  /\ pc = "wait" /\ connected
  /\ last' = Ended("broken", NoAnswer)
  /\ TryAgainOr(Returns(Err(Failed(request.provider))))
  /\ UNCHANGED <<request, connected, attempt, sends>>

AttemptTimesOut_CodexOnly ==
  /\ pc = "wait" /\ connected /\ request.provider = "openai"
  /\ last' = Ended("timeout", NoAnswer)
  /\ Returns(Err(TimedOut(request.provider)))
  /\ UNCHANGED <<request, connected, attempt, sends>>

AttemptTimesOut ==
  /\ pc = "wait" /\ connected
  /\ last' = Ended("timeout", NoAnswer)
  /\ Returns(Err(TimedOut(request.provider)))
  /\ UNCHANGED <<request, connected, attempt, sends>>

AttemptCancelled ==
  /\ pc = "wait" /\ ~ connected
  /\ last' = Ended("cancelled", NoAnswer)
  /\ Returns(Err(Cancelled))
  /\ UNCHANGED <<request, connected, attempt, sends>>

\* The select may take the timer although the context is cancelled as well.
BackoffFires ==
  /\ pc = "backoff"
  /\ pc' = "send"
  /\ attempt' = attempt + 1
  /\ UNCHANGED <<request, connected, sends, last, saved, reply>>

BackoffCancelled ==
  /\ pc = "backoff" /\ ~ connected
  /\ Fail(Cancelled)
  /\ UNCHANGED <<request, connected, attempt, sends, last, saved>>

------------------------------------------------------------------------------
(* Storing a verified key.                                                 *)

Save ==
  /\ pc = "save"
  /\ saved' = TRUE
  /\ Succeed("authenticated")
  /\ UNCHANGED <<request, connected, attempt, sends, last>>

SaveFails ==
  /\ pc = "save"
  /\ \E e \in SaveErrors : Possible(e) /\ Fail(e)
  /\ UNCHANGED <<request, connected, attempt, sends, last, saved>>

Next ==
  \/ HangUp
  \/ Receive \/ Reject
  \/ Resolve \/ ResolveFails
  \/ Check \/ CheckFails
  \/ Send \/ SendCancelled
  \/ ProviderAnswers \/ ConnectionBreaks \/ AttemptTimesOut \/ AttemptCancelled
  \/ BackoffFires \/ BackoffCancelled
  \/ Save \/ SaveFails

Spec == Init /\ [][Next]_vars

\* The handler takes its steps and its timers fire; nothing obliges a provider to answer.
Fairness ==
  /\ WF_vars(Receive \/ Reject)
  /\ WF_vars(Resolve \/ ResolveFails)
  /\ WF_vars(Check \/ CheckFails)
  /\ WF_vars(Send \/ SendCancelled)
  /\ WF_vars(AttemptTimesOut \/ AttemptCancelled)
  /\ WF_vars(BackoffFires \/ BackoffCancelled)
  /\ WF_vars(Save \/ SaveFails)

FairSpec == Spec /\ Fairness

------------------------------------------------------------------------------
(* Properties.                                                             *)

\* A request costs at most one call of a provider, and one to openai at most 1 + MaxRetries, whatever
\* the answers, broken connections and back-offs in between (SendCodexResponse is the only loop).
BoundedCalls == sends <= IF request.provider = "openai" THEN 1 + MaxRetries ELSE 1

\* A request is repeated only for a client that still waits, and only after a call that ended in
\* nothing or in an answer that may be different next time: never after a refusal, which the provider
\* has counted and would repeat, and never after a call that used up its time.
RetriesAreTransient ==
  [][sends' > sends /\ sends > 0 =>
       /\ connected
       /\ \/ last.end = "broken"
          \/ last.end = "replied" /\ last.answer.status \in {408, 429, 500, 502, 503, 504}]_vars

\* An output contract is honoured or refused with 422: an accepted answer is a JSON object, on every
\* route, for every provider, streamed or not, and whether or not earlier attempts failed; and a
\* provider that refuses the request with 400 for another reason than a limit is reported as 422.
ContractIsHonoured ==
  request.contract /\ pc = "done" =>
    /\ IsOK(reply) => reply.text = "object"
    /\ last.end = "replied" /\ last.answer.status = 400 /\ last.answer.body = "error"
         => reply.error = UnsupportedOutputContract

\* Every error the handler of an llm route answers with is in the table of public errors, code and
\* status, wherever in store, refresher, transport or handler it arose.  (Requests the router itself
\* turns away reach no handler and are not modelled.)
AnswersAreDocumented ==
  request.route = "llm" /\ pc = "done" => IsOK(reply) \/ reply.error \in DocumentedErrors

\* A key is stored only if the provider has answered the question that verifies it with 200 and a
\* document, and the client is told of a success exactly when it is stored.  Nothing more: LM Studio
\* keys are stored on any JSON object, an empty one too, and the others on one with the member asked
\* for, as in the code.
KeyIsVerified ==
  /\ saved => /\ last.end = "replied" /\ last.answer.status = 200
              /\ last.answer.body \notin {"garbled", "unreadable"}
  /\ request.op = "configure" /\ pc = "done" => (saved <=> IsOK(reply))

\* Every request is answered, though a provider may never answer and a client may hang up.
EveryRequestIsAnswered == <>(pc = "done")
==============================================================================
