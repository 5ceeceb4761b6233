---------------------------- MODULE Gateway_proofs ----------------------------
(***************************************************************************)
(* Proofs about Gateway, for any number of retries, its only parameter.    *)
(*                                                                         *)
(* The bound on the calls of a provider needs the relation between the loop*)
(* variable and the calls made, at each step of the loop; that only what is*)
(* transient is repeated needs to be known of the last attempt for as long *)
(* as the next one is under way.                                           *)
(*                                                                         *)
(* What the client is told rests on lemmas about the operators: an error,  *)
(* wherever it arises, is one the routes can answer with; a transport      *)
(* yields a text or such an error; and with a contract only an object.     *)
(* The invariant adds where in its course a request can be with what it    *)
(* asks for.                                                               *)
(***************************************************************************)
EXTENDS Gateway, TLAPS

\* One call for each turn of the loop, and no second turn for anything but openai.
Counting ==
  /\ attempt \in 0..MaxRetries /\ sends \in Nat
  /\ pc \in States
  /\ request.provider # "openai" => attempt = 0 /\ pc # "backoff"
  /\ pc \in {"receive", "resolve", "check"} => sends = 0 /\ attempt = 0
  /\ pc = "send" => sends = attempt
  /\ pc \in {"wait", "backoff", "save"} => sends = attempt + 1
  /\ pc = "backoff" => attempt < MaxRetries
  /\ pc = "done" => sends <= attempt + 1

\* Between two turns of the loop the last attempt was one that may be repeated.
Transient ==
  pc \in {"backoff", "send"} /\ sends > 0 =>
    \/ last.end = "broken"
    \/ last.end = "replied" /\ last.answer.status \in {408, 429, 500, 502, 503, 504}

Pacing == Counting /\ Transient

\* Every action that answers the client ends the request and touches none of these.
LEMMA PacingIsInductive ==
  ASSUME Pacing, [Next]_vars
  PROVE  Pacing'
<1> USE MaxRetriesAssumption DEF Pacing, Counting, Transient, States
<1>1. CASE HangUp
  BY <1>1 DEF HangUp
<1>2. CASE Receive \/ Reject
  BY <1>2 DEF Receive, Reject, Fail
<1>3. CASE Resolve \/ ResolveFails
  BY <1>3 DEF Resolve, ResolveFails, Fail, Succeed
<1>4. CASE Check \/ CheckFails
  BY <1>4 DEF Check, CheckFails, Fail
<1>5. CASE Send \/ SendCancelled
  BY <1>5 DEF Send, SendCancelled, Fail
<1>6. CASE ProviderAnswers
  <2>1. PICK a \in Answers : 
          /\ last' = Ended("replied", a)
          /\ \/ pc' \in {"done", "save"}
             \/ Retryable(a.status) /\ MayRetry /\ pc' = "backoff"
    BY <1>6 DEF ProviderAnswers, TryAgainOr, Returns, Fail, Succeed
  <2>2. pc = "wait" /\ UNCHANGED <<request, attempt, sends>>
    BY <1>6 DEF ProviderAnswers
  <2> QED BY <2>1, <2>2 DEF Retryable, MayRetry, Ended
<1>7. CASE ConnectionBreaks
  BY <1>7 DEF ConnectionBreaks, TryAgainOr, Returns, Fail, Succeed, MayRetry, Ended
<1>8. CASE AttemptTimesOut \/ AttemptCancelled
  BY <1>8 DEF AttemptTimesOut, AttemptCancelled, Returns, Fail, Succeed
<1>9. CASE BackoffFires \/ BackoffCancelled
  BY <1>9 DEF BackoffFires, BackoffCancelled, Fail
<1>10. CASE Save \/ SaveFails
  BY <1>10 DEF Save, SaveFails, Fail, Succeed
<1>11. CASE UNCHANGED vars
  BY <1>11 DEF vars
<1> QED BY <1>1, <1>2, <1>3, <1>4, <1>5, <1>6, <1>7, <1>8, <1>9, <1>10, <1>11 DEF Next

THEOREM PacingInvariance == Spec => []Pacing
<1>1. Init => Pacing
  BY MaxRetriesAssumption DEF Init, Pacing, Counting, Transient, States
<1> QED BY <1>1, PacingIsInductive, PTL DEF Spec

(* A request costs at most one call of a provider, and one to openai at    *)
(* most one more than the retries configured: the loop of                  *)
(* SendCodexResponse ends.                                                 *)
THEOREM CallsAreBounded == Spec => []BoundedCalls
<1>1. Pacing => BoundedCalls
  BY MaxRetriesAssumption DEF Pacing, Counting, States, BoundedCalls
<1> QED BY <1>1, PacingInvariance, PTL

(* What sendOnce sends again ended in a broken connection or in one of the *)
(* six statuses it marks as transient, and its client still waits.         *)
THEOREM OnlyTransientFailuresAreRetried == Spec => RetriesAreTransient
<1> DEFINE Step == sends' > sends /\ sends > 0 =>
       /\ connected
       /\ \/ last.end = "broken"
          \/ last.end = "replied" /\ last.answer.status \in {408, 429, 500, 502, 503, 504}
<1>1. ASSUME Pacing, [Next]_vars PROVE [Step]_vars
  <2>1. CASE Send
    BY <1>1, <2>1 DEF Send, Pacing, Transient
  <2>2. CASE ~ Send
    <3>1. sends \in Nat
      BY <1>1 DEF Pacing, Counting
    <3>2. UNCHANGED sends
      BY <1>1, <2>2 DEF Next, vars, HangUp, Receive, Reject, Resolve, ResolveFails, Check, CheckFails,
         SendCancelled, ProviderAnswers, ConnectionBreaks, AttemptTimesOut, AttemptCancelled,
         BackoffFires, BackoffCancelled, Save, SaveFails
    <3> QED BY <3>1, <3>2
  <2> QED BY <2>1, <2>2
<1> QED BY <1>1, PacingInvariance, PTL DEF Spec, RetriesAreTransient

------------------------------------------------------------------------------
(* Types.  What a transport makes of an answer is a text or no text, which *)
(* is the only part of TypeOK that does not follow from the actions alone. *)

Typing ==
  /\ request \in Requests
  /\ connected \in BOOLEAN /\ saved \in BOOLEAN
  /\ last.end \in {"none", "replied", "broken", "timeout", "cancelled"}
  /\ last.answer \in {NoAnswer} \cup StreamAnswers \cup PlainAnswers \cup Refusals
  /\ reply.text \in Texts \cup {"none", "authenticated", "unauthenticated"}

AllAnswers == StreamAnswers \cup PlainAnswers \cup Refusals

LEMMA AnswersByStatus ==
  ASSUME NEW a \in AllAnswers
  PROVE  /\ a.status = 200 => a.body \in Texts \cup {"interrupted", "failed", "overlong", "garbled", "unreadable"}
         /\ a.status = 200 /\ ~ a.sse => a.body \in Texts \cup {"garbled", "unreadable"}
<1>1. CASE a \in StreamAnswers
  BY <1>1 DEF StreamAnswers
<1>2. CASE a \in PlainAnswers
  BY <1>2 DEF PlainAnswers
<1>3. CASE a \in Refusals
  <2>1. a.status \in {302, 400, 401, 404, 408, 409, 429, 500, 504, 529}
    BY <1>3 DEF Refusals
  <2> QED BY <2>1
<1> QED BY <1>1, <1>2, <1>3 DEF AllAnswers

Yields(out) == out.text \in Texts \cup {"none"}

\* A contract replaces a text by an error or leaves it.
LEMMA ContractedYields ==
  ASSUME NEW r, NEW out, Yields(out)
  PROVE  Yields(Contracted(r, out))
BY DEF Yields, Contracted, Structured, Err

LEMMA GeneratedYields ==
  ASSUME NEW r \in Requests, NEW a \in AllAnswers
  PROVE  Yields(Generated(r, a))
<1>1. r.provider \in Providers
  BY DEF Requests, Asks
<1>2. /\ a.status = 200 => a.body \in Texts \cup {"interrupted", "failed", "overlong", "garbled", "unreadable"}
      /\ a.status = 200 /\ ~ a.sse => a.body \in Texts \cup {"garbled", "unreadable"}
  BY AnswersByStatus
<1>3. CASE r.provider = "openai"
  <2>1. a.status = 200 => Yields(CodexText(a))
    BY <1>2 DEF CodexText, Yields, Err, OK, Texts
  <2>2. Yields(SendCodexResponse(r, a))
    BY <2>1, ContractedYields DEF SendCodexResponse, Yields, Err
  <2> QED BY <1>3, <2>2 DEF Generated
<1>4. CASE r.provider = "lmstudio"
  <2>1. a.status = 200 => Yields(LMStudioText(a))
    BY <1>2 DEF LMStudioText, Yields, Err, OK, Texts
  <2>2. Yields(SendResponse(r, a))
    BY <2>1, ContractedYields DEF SendResponse, Yields, Err
  <2> QED BY <1>4, <2>2 DEF Generated
<1>5. CASE r.provider = "cloud"
  <2>1. a.status = 200 /\ a.body # "unreadable" => Yields(CloudText(r, a))
    BY <1>2 DEF CloudText, Yields, Err, OK, Texts
  <2>2. a.status = 200 /\ a.body # "unreadable" => Yields(NonEmpty(Contracted(r, CloudText(r, a))))
    BY <2>1, ContractedYields DEF NonEmpty, Yields, Err
  <2>3. Yields(CloudSend(r, a))
    BY <2>2 DEF CloudSend, Yields, Err
  <2> QED BY <1>5, <2>3 DEF Generated
<1>6. CASE r.provider = "decision"
  BY <1>6 DEF Generated, Evaluate, Yields, Err, OK, Texts
<1> QED BY <1>1, <1>3, <1>4, <1>5, <1>6 DEF Providers

LEMMA TypingIsInductive ==
  ASSUME Typing, [Next]_vars
  PROVE  Typing'
<1> USE DEF Typing
<1>1. CASE HangUp
  BY <1>1 DEF HangUp
<1>2. CASE Receive \/ Reject \/ Resolve \/ ResolveFails \/ Check \/ CheckFails
  BY <1>2 DEF Receive, Reject, Resolve, ResolveFails, Check, CheckFails, Fail, Succeed, Err, OK
<1>3. CASE Send \/ SendCancelled \/ BackoffFires \/ BackoffCancelled
  BY <1>3 DEF Send, SendCancelled, BackoffFires, BackoffCancelled, Fail, Err
<1>4. CASE Save \/ SaveFails
  <2>1. UNCHANGED <<request, connected, last>> /\ (saved' = saved \/ saved' = TRUE)
    BY <1>4 DEF Save, SaveFails
  <2>2. reply'.text \in {"none", "authenticated"}
    BY <1>4 DEF Save, SaveFails, Succeed, Fail, Err, OK
  <2> QED BY <2>1, <2>2
<1>5. CASE ProviderAnswers
  <2>1. PICK a \in Answers :
          /\ last' = Ended("replied", a)
          /\ LET out == IF request.op = "generate" THEN Generated(request, a) ELSE Verified(request, a)
             IN  IF Retryable(a.status) THEN TryAgainOr(Returns(out)) ELSE Returns(out)
    BY <1>5 DEF ProviderAnswers
  <2>2. UNCHANGED <<request, connected>>
    BY <1>5 DEF ProviderAnswers
  <2>3. a \in AllAnswers
    BY DEF Answers, AllAnswers
  <2>4. Yields(Generated(request, a))
    BY <2>3, GeneratedYields
  <2>5. saved' = saved /\ reply'.text \in Texts \cup {"none", reply.text}
    BY <2>1, <2>4 DEF TryAgainOr, Returns, Fail, Succeed, Err, OK, Yields
  <2>6. last'.end = "replied" /\ last'.answer = a
    BY <2>1 DEF Ended
  <2> QED BY <2>2, <2>3, <2>5, <2>6 DEF AllAnswers
<1>6. CASE ConnectionBreaks \/ AttemptTimesOut \/ AttemptCancelled
  <2>1. /\ UNCHANGED <<request, connected, saved>>
        /\ reply'.text \in {"none", reply.text}
    BY <1>6 DEF ConnectionBreaks, AttemptTimesOut, AttemptCancelled, TryAgainOr, Returns, Fail, Succeed, Err, OK
  <2>2. last'.end \in {"broken", "timeout", "cancelled"} /\ last'.answer = NoAnswer
    BY <1>6 DEF ConnectionBreaks, AttemptTimesOut, AttemptCancelled, Ended
  <2> QED BY <2>1, <2>2
<1>7. CASE UNCHANGED vars
  BY <1>7 DEF vars
<1> QED BY <1>1, <1>2, <1>3, <1>4, <1>5, <1>6, <1>7 DEF Next

(* Every behaviour of a request keeps its types: the handler is where a     *)
(* handler can be, its counters are within the retries configured, and what*)
(* is answered is a text one of the transports yields.                     *)
THEOREM TypeCorrect == Spec => []TypeOK
<1>1. ASSUME Init PROVE Typing
  <2>1. request \in Requests /\ connected \in BOOLEAN /\ saved \in BOOLEAN
    BY <1>1 DEF Init
  <2>2. last.end = "none" /\ last.answer = NoAnswer /\ reply.text = "none"
    BY <1>1 DEF Init, Ended, Err
  <2> QED BY <2>1, <2>2 DEF Typing
<1>2. Typing /\ Pacing => TypeOK
  BY MaxRetriesAssumption DEF Typing, Pacing, Counting, TypeOK, States
<1> QED BY <1>1, <1>2, TypingIsInductive, PacingInvariance, PTL DEF Spec

------------------------------------------------------------------------------
(* Answers.  Errors arise in six places and reach the client through the   *)
(* routes; what the routes make of them depends on their code and, for the *)
(* codes that keep their status, on that status.                           *)

\* An error that the routes can answer with.
Presentable(e) ==
  /\ e.code \notin {"", "ERR_LOGIN_SESSION_NOT_FOUND"}
  /\ e.code \in AsTheyAre => e = Error(e.code, 400)
  /\ e.code \in Invalid => e.status \in {400, 413}

\* What a transport yields: a text, or an error the routes can answer with.
Answerable(out) == IsOK(out) \/ Presentable(out.error)

\* The provider has answered the question that verifies a key.
Verifying(l) == /\ l.end = "replied" /\ l.answer.status = 200
                /\ l.answer.body \notin {"garbled", "unreadable"}

\* Only a generation or the check of a key gets as far as the provider, only a
\* verified key is stored, and a refusal with 400 ends the request.
Course ==
  /\ pc \in {"check", "send", "wait", "backoff", "save"} => request.op \in {"generate", "configure"}
  /\ pc = "save" => request.op = "configure" /\ Verifying(last)
  /\ pc = "resolve" => request.op # "configure"
  /\ saved => pc = "done" /\ Verifying(last)
  /\ last.end = "replied" /\ last.answer.status = 400 => pc = "done"

Answered == Course /\ ContractIsHonoured /\ AnswersAreDocumented /\ KeyIsVerified

\* The errors of the table, one by one.
LEMMA Documented ==
  /\ \A c \in AsTheyAre : Error(c, 400) \in DocumentedErrors
  /\ UnsupportedOutputContract \in DocumentedErrors
  /\ Error("ERR_LLM_AUTH_REQUIRED", 401) \in DocumentedErrors
  /\ Error("ERR_LLM_AUTH_EXPIRED", 401) \in DocumentedErrors
  /\ Error("ERR_LLM_RATE_LIMITED", 429) \in DocumentedErrors
  /\ Error("ERR_LLM_RESPONSE_EMPTY", 502) \in DocumentedErrors
  /\ \A s \in {400, 413} : Error("ERR_LLM_REQUEST_INVALID", s) \in DocumentedErrors
  /\ \A s \in {408, 502, 504} : Error("ERR_LLM_PROVIDER_UNAVAILABLE", s) \in DocumentedErrors
<1>1. \A c \in DOMAIN DocumentedStatuses : \A s \in DocumentedStatuses[c] :
        Error(c, s) \in DocumentedErrors
  BY DEF DocumentedErrors
<1> QED BY <1>1 DEF DocumentedStatuses, AsTheyAre, UnsupportedOutputContract

\* The arms of NormalizeLLMError exclude each other.
LEMMA NormalizeLLMErrorByCases ==
  ASSUME NEW e
  PROVE  /\ e.code \in AsTheyAre => NormalizeLLMError(e) = e
         /\ e.code \in Invalid => NormalizeLLMError(e) = Error("ERR_LLM_REQUEST_INVALID", e.status)
         /\ e.code = "ERR_LLM_OUTPUT_CONTRACT_UNSUPPORTED" => NormalizeLLMError(e) = UnsupportedOutputContract
         /\ e.code \in NeedLogin => NormalizeLLMError(e) = Error("ERR_LLM_AUTH_REQUIRED", 401)
         /\ e.code \in Rejections => NormalizeLLMError(e) = Error("ERR_LLM_AUTH_EXPIRED", 401)
         /\ e.code \in Limits => NormalizeLLMError(e) = Error("ERR_LLM_RATE_LIMITED", 429)
         /\ e.code = "ERR_CLOUD_RESPONSE_EMPTY" => NormalizeLLMError(e) = Error("ERR_LLM_RESPONSE_EMPTY", 502)
         /\ e.code \in Timeouts => NormalizeLLMError(e) = Error("ERR_LLM_PROVIDER_UNAVAILABLE", 504)
         /\ e.code = "ERR_CONTEXT_CANCELLED" => NormalizeLLMError(e) = Error("ERR_LLM_PROVIDER_UNAVAILABLE", 408)
         /\ \/ e.code \in AsTheyAre \cup Invalid \cup NeedLogin \cup Rejections \cup Limits \cup Timeouts
            \/ e.code \in {"ERR_LLM_OUTPUT_CONTRACT_UNSUPPORTED", "ERR_CLOUD_RESPONSE_EMPTY",
                          "ERR_CONTEXT_CANCELLED", "ERR_LOGIN_SESSION_NOT_FOUND"}
            \/ NormalizeLLMError(e) = Unavailable(e)
<1> USE DEF NormalizeLLMError, AsTheyAre, NeedLogin, Rejections, Limits, Timeouts, Invalid
<1>1. e.code \in AsTheyAre => NormalizeLLMError(e) = e
  OBVIOUS
<1>2. e.code \in Invalid => NormalizeLLMError(e) = Error("ERR_LLM_REQUEST_INVALID", e.status)
  OBVIOUS
<1>3. e.code = "ERR_LLM_OUTPUT_CONTRACT_UNSUPPORTED" => NormalizeLLMError(e) = UnsupportedOutputContract
  OBVIOUS
<1>4. e.code \in NeedLogin => NormalizeLLMError(e) = Error("ERR_LLM_AUTH_REQUIRED", 401)
  OBVIOUS
<1>5. e.code \in Rejections => NormalizeLLMError(e) = Error("ERR_LLM_AUTH_EXPIRED", 401)
  OBVIOUS
<1>6. e.code \in Limits => NormalizeLLMError(e) = Error("ERR_LLM_RATE_LIMITED", 429)
  OBVIOUS
<1>7. e.code = "ERR_CLOUD_RESPONSE_EMPTY" => NormalizeLLMError(e) = Error("ERR_LLM_RESPONSE_EMPTY", 502)
  OBVIOUS
<1>8. e.code \in Timeouts => NormalizeLLMError(e) = Error("ERR_LLM_PROVIDER_UNAVAILABLE", 504)
  OBVIOUS
<1>9. e.code = "ERR_CONTEXT_CANCELLED" => NormalizeLLMError(e) = Error("ERR_LLM_PROVIDER_UNAVAILABLE", 408)
  OBVIOUS
<1>10. \/ e.code \in AsTheyAre \cup Invalid \cup NeedLogin \cup Rejections \cup Limits \cup Timeouts
       \/ e.code \in {"ERR_LLM_OUTPUT_CONTRACT_UNSUPPORTED", "ERR_CLOUD_RESPONSE_EMPTY",
                     "ERR_CONTEXT_CANCELLED", "ERR_LOGIN_SESSION_NOT_FOUND"}
       \/ NormalizeLLMError(e) = Unavailable(e)
  OBVIOUS
<1> HIDE DEF NormalizeLLMError, AsTheyAre, NeedLogin, Rejections, Limits, Timeouts, Invalid
<1> QED BY <1>1, <1>2, <1>3, <1>4, <1>5, <1>6, <1>7, <1>8, <1>9, <1>10

LEMMA NormalizedIsDocumented ==
  ASSUME NEW e, Presentable(e)
  PROVE  NormalizeLLMError(e) \in DocumentedErrors
<1>1. CASE e.code \in AsTheyAre
  <2>1. NormalizeLLMError(e) = e /\ e = Error(e.code, 400)
    BY <1>1, NormalizeLLMErrorByCases DEF Presentable
  <2>2. Error(e.code, 400) \in DocumentedErrors
    BY <1>1, Documented
  <2> QED BY <2>1, <2>2, Zenon
<1>2. CASE e.code \in NeedLogin \cup Rejections \cup Limits \cup Timeouts
  BY <1>2, NormalizeLLMErrorByCases, Documented
<1>3. CASE e.code \in {"ERR_LLM_OUTPUT_CONTRACT_UNSUPPORTED", "ERR_CLOUD_RESPONSE_EMPTY",
                      "ERR_CONTEXT_CANCELLED"}
  BY <1>3, NormalizeLLMErrorByCases, Documented
<1>4. CASE NormalizeLLMError(e) = Unavailable(e)
  BY <1>4, Documented DEF Unavailable
<1>5. CASE e.code \in Invalid
  <2>1. NormalizeLLMError(e) = Error("ERR_LLM_REQUEST_INVALID", e.status)
    BY <1>5, NormalizeLLMErrorByCases
  <2>2. e.status \in {400, 413}
    BY <1>5 DEF Presentable
  <2> QED BY <2>1, <2>2, Documented
<1>6. e.code # "ERR_LOGIN_SESSION_NOT_FOUND"
  BY DEF Presentable
<1> QED BY <1>1, <1>2, <1>3, <1>4, <1>5, <1>6, NormalizeLLMErrorByCases

LEMMA UnsupportedStaysUnsupported ==
  NormalizeLLMError(UnsupportedOutputContract) = UnsupportedOutputContract
<1>1. UnsupportedOutputContract.code = "ERR_LLM_OUTPUT_CONTRACT_UNSUPPORTED"
  BY DEF UnsupportedOutputContract, Error
<1> QED BY <1>1, NormalizeLLMErrorByCases

\* Most errors are presentable by their code alone, whatever their status; the
\* others with status 400.
LEMMA PresentableByCode ==
  ASSUME NEW code, NEW status,
         code \notin {"", "ERR_LOGIN_SESSION_NOT_FOUND"} \cup AsTheyAre \cup Invalid
  PROVE  Presentable(Error(code, status))
BY DEF Presentable, Error

LEMMA PresentableByStatus ==
  ASSUME NEW code, code \notin {"", "ERR_LOGIN_SESSION_NOT_FOUND"}
  PROVE  Presentable(Error(code, 400))
BY DEF Presentable, Error

\* None of them is mistaken for a success.
LEMMA ErrorsAreErrors ==
  /\ \A e : e.code # "" => e # NoError
  /\ \A e \in DocumentedErrors : e # NoError
  /\ \A e : Presentable(e) => NormalizeDecisionError(e) # NoError
<1>1. \A c, s : Error(c, s).code = c
  BY DEF Error
<1>2. \A e : e.code # "" => e # NoError
  BY <1>1 DEF NoError
<1>3. ASSUME NEW e \in DocumentedErrors PROVE e # NoError
  <2>1. PICK c \in DOMAIN DocumentedStatuses : e \in {Error(c, s) : s \in DocumentedStatuses[c]}
    BY Zenon DEF DocumentedErrors
  <2>2. e.code = c
    BY <1>1, <2>1
  <2>3. c # ""
    BY DEF DocumentedStatuses
  <2> QED BY <1>2, <2>2, <2>3
<1>4. ASSUME NEW e, Presentable(e) PROVE NormalizeDecisionError(e).code # ""
  <2>1. CASE e.code = "ERR_AUTH_PROFILE_NOT_FOUND"
    <3>1. NormalizeDecisionError(e) = Error("ERR_DECISION_AUTH_REQUIRED", 401)
      BY <2>1 DEF NormalizeDecisionError
    <3> QED BY <3>1 DEF Error
  <2>2. CASE e.code = "ERR_DECISION_AUTH_REJECTED"
    <3>1. NormalizeDecisionError(e) = Error("ERR_DECISION_AUTH_EXPIRED", 401)
      BY <2>2 DEF NormalizeDecisionError
    <3> QED BY <3>1 DEF Error
  <2>3. CASE e.code = "ERR_DECISION_RATE_LIMITED"
    <3>1. NormalizeDecisionError(e) = Error("ERR_DECISION_RATE_LIMITED", 429)
      BY <2>3 DEF NormalizeDecisionError
    <3> QED BY <3>1 DEF Error
  <2>4. CASE e.code = "ERR_DECISION_TIMEOUT"
    <3>1. NormalizeDecisionError(e) = Error("ERR_DECISION_PROVIDER_UNAVAILABLE", 504)
      BY <2>4 DEF NormalizeDecisionError
    <3> QED BY <3>1 DEF Error
  <2>5. CASE e.code \in {"ERR_DECISION_REQUEST_INVALID", "ERR_INVALID_JSON", "ERR_PAYLOAD_TOO_LARGE"}
    <3>1. NormalizeDecisionError(e) = Error("ERR_DECISION_REQUEST_INVALID", e.status)
      BY <2>5 DEF NormalizeDecisionError
    <3> QED BY <3>1 DEF Error
  <2>6. CASE e.code \notin {"ERR_AUTH_PROFILE_NOT_FOUND", "ERR_DECISION_AUTH_REJECTED",
                          "ERR_DECISION_RATE_LIMITED", "ERR_DECISION_TIMEOUT", "ERR_DECISION_REQUEST_INVALID",
                          "ERR_INVALID_JSON", "ERR_PAYLOAD_TOO_LARGE"}
    <3>1. NormalizeDecisionError(e) = e
      BY <2>6 DEF NormalizeDecisionError
    <3> QED BY <1>4, <3>1 DEF Presentable
  <2> QED BY <2>1, <2>2, <2>3, <2>4, <2>5, <2>6
<1> QED BY <1>2, <1>3, <1>4

\* Where errors arise: in store and refresher, ...
LEMMA StoredErrorsArePresentable ==
  \A e \in StoreErrors \cup RefreshErrors \cup SaveErrors : Presentable(e)
<1>1. \A s : \A c \in {"ERR_AUTH_PROFILE_NOT_FOUND", "ERR_AUTH_STORE_CORRUPTED", "ERR_TOKEN_DECRYPTION_FAILED",
                      "ERR_CONTEXT_CANCELLED", "ERR_AUTH_STORE_LOCK_TIMEOUT", "ERR_TOKEN_REFRESH_FAILED",
                      "ERR_TOKEN_RESPONSE_INVALID", "ERR_ACCOUNT_ID_CHANGED",
                      "ERR_AUTH_STORE_WRITE_FAILED"} : Presentable(Error(c, s))
  BY PresentableByCode DEF AsTheyAre, Invalid
<1>2. Presentable(Error("ERR_INVALID_PROFILE_ID", 400))
  BY PresentableByStatus
<1> QED BY <1>1, <1>2 DEF StoreErrors, RefreshErrors, SaveErrors

\* ... in the handler, ...
LEMMA HandlerErrorsArePresentable ==
  /\ request \in Requests => \A e \in ReceiveErrors : Presentable(e)
  /\ Presentable(Error("ERR_LLM_REFRESH_UNSUPPORTED", 400))
  /\ Presentable(Cancelled)
<1>1. \A c \in {"ERR_LLM_REFRESH_UNSUPPORTED", "ERR_INVALID_JSON", "ERR_LLM_PROVIDER_UNKNOWN",
                "ERR_LLM_REQUEST_INVALID", "ERR_DECISION_PROVIDER_UNKNOWN",
             "ERR_INVALID_PROFILE_ID"} : Presentable(Error(c, 400))
  BY PresentableByStatus
<1>3. Presentable(Error("ERR_PAYLOAD_TOO_LARGE", 413))
  BY DEF Presentable, Error, AsTheyAre, Invalid
<1>4. Presentable(Error("ERR_CONTEXT_CANCELLED", 408))
  BY PresentableByCode DEF AsTheyAre, Invalid
<1>2. request \in Requests => request.route \in {"llm", "legacy", "decisions"}
  BY DEF Requests, Asks
<1> QED BY <1>1, <1>2, <1>3, <1>4 DEF ReceiveErrors, UnknownProvider, Cancelled

\* ... and in the transports.
LEMMA TransportErrorsArePresentable ==
  ASSUME NEW p \in Providers
  PROVE  /\ Presentable(TimedOut(p)) /\ Presentable(Failed(p))
         /\ Presentable(BadAnswer(p)) /\ Presentable(BadRequest(p))
         /\ Presentable(Error(Codes[p].limited, 429))
         /\ Presentable(Error(Codes[p].rejected, 401))
<1> USE DEF Codes
<1>1. /\ Codes[p].timeout \in Timeouts \cup {"ERR_DECISION_TIMEOUT"}
      /\ Codes[p].limited \in Limits \cup {"ERR_DECISION_RATE_LIMITED"}
      /\ Codes[p].rejected \in Rejections \cup {"ERR_DECISION_AUTH_REJECTED"}
  BY DEF Providers, Timeouts, Limits, Rejections
<1>2. Codes[p].request \in {"ERR_CODEX_REQUEST_INVALID", "ERR_LMSTUDIO_REQUEST_INVALID",
                           "ERR_CLOUD_REQUEST_INVALID", "ERR_DECISION_REQUEST_INVALID"}
  BY DEF Providers
<1>3. /\ Codes[p].failed \in {"ERR_CODEX_HTTP_FAILED", "ERR_LMSTUDIO_HTTP_FAILED",
                             "ERR_CLOUD_PROVIDER_FAILED", "ERR_DECISION_PROVIDER_FAILED"}
      /\ Codes[p].response \in {"ERR_CODEX_STREAM_INVALID", "ERR_LMSTUDIO_RESPONSE_INVALID",
                               "ERR_CLOUD_RESPONSE_INVALID", "ERR_DECISION_RESPONSE_INVALID"}
  BY DEF Providers
<1> HIDE DEF Codes
<1> DEFINE Special == {"", "ERR_LOGIN_SESSION_NOT_FOUND"} \cup AsTheyAre \cup Invalid
<1>4. Codes[p].timeout \notin Special
  BY <1>1 DEF Timeouts, AsTheyAre, Invalid
<1>5. Codes[p].limited \notin Special
  BY <1>1 DEF Limits, AsTheyAre, Invalid
<1>6. Codes[p].rejected \notin Special
  BY <1>1 DEF Rejections, AsTheyAre, Invalid
<1>7. Codes[p].failed \notin Special /\ Codes[p].response \notin Special
  BY <1>3 DEF AsTheyAre, Invalid
<1>8. Presentable(BadRequest(p))
  BY <1>2, PresentableByStatus DEF BadRequest
<1> HIDE DEF Special
<1>9. /\ Presentable(Error(Codes[p].timeout, 504)) /\ Presentable(Error(Codes[p].failed, 502))
      /\ Presentable(Error(Codes[p].response, 502))
  <2>1. \A code : code \notin Special => Presentable(Error(code, 504)) /\ Presentable(Error(code, 502))
    BY PresentableByCode DEF Special
  <2> QED BY <1>4, <1>7, <2>1
<1>10. Presentable(Error(Codes[p].limited, 429)) /\ Presentable(Error(Codes[p].rejected, 401))
  <2>1. \A code : code \notin Special => Presentable(Error(code, 429)) /\ Presentable(Error(code, 401))
    BY PresentableByCode DEF Special
  <2> QED BY <1>5, <1>6, <2>1
<1> QED BY <1>8, <1>9, <1>10 DEF TimedOut, Failed, BadAnswer

LEMMA StatusErrorsArePresentable ==
  ASSUME NEW p \in Providers, NEW status
  PROVE  Presentable(StatusError(p, status))
BY TransportErrorsArePresentable DEF StatusError

LEMMA ChecksArePresentable ==
  ASSUME NEW r \in Requests
  PROVE  \A e \in Checks(r) : Presentable(e)
<1>1. r.provider \in Providers
  BY DEF Requests, Asks
<1>2. \A p \in Providers : Presentable(BadRequest(p))
  BY TransportErrorsArePresentable
<1>3. \A e \in InvalidContracts(r) : Presentable(e)
  BY PresentableByStatus DEF InvalidContracts, InvalidContract
<1>4. \A c \in {"ERR_CODEX_ACCOUNT_ID_MISSING", "ERR_LMSTUDIO_BASE_URL_INVALID",
                "ERR_LMSTUDIO_API_KEY_REQUIRED", "ERR_INVALID_PROFILE_ID",
                "ERR_LLM_REQUEST_INVALID"} : Presentable(Error(c, 400))
  BY PresentableByStatus
<1> QED BY <1>1, <1>2, <1>3, <1>4
        DEF Checks, CodexChecks, LMStudioChecks, CloudChecks, DecisionChecks, Providers

------------------------------------------------------------------------------
(* What the transports make of an answer.                                  *)

LEMMA TextsAreAnswerable ==
  /\ \A text : Answerable(OK(text))
  /\ \A e : Presentable(e) => Answerable(Err(e))
  /\ Presentable(UnsupportedOutputContract) /\ Presentable(EmptyAnswer)
  /\ \A e : Err(e).error = e
  /\ \A e : Presentable(e) => ~ IsOK(Err(e))
  /\ ~ IsOK(Err(UnsupportedOutputContract))
<1>1. /\ \A text : Answerable(OK(text))
      /\ \A e : Presentable(e) => Answerable(Err(e))
      /\ \A e : Err(e).error = e
  BY DEF Answerable, OK, Err, IsOK
<1>2. Presentable(UnsupportedOutputContract)
  BY PresentableByCode DEF UnsupportedOutputContract, AsTheyAre, Invalid
<1>3. Presentable(EmptyAnswer)
  BY PresentableByCode DEF EmptyAnswer, AsTheyAre, Invalid
<1>4. \A e : Presentable(e) => ~ IsOK(Err(e))
  BY ErrorsAreErrors DEF Presentable, IsOK, Err
<1> QED BY <1>1, <1>2, <1>3, <1>4

LEMMA ContractedIsAnswerable ==
  ASSUME NEW r, NEW out, Answerable(out)
  PROVE  Answerable(Contracted(r, out))
BY TextsAreAnswerable DEF Contracted, Structured

LEMMA RefusalsArePresentable ==
  ASSUME NEW r, NEW a
  PROVE  /\ Presentable(CodexRefusal(r, a))
         /\ Presentable(LMStudioRefusal(r, a))
         /\ Presentable(CloudRefusal(r, a))
<1>1. \A p \in Providers : /\ Presentable(Error(Codes[p].limited, 429))
                           /\ \A status : Presentable(StatusError(p, status))
  BY TransportErrorsArePresentable, StatusErrorsArePresentable
<1>2. Presentable(StatusError("openai", a.status)) /\ Presentable(Error(Codes["openai"].limited, 429))
  BY <1>1 DEF Providers
<1>3. Presentable(CodexRefusal(r, a))
  BY <1>2, TextsAreAnswerable DEF CodexRefusal
<1>4. Presentable(LMStudioRefusal(r, a)) /\ Presentable(CloudRefusal(r, a))
  BY <1>1, TextsAreAnswerable DEF LMStudioRefusal, CloudRefusal, Providers
<1> QED BY <1>3, <1>4

LEMMA GeneratedIsAnswerable ==
  ASSUME NEW r \in Requests, NEW a \in AllAnswers
  PROVE  Answerable(Generated(r, a))
<1>1. r.provider \in Providers
  BY DEF Requests, Asks
<1>2. /\ a.status = 200 => a.body \in Texts \cup {"interrupted", "failed", "overlong", "garbled", "unreadable"}
      /\ a.status = 200 /\ ~ a.sse => a.body \in Texts \cup {"garbled", "unreadable"}
  BY AnswersByStatus
<1>3. \A p \in Providers : /\ Presentable(BadAnswer(p)) /\ Presentable(Failed(p))
                           /\ \A status : Presentable(StatusError(p, status))
  BY TransportErrorsArePresentable, StatusErrorsArePresentable
<1>4. CASE r.provider = "openai"
  <2>1. a.status = 200 => Answerable(CodexText(a))
    BY <1>2, <1>3, TextsAreAnswerable DEF CodexText, Texts, Providers
  <2>2. Answerable(Err(CodexRefusal(r, a)))
    BY RefusalsArePresentable, TextsAreAnswerable
  <2>3. Answerable(SendCodexResponse(r, a))
    BY <2>1, <2>2, ContractedIsAnswerable DEF SendCodexResponse
  <2> QED BY <1>4, <2>3 DEF Generated
<1>5. CASE r.provider = "lmstudio"
  <2>1. a.status = 200 => Answerable(LMStudioText(a))
    BY <1>2, <1>3, TextsAreAnswerable DEF LMStudioText, Texts, Providers
  <2>2. Answerable(Err(LMStudioRefusal(r, a)))
    BY RefusalsArePresentable, TextsAreAnswerable
  <2>3. Answerable(SendResponse(r, a))
    BY <2>1, <2>2, ContractedIsAnswerable DEF SendResponse
  <2> QED BY <1>5, <2>3 DEF Generated
<1>6. CASE r.provider = "cloud"
  <2>1. a.status = 200 /\ a.body # "unreadable" => Answerable(CloudText(r, a))
    BY <1>2, <1>3, TextsAreAnswerable DEF CloudText, Texts, Providers
  <2>2. a.status = 200 /\ a.body # "unreadable" => Answerable(NonEmpty(Contracted(r, CloudText(r, a))))
    BY <2>1, ContractedIsAnswerable, TextsAreAnswerable DEF NonEmpty
  <2>3. Answerable(Err(CloudRefusal(r, a)))
    BY RefusalsArePresentable, TextsAreAnswerable
  <2>4. Answerable(Err(BadAnswer("cloud")))
    BY <1>3, TextsAreAnswerable DEF Providers
  <2>5. Answerable(CloudSend(r, a))
    BY <2>2, <2>3, <2>4 DEF CloudSend
  <2> QED BY <1>6, <2>5 DEF Generated
<1>7. CASE r.provider = "decision"
  <2>1. Answerable(Evaluate(a))
    BY <1>3, TextsAreAnswerable DEF Evaluate, Providers
  <2> QED BY <1>7, <2>1 DEF Generated
<1> QED BY <1>1, <1>4, <1>5, <1>6, <1>7 DEF Providers

\* A key is verified by an answer of its provider that could be read.
LEMMA VerifiedIsAnswerable ==
  ASSUME NEW r \in Requests, NEW a \in AllAnswers
  PROVE  /\ Answerable(Verified(r, a))
         /\ IsOK(Verified(r, a)) => a.status = 200 /\ a.body \notin {"garbled", "unreadable"}
<1>1. r.provider \in Providers
  BY DEF Requests, Asks
<1>2. \A p \in Providers : /\ Presentable(BadAnswer(p))
                           /\ \A status : Presentable(StatusError(p, status))
  BY TransportErrorsArePresentable, StatusErrorsArePresentable
<1>3. \A e : Presentable(e) => ~ IsOK(Err(e))
  BY TextsAreAnswerable
<1>4. CASE r.provider = "lmstudio"
  <2>1. Presentable(BadAnswer("lmstudio")) /\ Presentable(StatusError("lmstudio", a.status))
    BY <1>2 DEF Providers
  <2> QED BY <1>3, <1>4, <2>1, TextsAreAnswerable DEF Verified, ListModels
<1>5. CASE r.provider # "lmstudio"
  <2>1. Presentable(BadAnswer(r.provider)) /\ Presentable(StatusError(r.provider, a.status))
    BY <1>1, <1>2
  <2> QED BY <1>3, <1>5, <2>1, TextsAreAnswerable DEF Verified, VerifyKey
<1> QED BY <1>4, <1>5

\* With a contract only a JSON object is a success, and a request refused with
\* 400 is refused for its contract.
LEMMA ContractsAreKept ==
  ASSUME NEW r \in Requests, r.contract, NEW a \in AllAnswers
  PROVE  /\ IsOK(Generated(r, a)) => Generated(r, a).text = "object"
         /\ a.status = 400 /\ a.body = "error" => Generated(r, a) = Err(UnsupportedOutputContract)
<1>1. r.provider \in {"openai", "lmstudio", "cloud"}
  BY DEF Requests, Asks, Providers
<1>4. \A e : Presentable(e) => ~ IsOK(Err(e))
  BY TextsAreAnswerable
<1>2. \A out : IsOK(Contracted(r, out)) => Contracted(r, out).text = "object"
  <2>1. ~ IsOK(Err(UnsupportedOutputContract))
    BY <1>4, TextsAreAnswerable
  <2> QED BY <2>1 DEF Contracted, Structured
<1>3. \A p \in Providers : a.status = 400 => StatusError(p, a.status) = BadRequest(p)
  BY DEF StatusError
<1>5. CASE r.provider = "openai"
  <2>1. ~ IsOK(Err(CodexRefusal(r, a)))
    BY <1>4, RefusalsArePresentable
  <2>2. a.status = 400 /\ a.body = "error" => CodexRefusal(r, a) = UnsupportedOutputContract
    BY <1>3 DEF CodexRefusal, Providers
  <2> QED BY <1>2, <1>5, <2>1, <2>2 DEF Generated, SendCodexResponse
<1>6. CASE r.provider = "lmstudio"
  <2>1. ~ IsOK(Err(LMStudioRefusal(r, a)))
    BY <1>4, RefusalsArePresentable
  <2>2. a.status = 400 => LMStudioRefusal(r, a) = UnsupportedOutputContract
    BY DEF LMStudioRefusal
  <2> QED BY <1>2, <1>6, <2>1, <2>2 DEF Generated, SendResponse
<1>7. CASE r.provider = "cloud"
  <2>1. ~ IsOK(Err(CloudRefusal(r, a))) /\ ~ IsOK(Err(BadAnswer("cloud"))) /\ ~ IsOK(Err(EmptyAnswer))
    BY <1>4, RefusalsArePresentable, TransportErrorsArePresentable, TextsAreAnswerable DEF Providers
  <2>2. a.status = 400 => CloudRefusal(r, a) = UnsupportedOutputContract
    BY <1>3 DEF CloudRefusal, Providers
  <2>3. \A out : IsOK(NonEmpty(Contracted(r, out))) => NonEmpty(Contracted(r, out)).text = "object"
    BY <1>2, <2>1 DEF NonEmpty
  <2>4. CASE a.body = "unreadable"
    BY <1>7, <2>1, <2>4 DEF Generated, CloudSend
  <2>5. CASE a.body # "unreadable" /\ a.status # 200
    BY <1>7, <2>1, <2>2, <2>5 DEF Generated, CloudSend
  <2>6. CASE a.body # "unreadable" /\ a.status = 200
    <3>1. Generated(r, a) = NonEmpty(Contracted(r, CloudText(r, a)))
      BY <1>7, <2>6 DEF Generated, CloudSend
    <3> QED BY <2>3, <2>6, <3>1
  <2> QED BY <2>4, <2>5, <2>6
<1> QED BY <1>1, <1>5, <1>6, <1>7

------------------------------------------------------------------------------
(* The answer to the client.                                               *)

LEMMA PublicErrors ==
  ASSUME request \in Requests, NEW e, Presentable(e)
  PROVE  /\ Public(e) # NoError
         /\ request.route = "llm" => Public(e) \in DocumentedErrors
         /\ request.contract /\ e = UnsupportedOutputContract => Public(e) = e
<1>1. request.route \in {"llm", "legacy", "decisions"}
  BY DEF Requests, Asks
<1>2. request.contract => request.route # "decisions"
  BY DEF Requests, Asks, Providers, RoutesOf
<1>3. e # NoError /\ NormalizeDecisionError(e) # NoError
  <2>1. e.code # ""
    BY DEF Presentable
  <2> QED BY <2>1, ErrorsAreErrors
<1>4. NormalizeLLMError(e) \in DocumentedErrors /\ NormalizeLLMError(e) # NoError
  BY NormalizedIsDocumented, ErrorsAreErrors
<1>5. CASE request.route = "llm"
  BY <1>4, <1>5, UnsupportedStaysUnsupported DEF Public
<1>6. CASE request.route = "legacy"
  BY <1>3, <1>6 DEF Public
<1>7. CASE request.route = "decisions"
  BY <1>2, <1>3, <1>7 DEF Public
<1> QED BY <1>1, <1>5, <1>6, <1>7

\* A refusal with 400 that is laid to the contract.
Refused(l) == l.end = "replied" /\ l.answer.status = 400 /\ l.answer.body = "error"

LEMMA FailingKeepsAnswered ==
  ASSUME request \in Requests, NEW e, Presentable(e), Fail(e),
         UNCHANGED <<request, saved>>, ~ saved,
         request.contract /\ Refused(last') => e = UnsupportedOutputContract
  PROVE  Answered'
<1>1. /\ pc' = "done" /\ reply' = Err(Public(e))
      /\ Public(e) # NoError
      /\ request.route = "llm" => Public(e) \in DocumentedErrors
      /\ request.contract /\ e = UnsupportedOutputContract => Public(e) = e
  BY PublicErrors DEF Fail
<1>2. reply'.error = Public(e) /\ ~ IsOK(reply')
  BY <1>1 DEF Err, IsOK
<1>3. Course' /\ KeyIsVerified' /\ AnswersAreDocumented'
  BY <1>1, <1>2 DEF Course, KeyIsVerified, AnswersAreDocumented
<1>4. ContractIsHonoured'
  BY <1>1, <1>2 DEF ContractIsHonoured, Refused
<1> QED BY <1>3, <1>4 DEF Answered

LEMMA SucceedingKeepsAnswered ==
  ASSUME NEW text, Succeed(text), UNCHANGED request,
         request.contract => text = "object" /\ ~ Refused(last'),
         saved' => Verifying(last'),
         request.op = "configure" <=> saved'
  PROVE  Answered'
<1>1. pc' = "done" /\ reply'.text = text /\ IsOK(reply')
  BY DEF Succeed, OK, IsOK
<1>2. Course'
  BY <1>1 DEF Course
<1>3. ContractIsHonoured'
  BY <1>1 DEF ContractIsHonoured, Refused
<1>4. AnswersAreDocumented'
  BY <1>1 DEF AnswersAreDocumented
<1>5. KeyIsVerified'
  BY <1>1 DEF KeyIsVerified, Verifying
<1> QED BY <1>2, <1>3, <1>4, <1>5 DEF Answered

LEMMA ContinuingKeepsAnswered ==
  ASSUME pc' # "done", UNCHANGED <<request, saved>>, ~ saved,
         pc' \in {"receive", "resolve"} \/ request.op \in {"generate", "configure"},
         pc' = "resolve" => request.op # "configure",
         pc' = "save" => request.op = "configure" /\ Verifying(last'),
         last'.end = "replied" => last'.answer.status # 400
  PROVE  Answered'
BY DEF Answered, Course, ContractIsHonoured, AnswersAreDocumented, KeyIsVerified

\* The end of an attempt: it is repeated, or its outcome is the answer.
LEMMA AttemptsKeepAnswered ==
  ASSUME request \in Requests, Answered,
         ProviderAnswers \/ ConnectionBreaks \/ AttemptTimesOut \/ AttemptCancelled
  PROVE  Answered'
<1>1. /\ request \in Requests /\ UNCHANGED request
      /\ pc = "wait" /\ ~ saved /\ request.op \in {"generate", "configure"}
  BY DEF ProviderAnswers, ConnectionBreaks, AttemptTimesOut, AttemptCancelled, Answered, Course
<1>2. request.provider \in Providers
  BY <1>1 DEF Requests, Asks
<1>3. ASSUME UNCHANGED <<saved, reply>>, pc' = "backoff",
             last'.end = "replied" => last'.answer.status # 400
      PROVE  Answered'
  BY <1>1, <1>3, ContinuingKeepsAnswered
<1>4. ASSUME NEW e, Presentable(e), Returns(Err(e)), ~ Refused(last')
      PROVE  Answered'
  <2>1. ~ IsOK(Err(e)) /\ Err(e).error = e
    BY <1>4, ErrorsAreErrors DEF Presentable, IsOK, Err
  <2>2. Fail(e) /\ UNCHANGED saved
    BY <1>4, <2>1 DEF Returns
  <2> QED BY <1>1, <1>4, <2>2, FailingKeepsAnswered
<1>5. CASE ConnectionBreaks \/ AttemptTimesOut \/ AttemptCancelled
  <2>1. last'.end \in {"broken", "timeout", "cancelled"}
    BY <1>5 DEF ConnectionBreaks, AttemptTimesOut, AttemptCancelled, Ended
  <2>2. /\ Presentable(Failed(request.provider)) /\ Presentable(TimedOut(request.provider))
        /\ Presentable(Cancelled)
    BY <1>2, TransportErrorsArePresentable, HandlerErrorsArePresentable
  <2>3. \/ pc' = "backoff" /\ UNCHANGED <<saved, reply>>
        \/ Returns(Err(Failed(request.provider)))
        \/ Returns(Err(TimedOut(request.provider)))
        \/ Returns(Err(Cancelled))
    BY <1>5 DEF ConnectionBreaks, AttemptTimesOut, AttemptCancelled, TryAgainOr
  <2> QED BY <1>3, <1>4, <2>1, <2>2, <2>3 DEF Refused
<1>6. CASE ProviderAnswers
  <2> DEFINE out(a) == IF request.op = "generate" THEN Generated(request, a) ELSE Verified(request, a)
  <2>1. PICK a \in AllAnswers :
          /\ last' = Ended("replied", a)
          /\ IF Retryable(a.status) THEN TryAgainOr(Returns(out(a))) ELSE Returns(out(a))
    BY <1>6 DEF ProviderAnswers, Answers, AllAnswers
  <2>2. last'.end = "replied" /\ last'.answer = a
    BY <2>1 DEF Ended
  <2>3. Answerable(out(a))
    BY <1>1, GeneratedIsAnswerable, VerifiedIsAnswerable
  <2>4. CASE pc' = "backoff" /\ UNCHANGED <<saved, reply>> /\ Retryable(a.status)
    BY <1>3, <2>2, <2>4 DEF Retryable
  <2>5. CASE Returns(out(a)) /\ ~ IsOK(out(a))
    <3>1. Fail(out(a).error) /\ UNCHANGED saved
      BY <2>5 DEF Returns
    <3>2. Presentable(out(a).error)
      BY <2>3, <2>5 DEF Answerable
    <3>3. request.contract /\ Refused(last') => out(a).error = UnsupportedOutputContract
      <4>1. request.contract => request.op = "generate"
        BY <1>1 DEF Requests, Asks
      <4>2. request.contract /\ Refused(last') => Generated(request, a) = Err(UnsupportedOutputContract)
        BY <1>1, <2>2, ContractsAreKept DEF Refused
      <4> QED BY <4>1, <4>2, TextsAreAnswerable
    <3> HIDE DEF out
    <3> QED BY <1>1, <3>1, <3>2, <3>3, FailingKeepsAnswered
  <2>6. CASE Returns(out(a)) /\ IsOK(out(a)) /\ request.op = "generate"
    <3>1. Succeed(Generated(request, a).text) /\ UNCHANGED saved
      BY <2>6 DEF Returns
    <3>2. request.contract => Generated(request, a).text = "object" /\ ~ Refused(last')
      <4>1. ~ IsOK(Err(UnsupportedOutputContract))
        BY TextsAreAnswerable
      <4> QED BY <1>1, <2>2, <2>6, <4>1, ContractsAreKept DEF Refused
    <3> QED BY <1>1, <2>6, <3>1, <3>2, SucceedingKeepsAnswered
  <2>7. CASE Returns(out(a)) /\ IsOK(out(a)) /\ request.op # "generate"
    <3>1. pc' = "save" /\ UNCHANGED <<saved, reply>>
      BY <2>7 DEF Returns
    <3>2. a.status = 200 /\ a.body \notin {"garbled", "unreadable"}
      BY <1>1, <2>7, VerifiedIsAnswerable
    <3> QED BY <1>1, <2>2, <2>7, <3>1, <3>2, ContinuingKeepsAnswered DEF Verifying
  <2> QED BY <2>1, <2>4, <2>5, <2>6, <2>7 DEF TryAgainOr
<1> QED BY <1>5, <1>6

LEMMA AnsweredIsInductive ==
  ASSUME Typing, Answered, [Next]_vars
  PROVE  Answered'
<1>1. request \in Requests
  BY DEF Typing
<1>2. pc # "done" => ~ saved
  BY DEF Answered, Course
<1>3. last.end = "replied" /\ last.answer.status = 400 => pc = "done"
  BY DEF Answered, Course
<1>4. request.contract => request.op = "generate"
  BY <1>1 DEF Requests, Asks
<1>5. CASE HangUp
  BY <1>5 DEF HangUp, Answered, Course, ContractIsHonoured, AnswersAreDocumented, KeyIsVerified
<1>6. CASE Receive \/ Check \/ Send \/ BackoffFires
  <2>1. /\ UNCHANGED <<request, last, saved>>
        /\ pc \notin {"done", "save"} /\ pc' \notin {"done", "save"}
        /\ \/ pc' = "resolve" /\ request.op # "configure"
           \/ pc' # "resolve" /\ (request.op = "configure" \/ pc \in {"check", "send", "backoff"})
    BY <1>6 DEF Receive, Check, Send, BackoffFires
  <2>2. \/ pc' = "resolve" /\ request.op # "configure"
        \/ pc' # "resolve" /\ request.op \in {"generate", "configure"}
    BY <2>1 DEF Answered, Course
  <2> QED BY <1>2, <1>3, <2>1, <2>2, ContinuingKeepsAnswered
<1>7. CASE Reject \/ CheckFails \/ SendCancelled \/ BackoffCancelled \/ SaveFails
  <2>1. /\ UNCHANGED <<request, last, saved>> /\ pc # "done"
        /\ \E e : Presentable(e) /\ Fail(e)
    <3>1. CASE Reject
      BY <1>1, <3>1, HandlerErrorsArePresentable DEF Reject
    <3>2. CASE CheckFails
      BY <1>1, <3>2, ChecksArePresentable DEF CheckFails
    <3>3. CASE SendCancelled \/ BackoffCancelled
      BY <3>3, HandlerErrorsArePresentable DEF SendCancelled, BackoffCancelled
    <3>4. CASE SaveFails
      BY <3>4, StoredErrorsArePresentable DEF SaveFails
    <3> QED BY <1>7, <3>1, <3>2, <3>3, <3>4
  <2>2. ~ Refused(last')
    BY <1>3, <2>1 DEF Refused
  <2> QED BY <1>1, <1>2, <2>1, <2>2, FailingKeepsAnswered
<1>8. CASE Resolve
  <2>1. UNCHANGED <<request, last, saved>> /\ pc = "resolve"
    BY <1>8 DEF Resolve
  <2>2. CASE request.op = "generate"
    <3>1. pc' = "check"
      BY <1>8, <2>2 DEF Resolve
    <3> QED BY <1>2, <1>3, <2>1, <2>2, <3>1, ContinuingKeepsAnswered
  <2>3. CASE request.op # "generate"
    <3>1. Succeed("authenticated")
      BY <1>8, <2>3 DEF Resolve
    <3>2. request.op # "configure"
      BY <2>1 DEF Answered, Course
    <3> QED BY <1>2, <1>4, <2>1, <2>3, <3>1, <3>2, SucceedingKeepsAnswered
  <2> QED BY <2>2, <2>3
<1>9. CASE ResolveFails
  <2>1. PICK e \in StoreErrors \cup RefreshErrors :
          IF request.op = "status" /\ e.code = "ERR_AUTH_PROFILE_NOT_FOUND" THEN Succeed("unauthenticated") ELSE Fail(e)
    BY <1>9 DEF ResolveFails
  <2>2. UNCHANGED <<request, last, saved>> /\ pc = "resolve"
    BY <1>9 DEF ResolveFails
  <2>3. CASE Fail(e)
    <3>1. Presentable(e) /\ ~ Refused(last')
      BY <1>3, <2>2, StoredErrorsArePresentable DEF Refused
    <3> QED BY <1>1, <1>2, <2>2, <2>3, <3>1, FailingKeepsAnswered
  <2>4. CASE request.op = "status" /\ Succeed("unauthenticated")
    BY <1>2, <1>4, <2>2, <2>4, SucceedingKeepsAnswered
  <2> QED BY <2>1, <2>3, <2>4
<1>10. CASE Save
  <2>1. /\ UNCHANGED <<request, last>> /\ saved' = TRUE /\ pc = "save"
        /\ Succeed("authenticated")
    BY <1>10 DEF Save
  <2>2. request.op = "configure" /\ Verifying(last')
    BY <2>1 DEF Answered, Course, Verifying
  <2> QED BY <1>4, <2>1, <2>2, SucceedingKeepsAnswered
<1>11. CASE ProviderAnswers \/ ConnectionBreaks \/ AttemptTimesOut \/ AttemptCancelled
  BY <1>1, <1>11, AttemptsKeepAnswered
<1>12. CASE UNCHANGED vars
  BY <1>12 DEF vars, Answered, Course, ContractIsHonoured, AnswersAreDocumented, KeyIsVerified
<1> QED BY <1>5, <1>6, <1>7, <1>8, <1>9, <1>10, <1>11, <1>12 DEF Next

THEOREM AnswersInvariance == Spec => []Answered
<1>1. Init => Typing
  <2> SUFFICES ASSUME Init PROVE Typing
    OBVIOUS
  <2>1. last.end = "none" /\ last.answer = NoAnswer /\ reply.text = "none"
    BY DEF Init, Ended, Err
  <2> QED BY <2>1 DEF Init, Typing
<1>2. Init => Answered
  <2> SUFFICES ASSUME Init PROVE Answered
    OBVIOUS
  <2>1. last.end = "none" /\ pc = "receive" /\ ~ saved
    BY DEF Init, Ended
  <2> QED BY <2>1 DEF Answered, Course, ContractIsHonoured, AnswersAreDocumented, KeyIsVerified
<1> QED BY <1>1, <1>2, TypingIsInductive, AnsweredIsInductive, PTL DEF Spec

(* Whatever a provider answers, and on whatever route and after whatever   *)
(* retries, a request with an output contract is answered with a JSON      *)
(* object or refused; a refusal with 400 is laid to the contract.          *)
THEOREM ContractsAreHonoured == Spec => []ContractIsHonoured
BY AnswersInvariance, PTL DEF Answered

(* normalizeLLMError leaves no error of store, refresher, transports or    *)
(* handler outside the table of docs/LLM_PROVIDER_CONTRACT.md.             *)
THEOREM AllAnswersAreDocumented == Spec => []AnswersAreDocumented
BY AnswersInvariance, PTL DEF Answered

(* No key is stored on the strength of an answer that could not be read, or*)
(* that was no 200, and none is stored and then reported as refused.       *)
THEOREM KeysAreVerified == Spec => []KeyIsVerified
BY AnswersInvariance, PTL DEF Answered
===============================================================================
