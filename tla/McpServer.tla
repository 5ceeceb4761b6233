------------------------------ MODULE McpServer ------------------------------
(***************************************************************************)
(* The MCP server of cmd/middleware-codex-oauth-mcp: it reads JSON-RPC     *)
(* messages, one in a line, from its standard input, handles one at a time,*)
(* calls the middleware over HTTP where a tool needs it, and writes the    *)
(* answers to its standard output (internal/mcpstdio/server.go).           *)
(*                                                                         *)
(* A message is what the server tells apart of it: whether it has an id,   *)
(* and which way through handle and callTool it takes.                     *)
(*                                                                         *)
(* An operator A_Fault is A with a fault a change to the code could bring  *)
(* in; Next uses none of them.                                             *)
(***************************************************************************)
EXTENDS ErrorContract, Sequences, SequencesExt

CONSTANT MaxMessages   \* bound: how many lines the client writes

ASSUME MaxMessagesAssumption == MaxMessages \in Nat

VARIABLES
  messages,   \* the lines the client has written
  eof,        \* it has closed the server's input
  read,       \* how many of them it has taken up
  pc,         \* where the server is
  signalled,  \* SIGINT or SIGTERM has come: ctx is cancelled
  calls,      \* history: the messages for which a call has gone to the middleware
  answers,    \* history: the messages answered, in the order of the answers
  last        \* history: what the last remote tool got, and the code of the answer

vars == <<messages, eof, read, pc, signalled, calls, answers, last>>

\* The answers that need no tool: blank and tooLong lines, garbage (no JSON), a wrong version,
\* initialize, ping and tools/list (method), notifications/initialized, an unknown method, params
\* that are no call.  Then the calls of an unknown tool, of a tool whose arguments lack projectId,
\* input or loginSessionId, and of the tools that call the middleware, by how they render an error.
Local  == {"method", "badVersion", "badParams", "unknownTool", "badArguments"}
Remote == {"llm", "decision", "legacy"}
Kinds  == {"blank", "tooLong", "garbage", "initialized", "unknownMethod"} \cup Local \cup Remote

Message == [kind : Kinds, hasId : BOOLEAN]

\* What the middleware answers to each kind of tool, besides a 2xx: the errors of its routes and
\* those of every route.  A call that yields no answer has the error NoResponse.
EveryRoute == {Error("ERR_MIDDLEWARE_UNAUTHORIZED", 401), Error("ERR_INVALID_PROJECT_ID", 400)}
NoResponse == Error("", 0)
Success    == Error("", 200)

LLMErrors == DocumentedErrors \cup {Error("ERR_LLM_REQUEST_INVALID", 404)}

DecisionErrors ==
  {NormalizeDecisionError(e) :
     e \in StoreErrors \cup {Error("ERR_DECISION_AUTH_REJECTED", 401), Error("ERR_DECISION_RATE_LIMITED", 429),
                             Error("ERR_DECISION_TIMEOUT", 504), Error("ERR_DECISION_REQUEST_INVALID", 400),
                             Error("ERR_DECISION_PROVIDER_FAILED", 502)}}

LegacyErrors == RefreshErrors \cup {Error("ERR_CODEX_AUTH_REJECTED", 401), Error("ERR_CODEX_HTTP_FAILED", 502)}

ErrorsOf(kind) == EveryRoute \cup CASE kind = "llm"      -> LLMErrors
                                    [] kind = "decision" -> DecisionErrors
                                    [] kind = "legacy"   -> LegacyErrors

Outcomes == (UNION {ErrorsOf(kind) : kind \in Remote}) \cup {NoResponse, Success}

NoLast == [kind |-> "none", outcome |-> NoResponse, code |-> ""]

TypeOK ==
  /\ messages \in Seq(Message) /\ Len(messages) <= MaxMessages
  /\ eof \in BOOLEAN /\ signalled \in BOOLEAN
  /\ read \in 0..Len(messages)
  /\ pc \in {"scan", "handle", "call", "wait", "stopped"}
  /\ calls \in Seq(1..Len(messages)) /\ answers \in Seq(1..Len(messages))
  /\ last.kind \in {"none"} \cup Remote /\ last.outcome \in Outcomes
  /\ last.kind \in {"llm", "decision"} => last.code \in PublicCodes \cup {"ERR_LLM_INTERNAL", ""}

Init ==
  /\ messages = <<>> /\ eof = FALSE
  /\ read = 0
  /\ pc = "scan"
  /\ signalled = FALSE
  /\ calls = <<>> /\ answers = <<>>
  /\ last = NoLast

------------------------------------------------------------------------------
(* The client and the operating system.                                    *)

Write ==
  /\ ~ eof /\ Len(messages) < MaxMessages
  /\ \E message \in Message : messages' = Append(messages, message)
  /\ UNCHANGED <<eof, read, pc, signalled, calls, answers, last>>

CloseInput ==
  /\ ~ eof
  /\ eof' = TRUE
  /\ UNCHANGED <<messages, read, pc, signalled, calls, answers, last>>

Signal ==
  /\ ~ signalled /\ pc # "stopped"
  /\ signalled' = TRUE
  /\ UNCHANGED <<messages, eof, read, pc, calls, answers, last>>

------------------------------------------------------------------------------
(* Serve.  A signal is seen when a line has come, not while waiting for it.*)

Current == messages[read]

Scan_IgnoresContext ==
  /\ pc = "scan" /\ read < Len(messages)
  /\ IF messages[read + 1].kind = "tooLong"
     THEN pc' = "stopped" /\ UNCHANGED read
     ELSE pc' = "handle" /\ read' = read + 1
  /\ UNCHANGED <<messages, eof, signalled, calls, answers, last>>

Scan ==
  /\ pc = "scan" /\ read < Len(messages)
  /\ IF signalled \/ messages[read + 1].kind = "tooLong"
     THEN pc' = "stopped" /\ UNCHANGED read
     ELSE pc' = "handle" /\ read' = read + 1
  /\ UNCHANGED <<messages, eof, signalled, calls, answers, last>>

EndOfInput_Early ==
  /\ pc = "scan" /\ eof
  /\ pc' = "stopped"
  /\ UNCHANGED <<messages, eof, read, signalled, calls, answers, last>>

EndOfInput ==
  /\ pc = "scan" /\ eof /\ read = Len(messages)
  /\ pc' = "stopped"
  /\ UNCHANGED <<messages, eof, read, signalled, calls, answers, last>>

\* writeRPCResult and writeRPCError write nothing without an id, but for a line that is no JSON,
\* which is answered with the id null.
Respond_Always == answers' = Append(answers, read)

Respond == answers' = IF Current.hasId \/ Current.kind = "garbage" THEN Append(answers, read) ELSE answers

\* handle, and callTool where it needs no call.
Handle ==
  /\ pc = "handle"
  /\ \/ Current.kind \in {"blank", "initialized"} /\ pc' = "scan" /\ UNCHANGED answers
     \/ Current.kind \in {"garbage", "unknownMethod"} \cup Local /\ pc' = "scan" /\ Respond
     \/ Current.kind \in Remote /\ pc' = "call" /\ UNCHANGED answers
  /\ UNCHANGED <<messages, eof, read, signalled, calls, last>>

------------------------------------------------------------------------------
(* doJSON: one call, no second attempt, sixty seconds.                     *)

\* llmErrorFromError for llm and decision tools, the text of the error for the others.
Render(kind, outcome) == IF kind = "legacy" THEN outcome.code ELSE CodeFromError(outcome)

ToolReturns(outcome) ==
  /\ last' = [kind |-> Current.kind, outcome |-> outcome,
              code |-> IF outcome = Success THEN "" ELSE Render(Current.kind, outcome)]
  /\ pc' = "scan"
  /\ Respond

Call ==
  /\ pc = "call" /\ ~ signalled
  /\ pc' = "wait"
  /\ calls' = Append(calls, read)
  /\ UNCHANGED <<messages, eof, read, signalled, answers, last>>

\* The call is not made: the context is cancelled, or nobody listens.
CallFails ==
  /\ pc = "call"
  /\ ToolReturns(NoResponse)
  /\ UNCHANGED <<messages, eof, read, signalled, calls>>

MiddlewareAnswers ==
  /\ pc = "wait"
  /\ \E outcome \in ErrorsOf(Current.kind) \cup {Success} : ToolReturns(outcome)
  /\ UNCHANGED <<messages, eof, read, signalled, calls>>

CallBreaks_NoTimeout ==
  /\ pc = "wait" /\ signalled
  /\ ToolReturns(NoResponse)
  /\ UNCHANGED <<messages, eof, read, signalled, calls>>

\* The sixty seconds are over, the connection breaks, or the context is cancelled.
CallBreaks ==
  /\ pc = "wait"
  /\ ToolReturns(NoResponse)
  /\ UNCHANGED <<messages, eof, read, signalled, calls>>

Next ==
  \/ Write \/ CloseInput \/ Signal
  \/ Scan \/ EndOfInput \/ Handle
  \/ Call \/ CallFails
  \/ MiddlewareAnswers \/ CallBreaks

Spec == Init /\ [][Next]_vars

\* The server takes its steps and its client's timer fires.
Fairness ==
  /\ WF_vars(Scan \/ EndOfInput)
  /\ WF_vars(Handle)
  /\ WF_vars(Call \/ CallFails)
  /\ WF_vars(CallBreaks)

FairSpec == Spec /\ Fairness

------------------------------------------------------------------------------
(* Properties.                                                             *)

\* By JSON-RPC: a line that is no JSON is answered, a blank one is not, and of the others exactly
\* those with an id; notifications/initialized is a notification whether or not it has one.
Answerable(message) ==
  \/ message.kind = "garbage"
  \/ message.hasId /\ message.kind \notin {"blank", "tooLong", "initialized"}

Handled == IF pc \in {"handle", "call", "wait"} THEN read - 1 ELSE read

\* Output is in step with input: what has been written is one answer to each answerable line handled
\* so far, in the order of the lines, whatever the calls in between came to.
AnswersInOrder ==
  /\ {answers[k] : k \in DOMAIN answers} = {i \in 1..Handled : Answerable(messages[i])}
  /\ \A j, k \in DOMAIN answers : j < k => answers[j] < answers[k]

\* Only a signal and a line over the limit of the scanner stop the server before it has taken up
\* everything its client wrote before it closed the input.
NothingIsDropped ==
  pc = "stopped" =>
    \/ eof /\ read = Len(messages)
    \/ signalled
    \/ read < Len(messages) /\ messages[read + 1].kind = "tooLong"

\* A signal stops the server at the next line or at the end of its input, whatever it is doing when the
\* signal comes, however much input is waiting, and though the middleware may never answer.
SignalStops == signalled /\ (eof \/ read < Len(messages)) ~> pc = "stopped"

\* What docs/LLM_PROVIDER_CONTRACT.md says of the llm tools: they mirror the errors of the HTTP
\* contract, so that a consumer can decide by the code on either.
Mirrored(codes) ==
  last.kind = "llm" /\ last.outcome \in DocumentedErrors /\ last.outcome.code \in codes
    => last.code = last.outcome.code

ErrorsAreMirrored == Mirrored(DOMAIN DocumentedStatuses)

\* All but two of the documented errors of the HTTP contract reach the client of an llm tool under
\* their own code, though the server only searches the text of the answer for them.
MostErrorsAreMirrored ==
  Mirrored(DOMAIN DocumentedStatuses \ {"ERR_LLM_OUTPUT_CONTRACT_UNSUPPORTED", "ERR_LLM_RESPONSE_EMPTY"})

\* No line stays in the queue for ever, though the middleware may never answer.
EveryLineIsHandled ==
  \A i \in 1..MaxMessages : (Len(messages) >= i) ~> (Handled >= i \/ pc = "stopped")
==============================================================================
