--------------------------- MODULE McpServer_proofs ---------------------------
(***************************************************************************)
(* Proofs about McpServer, for any number of lines.  Why the server stopped*)
(* stays true of the lines there are, since nothing is written after the   *)
(* input is closed and what is written does not change.                    *)
(***************************************************************************)
EXTENDS McpServer, TLAPS

Reading ==
  /\ messages \in Seq(Message)
  /\ read \in 0..Len(messages)
  /\ pc \in {"handle", "call", "wait"} => read > 0

IInv == Reading /\ NothingIsDropped

LEMMA IInvIsInductive ==
  ASSUME IInv, [Next]_vars
  PROVE  IInv'
<1> USE DEF IInv, Reading, NothingIsDropped
<1>1. CASE Write
  <2>1. PICK message \in Message : messages' = Append(messages, message)
    BY <1>1 DEF Write
  <2>2. /\ messages' \in Seq(Message) /\ Len(messages') = Len(messages) + 1
        /\ \A i \in 1..Len(messages) : messages'[i] = messages[i]
    BY <2>1
  <2> QED BY <1>1, <2>2 DEF Write
<1>2. CASE CloseInput \/ Signal
  BY <1>2 DEF CloseInput, Signal
<1>3. CASE Scan
  BY <1>3 DEF Scan
<1>4. CASE EndOfInput
  BY <1>4 DEF EndOfInput
<1>5. CASE Handle
  BY <1>5 DEF Handle
<1>6. CASE Call \/ CallFails
  BY <1>6 DEF Call, CallFails, ToolReturns
<1>7. CASE MiddlewareAnswers \/ CallBreaks
  BY <1>7 DEF MiddlewareAnswers, CallBreaks, ToolReturns
<1>8. CASE UNCHANGED vars
  BY <1>8 DEF vars
<1> QED BY <1>1, <1>2, <1>3, <1>4, <1>5, <1>6, <1>7, <1>8 DEF Next

THEOREM Invariance == Spec => []IInv
<1>1. Init => IInv
  BY DEF Init, IInv, Reading, NothingIsDropped
<1> QED BY <1>1, IInvIsInductive, PTL DEF Spec

(* The loop of Serve ends only at the end of the input, at a signal or at a*)
(* line over the scanner's limit: nothing a tool call comes to ends it.    *)
THEOREM NothingIsLost == Spec => []NothingIsDropped
BY Invariance, PTL DEF IInv

------------------------------------------------------------------------------
(* Types.  A message taken up is one of those written, and a message never *)
(* changes; what has been answered or called for has been taken up.        *)

Typing ==
  /\ Reading
  /\ Len(messages) <= MaxMessages
  /\ eof \in BOOLEAN /\ signalled \in BOOLEAN
  /\ pc \in {"scan", "handle", "call", "wait", "stopped"}
  /\ pc \in {"call", "wait"} => Current.kind \in Remote
  /\ calls \in Seq(1..Len(messages)) /\ answers \in Seq(1..Len(messages))

Rendered ==
  /\ last.kind \in {"none"} \cup Remote /\ last.outcome \in Outcomes
  /\ last.kind \in {"llm", "decision"} => last.code \in PublicCodes \cup {"ERR_LLM_INTERNAL", ""}
  /\ MostErrorsAreMirrored

LEMMA RespondIsTyped ==
  ASSUME Typing, read > 0, Respond
  PROVE  answers' \in Seq(1..Len(messages))
<1>1. read \in 1..Len(messages) /\ answers \in Seq(1..Len(messages))
  BY DEF Typing, Reading
<1>2. Append(answers, read) \in Seq(1..Len(messages))
  BY <1>1
<1>3. answers' \in {answers, Append(answers, read)}
  BY DEF Respond
<1> QED BY <1>1, <1>2, <1>3

LEMMA TypingIsInductive ==
  ASSUME Typing, [Next]_vars
  PROVE  Typing'
<1> USE MaxMessagesAssumption DEF Typing, Reading, Current
<1>1. CASE Write
  <2>1. PICK message \in Message : messages' = Append(messages, message)
    BY <1>1 DEF Write
  <2>2. /\ messages' \in Seq(Message) /\ Len(messages') = Len(messages) + 1
        /\ \A i \in 1..Len(messages) : messages'[i] = messages[i]
    BY <2>1
  <2>3. /\ Len(messages) < MaxMessages
        /\ UNCHANGED <<eof, read, pc, signalled, calls, answers>>
    BY <1>1 DEF Write
  <2>4. \A s \in Seq(1..Len(messages)) : s \in Seq(1..Len(messages'))
    BY <2>2
  <2> QED BY <2>2, <2>3, <2>4
<1>2. CASE CloseInput \/ Signal
  <2>1. UNCHANGED <<messages, read, pc, calls, answers>>
    BY <1>2 DEF CloseInput, Signal
  <2>2. eof' \in BOOLEAN /\ signalled' \in BOOLEAN
    BY <1>2 DEF CloseInput, Signal
  <2> QED BY <2>1, <2>2
<1>3. CASE Scan \/ EndOfInput
  BY <1>3 DEF Scan, EndOfInput
<1>4. CASE Handle
  <2>1. answers' \in Seq(1..Len(messages))
    BY <1>4, RespondIsTyped DEF Handle
  <2>2. UNCHANGED <<messages, eof, read, signalled, calls>> /\ pc = "handle"
    BY <1>4 DEF Handle
  <2>3. pc' = "scan" \/ (pc' = "call" /\ Current.kind \in Remote)
    BY <1>4 DEF Handle
  <2> QED BY <2>1, <2>2, <2>3
<1>5. CASE Call
  BY <1>5 DEF Call
<1>6. CASE CallFails \/ MiddlewareAnswers \/ CallBreaks
  <2>1. answers' \in Seq(1..Len(messages))
    BY <1>6, RespondIsTyped DEF CallFails, MiddlewareAnswers, CallBreaks, ToolReturns
  <2>2. UNCHANGED <<messages, eof, read, signalled, calls>> /\ pc' = "scan"
    BY <1>6 DEF CallFails, MiddlewareAnswers, CallBreaks, ToolReturns
  <2> QED BY <2>1, <2>2
<1>7. CASE UNCHANGED vars
  BY <1>7 DEF vars
<1> QED BY <1>1, <1>2, <1>3, <1>4, <1>5, <1>6, <1>7 DEF Next

\* What llmErrorFromError makes of any error is a public code or the internal one.
LEMMA CodesArePublic ==
  ASSUME NEW e PROVE CodeFromError(e) \in PublicCodes \cup {"ERR_LLM_INTERNAL"}
BY DEF CodeFromError, PublicCodes

\* It keeps the code of a documented error, with the two exceptions.
LEMMA DocumentedCodesAreKept ==
  ASSUME NEW e \in DocumentedErrors,
         e.code \in DOMAIN DocumentedStatuses \ {"ERR_LLM_OUTPUT_CONTRACT_UNSUPPORTED", "ERR_LLM_RESPONSE_EMPTY"}
  PROVE  CodeFromError(e) = e.code
<1>1. PICK c \in DOMAIN DocumentedStatuses : \E t \in DocumentedStatuses[c] : e = Error(c, t)
  BY DEF DocumentedErrors
<1>0. PICK s \in DocumentedStatuses[c] : e = Error(c, s)
  BY <1>1
<1>2. e.code = c /\ e.status = s
  BY <1>0 DEF Error
<1>3. c \in PublicCodes \/ c = "ERR_LLM_INTERNAL"
  BY <1>1, <1>2 DEF DocumentedStatuses, PublicCodes
<1>4. c = "ERR_LLM_INTERNAL" => s = 500
  BY <1>1 DEF DocumentedStatuses
<1> QED BY <1>2, <1>3, <1>4 DEF CodeFromError

\* The answer of a tool is rendered from what it got.
LEMMA ToolReturnsRenders ==
  ASSUME NEW outcome \in Outcomes, Current.kind \in Remote, ToolReturns(outcome)
  PROVE  Rendered'
<1>1. /\ last'.kind = Current.kind /\ last'.outcome = outcome
      /\ last'.code = IF outcome = Success THEN "" ELSE Render(Current.kind, outcome)
  BY DEF ToolReturns
<1>2. last'.kind \in {"llm", "decision"} => last'.code \in {"", CodeFromError(outcome)}
  BY <1>1 DEF Render
<1>3. ASSUME last'.kind = "llm", outcome \in DocumentedErrors,
             outcome.code \in DOMAIN DocumentedStatuses \ {"ERR_LLM_OUTPUT_CONTRACT_UNSUPPORTED", "ERR_LLM_RESPONSE_EMPTY"}
      PROVE  last'.code = outcome.code
  <2>1. CASE outcome = Success
    <3>1. outcome.code = ""
      BY <2>1 DEF Success, Error
    <3>2. last'.code = ""
      BY <1>1, <2>1
    <3> QED BY <3>1, <3>2
  <2>2. CASE outcome # Success
    BY <1>1, <1>3, <2>2, DocumentedCodesAreKept DEF Render
  <2> QED BY <2>1, <2>2
<1> QED BY <1>1, <1>2, <1>3, CodesArePublic DEF Rendered, MostErrorsAreMirrored, Mirrored

LEMMA RenderedIsInductive ==
  ASSUME Typing, Rendered, [Next]_vars
  PROVE  Rendered'
<1>1. CASE CallFails
  BY <1>1, ToolReturnsRenders DEF CallFails, Typing, Outcomes
<1>2. CASE MiddlewareAnswers
  <2>1. PICK outcome \in ErrorsOf(Current.kind) \cup {Success} : ToolReturns(outcome)
    BY <1>2 DEF MiddlewareAnswers
  <2>2. Current.kind \in Remote
    BY <1>2 DEF MiddlewareAnswers, Typing
  <2>3. outcome \in Outcomes
    BY <2>1, <2>2 DEF Outcomes
  <2> QED BY <2>1, <2>2, <2>3, ToolReturnsRenders
<1>3. CASE CallBreaks
  BY <1>3, ToolReturnsRenders DEF CallBreaks, Typing, Outcomes
<1>4. CASE UNCHANGED last
  BY <1>4 DEF Rendered, MostErrorsAreMirrored, Mirrored
<1> QED
  BY <1>1, <1>2, <1>3, <1>4 DEF Next, vars, Write, CloseInput, Signal, Scan, EndOfInput, Handle, Call

THEOREM RenderingInvariance == Spec => [](Typing /\ Rendered)
<1>1. ASSUME Init PROVE Typing
  <2>1. /\ messages = << >> /\ read = 0 /\ pc = "scan"
        /\ calls = << >> /\ answers = << >>
        /\ eof \in BOOLEAN /\ signalled \in BOOLEAN
    BY <1>1 DEF Init
  <2> QED BY <2>1, MaxMessagesAssumption DEF Typing, Reading
<1>2. ASSUME Init PROVE Rendered
  <2>1. last = NoLast
    BY <1>2 DEF Init
  <2>2. last.kind = "none" /\ last.outcome = NoResponse
    BY <2>1 DEF NoLast
  <2> QED BY <2>2 DEF Rendered, MostErrorsAreMirrored, Mirrored, Outcomes
<1> QED BY <1>1, <1>2, TypingIsInductive, RenderedIsInductive, PTL DEF Spec

(* Every behaviour of the server keeps its types: it is where a loop can be,*)
(* has called and answered for lines it has taken up, and gives the client *)
(* of an llm or decision tool no code but a public or the internal one.    *)
THEOREM TypeCorrect == Spec => []TypeOK
<1>1. Typing /\ Rendered => TypeOK
  BY DEF Typing, Rendered, Reading, TypeOK
<1> QED BY <1>1, RenderingInvariance, PTL

(* All but two of the documented errors reach the client of an llm tool    *)
(* under their own code, whatever lines came before.                       *)
THEOREM ErrorsKeepTheirCodes == Spec => []MostErrorsAreMirrored
<1>1. Rendered => MostErrorsAreMirrored
  BY DEF Rendered
<1> QED BY <1>1, RenderingInvariance, PTL

------------------------------------------------------------------------------
(* The order of the answers.  A line is answered last of those answered so *)
(* far, so the order takes care of itself; that each line has its one      *)
(* answer rests on what Handle does with each kind.                        *)

LEMMA LineIsFinished ==
  ASSUME Typing, AnswersInOrder, pc \in {"handle", "call", "wait"}, pc' = "scan", UNCHANGED <<messages, read>>,
         answers' = IF Answerable(Current) THEN Append(answers, read) ELSE answers
  PROVE  AnswersInOrder'
<1>1. read \in 1..Len(messages) /\ Handled = read - 1 /\ Handled' = read
  BY DEF Typing, Reading, Handled
<1>2. answers \in Seq(1..Len(messages)) /\ Current = messages[read] /\ messages' = messages
  BY DEF Typing, Current
<1> DEFINE told   == {answers[k] : k \in DOMAIN answers}
           before == {i \in 1..(read - 1) : Answerable(messages[i])}
           now    == {i \in 1..read : Answerable(messages[i])}
<1>3. told = before /\ \A j, k \in DOMAIN answers : j < k => answers[j] < answers[k]
  BY <1>1 DEF AnswersInOrder
<1>4. now = before \cup IF Answerable(Current) THEN {read} ELSE {}
  BY <1>1, <1>2
<1>5. CASE ~ Answerable(Current)
  <2>1. answers' = answers /\ now = before
    BY <1>4, <1>5
  <2> QED BY <1>1, <1>2, <1>3, <2>1 DEF AnswersInOrder
<1>6. CASE Answerable(Current)
  <2>1. /\ DOMAIN answers = 1..Len(answers) /\ DOMAIN answers' = 1..(Len(answers) + 1) /\ Len(answers) \in Nat
        /\ \A k \in 1..Len(answers) : answers'[k] = answers[k]
        /\ answers'[Len(answers) + 1] = read
    BY <1>2, <1>6
  <2>2. {answers'[k] : k \in DOMAIN answers'} = told \cup {read}
    BY <2>1
  <2>3. \A k \in DOMAIN answers : answers[k] \in 1..(read - 1)
    BY <1>3
  <2>4. ASSUME NEW j \in DOMAIN answers', NEW k \in DOMAIN answers', j < k
        PROVE  answers'[j] < answers'[k]
    <3>1. j \in DOMAIN answers /\ answers'[j] = answers[j]
      BY <2>1, <2>4
    <3>2. CASE k \in DOMAIN answers
      BY <1>3, <2>1, <2>4, <3>1, <3>2
    <3>3. CASE k = Len(answers) + 1
      BY <1>1, <2>1, <2>3, <3>1, <3>3
    <3> QED BY <2>1, <3>2, <3>3
  <2> QED BY <1>1, <1>2, <1>3, <1>4, <1>6, <2>2, <2>4 DEF AnswersInOrder
<1> QED BY <1>5, <1>6

LEMMA OrderIsInductive ==
  ASSUME Typing, AnswersInOrder, [Next]_vars
  PROVE  AnswersInOrder'
<1>1. ASSUME pc \in {"handle", "call", "wait"}, Current.kind \notin {"blank", "initialized", "tooLong"},
             Respond, pc' = "scan", UNCHANGED <<messages, read>>
      PROVE  AnswersInOrder'
  <2>1. answers' = IF Answerable(Current) THEN Append(answers, read) ELSE answers
    BY <1>1 DEF Respond, Answerable
  <2> QED BY <1>1, <2>1, LineIsFinished
<1>2. CASE Write
  <2>1. PICK message \in Message : messages' = Append(messages, message)
    BY <1>2 DEF Write
  <2>2. messages \in Seq(Message) /\ read \in 0..Len(messages) /\ UNCHANGED <<read, pc, answers>>
    BY <1>2 DEF Write, Typing, Reading
  <2>3. Handled' = Handled /\ Handled \in -1..Len(messages)
    BY <2>2 DEF Handled
  <2>4. \A i \in 1..Handled : messages'[i] = messages[i]
    BY <2>1, <2>2, <2>3
  <2> QED BY <2>2, <2>3, <2>4 DEF AnswersInOrder
<1>3. CASE CloseInput \/ Signal \/ UNCHANGED vars
  BY <1>3 DEF CloseInput, Signal, vars, AnswersInOrder, Handled
<1>4. CASE Scan \/ EndOfInput \/ Call
  <2>1. Handled' = Handled /\ UNCHANGED <<messages, answers>>
    BY <1>4 DEF Scan, EndOfInput, Call, Handled, Typing, Reading
  <2> QED BY <2>1 DEF AnswersInOrder
<1>5. CASE Handle
  <2>1. pc = "handle" /\ UNCHANGED <<messages, read>>
    BY <1>5 DEF Handle
  <2>2. CASE Current.kind \in {"blank", "initialized"} /\ pc' = "scan" /\ UNCHANGED answers
    <3>1. ~ Answerable(Current)
      BY <2>2 DEF Answerable
    <3> QED BY <2>1, <2>2, <3>1, LineIsFinished
  <2>3. CASE Current.kind \in {"garbage", "unknownMethod"} \cup Local /\ pc' = "scan" /\ Respond
    BY <1>1, <2>1, <2>3 DEF Local
  <2>4. CASE Current.kind \in Remote /\ pc' = "call" /\ UNCHANGED answers
    <3>1. Handled' = Handled
      BY <2>1, <2>4 DEF Handled
    <3> QED BY <2>1, <2>4, <3>1 DEF AnswersInOrder
  <2> QED BY <1>5, <2>2, <2>3, <2>4 DEF Handle
<1>6. CASE CallFails \/ MiddlewareAnswers \/ CallBreaks
  <2>1. pc \in {"call", "wait"} /\ Respond /\ pc' = "scan" /\ UNCHANGED <<messages, read>>
    BY <1>6 DEF CallFails, MiddlewareAnswers, CallBreaks, ToolReturns
  <2>2. Current.kind \in Remote
    BY <2>1 DEF Typing
  <2> QED BY <1>1, <2>1, <2>2 DEF Remote
<1> QED BY <1>2, <1>3, <1>4, <1>5, <1>6 DEF Next

(* Each line of the input has its one answer, if it is to have one, in the *)
(* order of the lines, though the server may have to wait for a call in    *)
(* between, and whatever becomes of the call.                              *)
THEOREM AnswersComeInOrder == Spec => []AnswersInOrder
<1>1. Init => AnswersInOrder
  BY DEF Init, AnswersInOrder, Handled
<1>2. Typing /\ AnswersInOrder /\ [Next]_vars => AnswersInOrder'
  BY OrderIsInductive
<1>3. Typing /\ Rendered => Typing
  OBVIOUS
<1> QED BY <1>1, <1>2, <1>3, RenderingInvariance, PTL DEF Spec
===============================================================================
