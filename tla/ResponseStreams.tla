--------------------------- MODULE ResponseStreams ---------------------------
(***************************************************************************)
(* How the text of an answer gets out of what a provider sends: the SSE    *)
(* scanner every transport shares (internal/codex/sse_parser.go) and what  *)
(* the transports of codex, LM Studio, Anthropic and OpenRouter make of    *)
(* its events, or of an answer that is plain JSON.                         *)
(*                                                                         *)
(* The transports read the whole body before they look at it.  Here the    *)
(* scanner takes each line as it comes: nobody sees its state before the   *)
(* end, and a body that cannot be read to its end (Break) is an error      *)
(* whatever has been scanned.                                              *)
(*                                                                         *)
(* A JSON object of a stream is a record:                                  *)
(*   type   what it is about: delta (output_text.delta of codex and the    *)
(*          text_delta of Anthropic), part and completed (codex repeats the*)
(*          text of a part in output_text.done and that of the answer at   *)
(*          its end), chat (a chunk of a chat completion), reasoning (text *)
(*          that is not the answer), error                                 *)
(*   named  it says so itself, in a member "type"                          *)
(*   parts  the texts it carries, by content part; a text is a sequence of *)
(*          pieces                                                         *)
(***************************************************************************)
EXTENDS Transports, Selection, SequencesExt

CONSTANTS
  Pieces,    \* of text
  Thought,   \* a piece of reasoning, which is no piece of an answer
  Answers    \* the answers of the providers: sequences of parts

ASSUME ThoughtAssumption == Thought \notin Pieces
ASSUME AnswersAssumption == Answers \subseteq Seq(Seq(Pieces))

VARIABLES
  exchange,  \* with whom, what was asked for, and how the provider frames its answer
  open,      \* the provider has not closed its stream
  todo,      \* what it still has to send
  fault,     \* what went wrong on its side
  wire,      \* lines sent and not yet scanned
  seen,      \* the kinds of lines scanned: what looksLikeSSE looks for
  scanner,   \* eventType, data and events of ParseSSE; overlong once Scan has stopped
  outcome    \* what the transport returns

streamVars == <<exchange, open, todo, fault, wire, seen, scanner, outcome>>

Chats(llm) == llm \in {"lmstudio", "openrouter"}

Flat(parts) == FlattenSeq(parts)

------------------------------------------------------------------------------
(* The provider.                                                           *)

Message(type, named, parts) == [type |-> type, named |-> named, parts |-> parts]

\* What a payload that is no JSON object unmarshals to.
NotJSON == Message("none", FALSE, << >>)

Line(kind, name, half, message) == [kind |-> kind, name |-> name, half |-> half, message |-> message]

Blank         == Line("blank", "", "", NotJSON)
Comment       == Line("other", "", "", NotJSON)
Overlong      == Line("overlong", "", "", NotJSON)
EventLine(n)  == Line("event", n, "", NotJSON)
Data(half, m) == Line("data", "", half, m)
Garbage       == Data("all", NotJSON)
DoneLine      == Data("[DONE]", NotJSON)

\* How the events of a stream are framed: a line that names them, a member that does, or both.
\* Anthropic always sends the member; a chat completion has none.
Framings(llm, form) ==
  CASE form = "json"                          -> {"none"}
    [] form = "stream" /\ llm = "openai"      -> {"line", "member", "both"}
    [] form = "stream" /\ llm = "anthropic"   -> {"member", "both"}
    [] form = "stream" /\ Chats(llm)          -> {"line", "none"}

HasLine(framing) == framing \in {"line", "both"}
Named(framing)   == framing \in {"member", "both"}

Framed(m, datas) ==
  (IF HasLine(exchange.framing) THEN <<EventLine(m.type)>> ELSE << >>) \o datas \o <<Blank>>

\* Which events carry the text.  Only codex repeats it.
Carriers(llm, form) ==
  IF form = "json" THEN {{}}
  ELSE IF llm = "openai" THEN {{"delta", "part", "completed"}, {"part", "completed"}, {"completed"}}
  ELSE {{"delta"}}

Script(llm, framing, carriers, answer) ==
  LET is(type, parts) == Message(type, Named(framing), parts)
      delta(piece)    == is(IF Chats(llm) THEN "chat" ELSE "delta", << <<piece>> >>)
      part(p) == (IF "delta" \in carriers THEN [i \in DOMAIN p |-> delta(p[i])] ELSE << >>) \o
                 (IF "part" \in carriers THEN <<is("part", <<p>>)>> ELSE << >>)
  IN  Flat([i \in DOMAIN answer |-> part(answer[i])]) \o
      (IF "completed" \in carriers THEN <<is("completed", answer)>> ELSE << >>)

NoScanner == [eventType |-> "", data |-> << >>, events |-> << >>, overlong |-> FALSE]

Returns(error, text, deltas) == [error |-> error, text |-> text, deltas |-> deltas]
Fails(error)                 == Returns(error, << >>, << >>)
Unasked                      == Fails(Error("unasked", 0))
Pending                      == Fails(Error("pending", 0))

Exchanges ==
  {x \in [llm : LLMs, stream : BOOLEAN, form : {"stream", "json"}, declared : BOOLEAN,
          framing : {"line", "member", "both", "none"}, carriers : SUBSET {"delta", "part", "completed"},
          answer : Answers] :
     /\ x.framing \in Framings(x.llm, x.form)
     /\ x.carriers \in Carriers(x.llm, x.form)
     /\ x.form = "json" => ~ x.declared
     /\ x.llm = "openai" => x.stream}

\* Nothing has been asked of a provider.
NoExchange == [llm |-> "none", stream |-> FALSE, form |-> "json", declared |-> FALSE, framing |-> "none",
               carriers |-> {}, answer |-> << >>]

StreamInit ==
  /\ exchange = NoExchange
  /\ open = FALSE
  /\ todo = << >>
  /\ fault = "none"
  /\ wire = << >>
  /\ seen = {}
  /\ scanner = NoScanner
  /\ outcome = Unasked

\* The provider accepts a request to this model, for a stream or not, and begins some answer.
Accept(llm, stream) ==
  /\ outcome = Unasked
  /\ exchange' \in {x \in Exchanges : x.llm = llm /\ x.stream = stream}
  /\ LET x == exchange'
     IN  /\ open' = (x.form = "stream")
         /\ todo' = Script(x.llm, x.framing, x.carriers, x.answer)
  /\ outcome' = Pending
  /\ UNCHANGED <<fault, wire, seen, scanner>>

DoneSent == \E i \in DOMAIN scanner.events : scanner.events[i].type = "done"

Sending == open /\ wire = << >> /\ outcome = Pending /\ ~ DoneSent

Send(lines) == wire' = lines /\ UNCHANGED <<exchange, open, seen, scanner, outcome>>

SendEvent ==
  /\ Sending /\ todo # << >>
  /\ LET m == Head(todo)
     IN  \/ Send(Framed(m, <<Data("all", m)>>))
         \/ Send(Framed(m, <<Data("first", m), Data("second", m)>>))
  /\ todo' = Tail(todo)
  /\ UNCHANGED fault

\* Keep-alives, and text that is not the answer: at most one thought.
SendOther ==
  /\ Sending
  /\ LET thought == Message("reasoning", Named(exchange.framing), << <<Thought>> >>)
     IN  \/ Send(<<Comment>>)
         \/ Send(<<Blank>>)
         \/ /\ \A i \in DOMAIN scanner.events : scanner.events[i].payload # thought
            /\ Send(Framed(thought, <<Data("all", thought)>>))
  /\ UNCHANGED <<todo, fault>>

\* The marker that ends the streams of chat completions, with nothing after it.
SendDone ==
  /\ Sending /\ todo = << >> /\ Chats(exchange.llm)
  /\ Send(<<DoneLine, Blank>>)
  /\ UNCHANGED <<todo, fault>>

\* One event is lost in noise, or is longer than the scanner's buffer.
SendFaulty ==
  /\ Sending /\ todo # << >> /\ fault = "none"
  /\ \/ fault' = "garbled" /\ Send(Framed(Head(todo), <<Garbage>>))
     \/ fault' = "overlong" /\ Send(Framed(Head(todo), <<Overlong>>))
  /\ todo' = Tail(todo)

\* The provider gives up: an error event is the last one.
SendError ==
  /\ Sending /\ fault = "none"
  /\ fault' = "error"
  /\ LET e == Message("error", Named(exchange.framing), << >>) IN Send(Framed(e, <<Data("all", e)>>))
  /\ todo' = << >>

\* The end of the body: after all that is to be sent, or early, at the end of a line or within one.
\* Only the last blank line may be missing from a body that is whole.
Close ==
  /\ open /\ outcome = Pending
  /\ LET whole == todo = << >> /\ wire \in {<< >>, <<Blank>>}
     IN  /\ fault # "none" => whole
         /\ fault' = IF whole THEN fault ELSE "cut"
  /\ wire' \in {<< >>} \cup (IF wire # << >> /\ Head(wire).kind = "data" THEN {<<Garbage>>} ELSE {})
  /\ open' = FALSE
  /\ todo' = << >>
  /\ UNCHANGED <<exchange, seen, scanner, outcome>>

\* The connection breaks, its time runs out, or the body is over its limit.
Break ==
  /\ outcome = Pending /\ fault = "none"
  /\ fault' = "broken"
  /\ open' = FALSE
  /\ outcome' = Fails(BadAnswer(Family(exchange.llm)))
  /\ UNCHANGED <<exchange, todo, wire, seen, scanner>>

------------------------------------------------------------------------------
(* ParseSSE.                                                               *)

\* The pieces of the buffer, joined by line ends, as JSON.
Parsed(data) ==
  IF Len(data) = 1 /\ data[1].half = "all" THEN data[1].message
  ELSE IF Len(data) = 2 /\ data[1].half = "first" /\ data[2] = Data("second", data[1].message)
  THEN data[1].message
  ELSE NotJSON

Event(type, payload) == [type |-> type, payload |-> payload]

\* The member names the event before the line does.
Flushed(s) ==
  LET payload == Parsed(s.data)
      name    == IF payload.named THEN payload.type ELSE s.eventType
  IN  IF s.data = << >> THEN s.events
      ELSE IF s.data = <<DoneLine>> THEN Append(s.events, Event("done", NotJSON))
      ELSE Append(s.events, Event(IF name = "" THEN "message" ELSE name, payload))

ScanLine(s, line) ==
  IF s.overlong THEN s
  ELSE CASE line.kind = "blank"    -> [s EXCEPT !.eventType = "", !.data = << >>, !.events = Flushed(s)]
         [] line.kind = "event"    -> [s EXCEPT !.eventType = line.name]
         [] line.kind = "data"     -> [s EXCEPT !.data = Append(@, line)]
         [] line.kind = "overlong" -> [s EXCEPT !.overlong = TRUE]
         [] line.kind = "other"    -> s

Scan ==
  /\ wire # << >> /\ outcome = Pending
  /\ scanner' = ScanLine(scanner, Head(wire))
  /\ seen' = seen \cup {IF Head(wire).kind = "overlong" THEN "data" ELSE Head(wire).kind}
  /\ wire' = Tail(wire)
  /\ UNCHANGED <<exchange, open, todo, fault, outcome>>

\* An end of the body without a blank line flushes what has been gathered.
Events_DropRest == scanner.events

Events == Flushed(scanner)

------------------------------------------------------------------------------
(* The transports.                                                         *)

TextOfEach(messages) == [i \in DOMAIN messages |-> Flat(messages[i].parts)]

Payloads(events, type) ==
  LET chosen == Selected(events, {i \in DOMAIN events : events[i].type = type /\ events[i].payload # NotJSON})
  IN  [i \in DOMAIN chosen |-> chosen[i].payload]

\* directOutputText and outputTextFromPayload: the first text that is not empty.
FirstText(parts) ==
  LET texts == Selected(parts, {i \in DOMAIN parts : parts[i] # << >>}) IN IF texts = << >> THEN << >> ELSE texts[1]

FirstOf(messages) == FirstText([i \in DOMAIN messages |-> FirstText(messages[i].parts)])

CollectOutputText_Everything(events) ==
  Flat(TextOfEach(Payloads(events, "delta"))) \o Flat(TextOfEach(Payloads(events, "part")))

\* The deltas; only without them the first text repeated in a done, then in a completed event.
CollectOutputText(events) ==
  FirstText(<<Flat(TextOfEach(Payloads(events, "delta"))),
              FirstOf(Payloads(events, "part")),
              FirstOf(Payloads(events, "completed"))>>)

Chosen(events, Test(_)) ==
  LET chosen == Selected(events, {i \in DOMAIN events : Test(events[i])}) IN TextOfEach([i \in DOMAIN chosen |-> chosen[i].payload])

ChatDeltas(events) == Chosen(events, LAMBDA e : e.type # "done" /\ e.payload.type = "chat")

AnthropicDeltas_AnyText(events) == Chosen(events, LAMBDA e : e.payload.named /\ e.payload.type \in {"delta", "reasoning"})

AnthropicDeltas(events) == Chosen(events, LAMBDA e : e.payload.named /\ e.payload.type = "delta")

\* Cloud rejects an empty text; the events it hands on are one delta with all of it.
CloudReturns(text) == IF text = << >> THEN Fails(EmptyAnswer) ELSE Returns(NoError, text, <<text>>)

ParseStream_GoesOn(events) ==
  CloudReturns(Flat(IF exchange.llm = "anthropic" THEN AnthropicDeltas(events) ELSE ChatDeltas(events)))

ParseStream(events) ==
  IF \E i \in DOMAIN events : events[i].type = "error" \/ events[i].payload.type = "error"
  THEN Fails(Failed("cloud"))
  ELSE CloudReturns(Flat(IF exchange.llm = "anthropic" THEN AnthropicDeltas(events) ELSE ChatDeltas(events)))

\* What came is taken for a stream by its header or its looks; cloud goes by what it asked for.
TakenForStream ==
  IF Family(exchange.llm) = "cloud" THEN exchange.stream
  ELSE exchange.form = "stream" /\ (exchange.declared \/ {"event", "data"} \subseteq seen)

StreamOutcome ==
  CASE scanner.overlong -> Fails(BadAnswer(IF Family(exchange.llm) = "cloud" THEN "cloud" ELSE "openai"))
    [] ~ scanner.overlong /\ exchange.llm = "openai" ->
         Returns(NoError, CollectOutputText(Events), TextOfEach(Payloads(Events, "delta")))
    [] ~ scanner.overlong /\ exchange.llm = "lmstudio" ->
         Returns(NoError, Flat(ChatDeltas(Events)), ChatDeltas(Events))
    [] ~ scanner.overlong /\ Family(exchange.llm) = "cloud" -> ParseStream(Events)

\* A stream that is not taken for one is no JSON: codex finds no text in it, the others refuse it.
JSONOutcome ==
  LET answer == exchange.answer
  IN  CASE exchange.form = "stream" ->
             IF exchange.llm = "openai" THEN Returns(NoError, << >>, << >>) ELSE Fails(BadAnswer(Family(exchange.llm)))
        [] exchange.form = "json" /\ exchange.llm = "openai"   -> Returns(NoError, FirstText(answer), << >>)
        [] exchange.form = "json" /\ exchange.llm = "lmstudio" -> Returns(NoError, Flat(answer), <<Flat(answer)>>)
        [] exchange.form = "json" /\ Family(exchange.llm) = "cloud" -> CloudReturns(Flat(answer))

End ==
  /\ ~ open /\ wire = << >> /\ outcome = Pending
  /\ outcome' = IF TakenForStream THEN StreamOutcome ELSE JSONOutcome
  /\ UNCHANGED <<exchange, open, todo, fault, wire, seen, scanner>>

StreamNext ==
  \/ SendEvent \/ SendOther \/ SendDone \/ SendFaulty \/ SendError
  \/ Close \/ Break
  \/ Scan \/ End

------------------------------------------------------------------------------
(* Properties.                                                             *)

StreamTypeOK ==
  /\ exchange \in Exchanges \cup {NoExchange}
  /\ open \in BOOLEAN
  /\ fault \in {"none", "garbled", "overlong", "error", "cut", "broken"}
  /\ seen \subseteq {"event", "data", "blank", "other"}
  /\ outcome.text \in Seq(Pieces)
  /\ outcome.deltas \in Seq(Seq(Pieces))

Done     == outcome \notin {Unasked, Pending}
Succeeds == Done /\ outcome.error = NoError
Told     == Flat(exchange.answer)

\* A prefix of t without some stretch of it.
LacksAStretch(s, t) ==
  \E i, j, k \in 0..Len(t) : i <= j /\ j <= k /\ s = SubSeq(t, 1, i) \o SubSeq(t, j + 1, k)

\* Whatever happens to a stream - cut within a line, garbled, ended by an error event, with reasoning
\* between its pieces, its text repeated in the events that close a part and the answer - the text that
\* is returned is what was sent up to some point, or lacks the pieces that were garbled: none of it
\* comes twice, in another order, or from anywhere else.  And a client that reads the events and one
\* that reads outputText get the same text.
TextIsFaithful ==
  Done => /\ fault # "garbled" => IsPrefix(outcome.text, Told)
          /\ fault = "garbled" => LacksAStretch(outcome.text, Told)
          /\ Succeeds /\ outcome.deltas # << >> => Flat(outcome.deltas) = outcome.text

\* A stream without the header of one is known to codex and lmstudio by the lines of its events.
Recognisable ==
  \/ exchange.declared \/ exchange.form = "json"
  \/ Family(exchange.llm) = "cloud"
  \/ HasLine(exchange.framing) /\ Told # << >>

\* The text of an answer that arrives whole and in the form that was asked for is whole, however the
\* provider names and splits the events of a stream and whether or not a blank line ends it; without
\* deltas codex returns the first part alone.
WholeAnswerGivesWholeText ==
  LET expected == IF exchange.llm # "openai" \/ "delta" \in exchange.carriers THEN Told ELSE FirstText(exchange.answer)
  IN  Done /\ exchange.form = (IF exchange.stream THEN "stream" ELSE "json") /\ Recognisable /\ fault = "none"
      => IF expected = << >> /\ Family(exchange.llm) = "cloud" THEN outcome.error = EmptyAnswer
         ELSE outcome.error = NoError /\ outcome.text = expected

\* How Transports, which Gateway is built on, describes what came.
SeenByTransports ==
  LET class(text) == IF text = << >> THEN "empty" ELSE "prose"
      sse  == IF Family(exchange.llm) = "cloud" THEN exchange.form = "stream" ELSE TakenForStream
      body == CASE fault = "broken" -> "unreadable"
                [] fault # "broken" /\ exchange.form = "stream" /\ ~ sse -> "garbled"
                [] fault = "overlong" /\ sse -> "overlong"
                [] fault = "error" /\ sse -> IF outcome.text = << >> THEN "failed" ELSE "interrupted"
                [] OTHER -> class(outcome.text)
  IN  [status |-> 200, sse |-> sse, body |-> body]

\* What comes of a body piece by piece is what Transports says comes of it as a whole: the error if
\* there is one, and whether there is a text.  Gateway's properties rest on that table.
AsTransportsHasIt ==
  LET request == [provider |-> Family(exchange.llm), op |-> "generate", contract |-> FALSE, stream |-> exchange.stream]
      out     == Generated(request, SeenByTransports)
  IN  Done => /\ outcome.error = out.error
              /\ IsOK(out) => (outcome.text = << >> <=> out.text = "empty")

==============================================================================
