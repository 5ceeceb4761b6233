------------------------------- MODULE Exchange -------------------------------
(***************************************************************************)
(* A request for a text on its way to the provider, through the layers of  *)
(* RequestWire, and the provider's answer on its way back, as              *)
(* ResponseStreams has it.  What the provider is asked for - its model     *)
(* and whether to stream - is all that the way back knows of the request.  *)
(*                                                                         *)
(* Credentials, refusals and repeated attempts are Gateway's.              *)
(***************************************************************************)
EXTENDS RequestWire, ResponseStreams

\* What a caller may ask.  JSON written by hand names no member twice.
IsCall(c) ==
  /\ c.entry \in Entries /\ c.llm \in ServedBy(c.entry)
  /\ c.named \subseteq Takes(c.entry) /\ c.extra \subseteq ExtraNames /\ c.odd \in BOOLEAN
  /\ c.stream \in {"unset", "true", "false"}
  /\ c.entry \in ByHand =>
       c.extra \cap (c.named \cup {"input"} \cup (IF c.stream = "unset" THEN {} ELSE {"stream"})) = {}
  /\ c.input \in Seq([role : Roles, text : Nat])
  /\ \A i \in DOMAIN c.input : c.input[i].text \in {0, i}

VARIABLES
  stage,    \* how far the request is
  call,     \* what is asked
  body,     \* the document that goes to the route
  request,  \* what the route reads
  sent,     \* what goes to the provider
  asked     \* what is left of it: the model, and whether to stream

requestVars == <<stage, call, body, request, sent, asked>>
vars        == <<requestVars, streamVars>>

Nothing == << >>

Asking ==
  /\ StreamInit
  /\ stage = "call"
  /\ body = Nothing
  /\ request = Nothing
  /\ sent = Nothing
  /\ asked = Nothing

Init == Asking /\ IsCall(call)

Reject ==
  /\ stage' = "rejected"
  /\ UNCHANGED <<call, body, request, sent, asked, streamVars>>

CallRejected == stage = "call" /\ ~ ParsesInput(call) /\ Reject

Call ==
  /\ stage = "call" /\ ParsesInput(call)
  /\ stage' = "route"
  /\ body' = Body(call)
  /\ UNCHANGED <<call, request, sent, asked, streamVars>>

RouteRejected == stage = "route" /\ RouteRejects(call, body) /\ Reject

Route ==
  /\ stage = "route" /\ ~ RouteRejects(call, body)
  /\ stage' = "transport"
  /\ request' = Read(call, body)
  /\ UNCHANGED <<call, body, sent, asked, streamVars>>

TransportRejected == stage = "transport" /\ TransportRejects(call.llm, request, Input(call)) /\ Reject

SendRequest ==
  /\ stage = "transport" /\ ~ TransportRejects(call.llm, request, Input(call))
  /\ stage' = "sent"
  /\ sent' = WireRequest(call.llm, request, Input(call))
  /\ UNCHANGED <<call, body, request, asked, streamVars>>

RequestArrives ==
  /\ stage = "sent"
  /\ stage' = "asked"
  /\ asked' = [llm |-> call.llm, stream |-> sent.fields.stream = "true"]
  /\ call' = Nothing /\ body' = Nothing /\ request' = Nothing /\ sent' = Nothing
  /\ UNCHANGED streamVars

ProviderAccepts ==
  /\ stage = "asked"
  /\ Accept(asked.llm, asked.stream)
  /\ stage' = "answer"
  /\ UNCHANGED <<call, body, request, sent, asked>>

Answer == StreamNext /\ UNCHANGED requestVars

Next ==
  \/ CallRejected \/ Call
  \/ RouteRejected \/ Route
  \/ TransportRejected \/ SendRequest
  \/ RequestArrives \/ ProviderAccepts \/ Answer

Spec == Init /\ [][Next]_vars

------------------------------------------------------------------------------
(* Properties.                                                             *)

TypeOK ==
  /\ stage \in {"call", "route", "transport", "sent", "rejected", "asked", "answer"}
  /\ stage \in {"asked", "answer"} => asked.llm \in LLMs /\ asked.stream \in BOOLEAN
  /\ stage \notin {"asked", "answer"} => IsCall(call)
  /\ stage # "answer" => outcome = Unasked
  /\ stage = "sent" => "odd" \notin {sent.fields[f] : f \in DOMAIN sent.fields \cap Known}
  /\ StreamTypeOK

\* Where the conversation and the output contract go.
ConversationOf(llm) == IF llm = "openai" THEN "input" ELSE "messages"
ContractOf(llm) ==
  CASE llm = "openai" -> "text" [] llm = "anthropic" -> "format" [] llm \in {"lmstudio", "openrouter"} -> "response_format"

HasContract == "outputContract" \in call.named

\* A call of llm_responses with the argument serviceTier and an extra of that name.
TierIsContested == call.entry = "llm_responses" /\ "serviceTier" \in call.named \cap call.extra

\* But for one pair, the extras of a call override nothing - not what the caller named, not the
\* conversation, and not what the transports decide for themselves, which for codex is more than for the
\* others - on any of the three layers that merge documents; and a caller that says whether to stream is
\* obeyed, though a codex stream is always asked for and nothing is stored there.  The pair is a contested
\* service tier: llm_responses writes the argument as service_tier (server.go:526), finds no serviceTier
\* that an extra would repeat (533-539), and the route replaces the one by the other (routes_llm.go:607).
\* There the extra does override, at both transports that pass extras on, against the description of
\* extra (server.go:1156) and the provider contract (LLM_PROVIDER_CONTRACT.md:70).
NothingIsOverridden ==
  stage = "sent" =>
    LET fields == sent.fields
        taken  == {f \in DOMAIN fields : fields[f] \in {"extra", "odd"}}
        own    == {ConversationOf(call.llm), "stream"}
                    \cup (IF call.llm = "openai" THEN {"store", "tool_choice", "parallel_tool_calls", "include"} ELSE {})
                    \cup (call.named \ {"serviceTier", "outputContract", "intelligence", "store"})
                    \cup (IF call.entry \notin ByHand THEN {"model"} ELSE {})
                    \cup (IF "serviceTier" \in call.named /\ ~ TierIsContested THEN {"service_tier"} ELSE {})
                    \cup (IF HasContract THEN {ContractOf(call.llm)} ELSE {})
                    \cup (IF "reasoning" \in call.named THEN {"effort"} ELSE {})
    IN  /\ taken \cap own = {}
        /\ call.llm = "openai" => fields.stream = "true" /\ fields.store = "false"
        /\ call.llm # "openai" /\ call.stream # "unset" => fields.stream = call.stream
        /\ TierIsContested /\ call.llm \in {"openai", "lmstudio"} => fields.service_tier = "extra"

\* Of what llmProviderCapabilities offers, a reasoning effort, a service tier and an output contract reach
\* the provider that is said to take them; openai's intelligence and store reach nobody, as no transport
\* sends them.  Every extra arrives once and under its name at codex, whose own choice of a tool policy
\* stands in its place if it has one, and at LM Studio; none at a cloud provider, but for the budget of
\* tokens, which codex alone does not get.
WhatIsOfferedArrives ==
  stage = "sent" =>
    LET fields  == DOMAIN sent.fields
        unknown == call.extra \ (Known \cup {"serviceTier", "service_tier", ContractOf(call.llm)})
        tiers   == {"serviceTier", "service_tier"} \cap (call.extra \cup call.named)
    IN  /\ HasContract => sent.fields[ContractOf(call.llm)] = "contract"
        /\ "reasoning" \in call.named /\ call.llm = "openai" => "reasoning" \in fields
        /\ "reasoning" \in call.named /\ call.llm = "anthropic" => "effort" \in fields
        /\ OnLLMRoute(call) /\ call.llm = "openai" /\ tiers # {} => "service_tier" \in fields /\ "serviceTier" \notin fields
        /\ call.llm \in {"openai", "lmstudio"} =>
             unknown \cap fields = unknown \ (IF call.llm = "openai" THEN {"max_output_tokens"} ELSE {})
        /\ Family(call.llm) = "cloud" =>
             /\ unknown \cap fields \subseteq {"messages"}
             /\ sent.fields.max_tokens = "extra" <=> "max_output_tokens" \in call.extra

\* The messages that are not instructions, and whose they are.
Turns(items)   == Selected(items, {i \in DOMAIN items : ~ Instructs(items[i])})
RolesOf(items) == [i \in DOMAIN items |-> IF items[i].role = "" THEN "user" ELSE items[i].role]

\* No message is lost, repeated or moved within its kind: instructions - the argument first, then those
\* of system and developer messages - stay instructions in every dialect, in their order, the other
\* messages keep their order and roles, and only Anthropic separates the two.
ConversationIsKept ==
  stage = "sent" =>
    LET given == TextsOf(Input(call))
        first == IF Has(request, "instructions") THEN <<"instructions">> ELSE << >>
    IN  /\ sent.system \o TextsOf(Instructing(sent.messages)) =
             (IF call.llm = "openai" THEN << >> ELSE first) \o TextsOf(Instructing(Input(call)))
        /\ TextsOf(Turns(sent.messages)) = TextsOf(Turns(Input(call)))
        /\ RolesOf(Turns(sent.messages)) = RolesOf(Turns(Input(call)))
        /\ call.llm \in {"lmstudio", "openrouter"} => TextsOf(sent.messages) = first \o given
        /\ call.llm = "openai" =>
             TextsOf(sent.messages) = given /\ ("instructions" \in DOMAIN sent.fields <=> first # << >>)
==============================================================================
