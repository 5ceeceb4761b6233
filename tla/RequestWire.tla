----------------------------- MODULE RequestWire -----------------------------
(***************************************************************************)
(* How a request for a text becomes the one the provider gets.  Three      *)
(* layers rewrite it: the caller's (a tool of internal/mcpstdio/server.go, *)
(* the SDK's pkg/client/types.go, or a caller that writes the JSON         *)
(* itself), the route that reads it (internal/httpapi/routes_llm.go and    *)
(* the legacy routes, internal/codex/types.go), and the provider's         *)
(* transport (codex_transport.go, lmstudio/transport.go,                   *)
(* cloud/transport.go).                                                    *)
(*                                                                         *)
(* A document is a function from the names of its members to where the     *)
(* value comes from:                                                       *)
(*   arg      the caller's argument for it     extra  its object of extras *)
(*   odd      the extras, with a value of a type the member does not take  *)
(*   default  the layer's own choice           blank  nobody: empty        *)
(*   contract what makes the provider keep an output contract              *)
(* or, for stream and store, to its value, "true" or "false".              *)
(*                                                                         *)
(* An operator A_Fault is A with a fault a change to the code could bring  *)
(* in; nothing else uses it.                                               *)
(***************************************************************************)
EXTENDS Transports, Selection, Functions

\* A document that is extended keeps what it has.
f ++ g == [x \in DOMAIN f \cup DOMAIN g |-> IF x \in DOMAIN f THEN f[x] ELSE g[x]]

\* What a caller may name beside model and input, and the members of its extras.
Arguments == {"model", "instructions", "intelligence", "reasoning", "serviceTier", "outputContract", "store"}
ExtraNames == {"model", "input", "stream", "instructions", "reasoning", "outputContract", "service_tier", "serviceTier",
               "max_output_tokens", "tools", "tool_choice", "parallel_tool_calls", "include", "text", "response_format",
               "messages", "future"}

Roles == {"user", "assistant", "system", "developer", "", "other"}

Members(names, origin) == [f \in names |-> origin]

\* The tools of the MCP server, the SDK, and JSON written by hand, for the llm route or a legacy one.
ByHand  == {"http", "legacy"}
Entries == {"llm_responses", "codex_responses", "sdk"} \cup ByHand

ServedBy(entry) ==
  CASE entry \in {"llm_responses", "http"}  -> LLMs
    [] entry \in {"codex_responses", "sdk"} -> {"openai"}
    [] entry = "legacy"                     -> {"openai", "lmstudio"}

\* What the entry reads of the arguments; the SDK sends only what is set.
Takes(entry) ==
  CASE entry \in {"llm_responses", "http"} -> Arguments
    [] entry = "codex_responses"           -> Arguments \ {"serviceTier", "outputContract"}
    [] entry \in {"sdk", "legacy"}          -> Arguments \ {"serviceTier"}

------------------------------------------------------------------------------
(* The first layer.  A call is a record of its entry, its llm, the         *)
(* arguments it names, those extras it has and whether their values are    *)
(* odd, what it says of stream, and its input: a sequence of [role, text], *)
(* where the text is the number of the message, or 0 if it is empty.       *)

ArgumentOr(call, name, other) == IF name \in call.named THEN "arg" ELSE other

Extras(call) == Members(call.extra, IF call.odd THEN "odd" ELSE "extra")

Streams(call, other) == IF call.stream = "unset" THEN other ELSE call.stream
Stores(call)         == IF "store" \in call.named THEN "true" ELSE "false"

\* modelForProvider, with no model configured for the server.
ModelForProvider(call) == ArgumentOr(call, "model", IF Family(call.llm) = "cloud" THEN "blank" ELSE "default")

ToolBody(call) ==
  [model |-> ModelForProvider(call), instructions |-> ArgumentOr(call, "instructions", "blank"), input |-> "arg",
   stream |-> Streams(call, "true"), store |-> Stores(call)]
  ++ Members(call.named \cap {"intelligence", "reasoning", "outputContract"}, "arg")
  ++ Members(IF "serviceTier" \in call.named THEN {"service_tier"} ELSE {}, "arg")
  ++ Extras(call)

\* MarshalJSON of the SDK.
MarshalJSON(call) ==
  [model |-> ArgumentOr(call, "model", "blank"), input |-> "arg", stream |-> Streams(call, "false"), store |-> Stores(call)]
  ++ Members(call.named \cap {"instructions", "intelligence", "reasoning", "outputContract"}, "arg")
  ++ Extras(call)

WrittenByHand(call) ==
  Members({"input"} \cup (call.named \ {"store"}), "arg")
  ++ Members(IF call.stream = "unset" THEN {} ELSE {"stream"}, call.stream)
  ++ Members(call.named \cap {"store"}, "true")
  ++ Extras(call)

Body(call) ==
  CASE call.entry = "sdk"      -> MarshalJSON(call)
    [] call.entry \in ByHand   -> WrittenByHand(call)
    [] OTHER                   -> ToolBody(call)

\* The tools want a text in every message, and take one without a role for the user's.
ParsesInput(call) ==
  call.entry \in {"sdk"} \cup ByHand \/ \A i \in DOMAIN call.input : call.input[i].text # 0

Input(call) ==
  IF call.entry \in {"sdk"} \cup ByHand THEN call.input
  ELSE [i \in DOMAIN call.input |-> [call.input[i] EXCEPT !.role = IF @ = "" THEN "user" ELSE @]]

------------------------------------------------------------------------------
(* The second layer: a request is what UnmarshalJSON of internal/codex     *)
(* makes of the body, with its known members apart from its Extra.         *)

Known == {"model", "intelligence", "instructions", "input", "stream", "store", "reasoning", "tools", "outputContract"}

\* The llm route reads serviceTier, which replaces a service_tier; the legacy routes do not know it.
WithServiceTier_Kept(body) ==
  IF "serviceTier" \notin DOMAIN body THEN body
  ELSE body ++ [service_tier |-> body.serviceTier]

WithServiceTier(body) ==
  IF "serviceTier" \notin DOMAIN body THEN body
  ELSE [f \in (DOMAIN body \ {"serviceTier"}) \cup {"service_tier"} |->
          IF f = "service_tier" THEN body.serviceTier ELSE body[f]]

OnLLMRoute(call) == call.entry \in {"llm_responses", "http"}

RouteRejects(call, body) ==
  \/ \E f \in DOMAIN body \cap Known : body[f] = "odd"
  \/ OnLLMRoute(call) /\ "serviceTier" \in DOMAIN body /\ body.serviceTier = "odd"

\* Go's zero values stand for what the body does not have.
ZeroRequest == [model |-> "blank", instructions |-> "blank", stream |-> "false", store |-> "false"]

UnmarshalJSON(body) ==
  [known |-> Restrict(body, DOMAIN body \cap Known) ++ ZeroRequest,
   extra |-> Restrict(body, DOMAIN body \ Known)]

Read(call, body) == UnmarshalJSON(IF OnLLMRoute(call) THEN WithServiceTier(body) ELSE body)

Has(request, f) == f \in DOMAIN request.known /\ request.known[f] # "blank"

Passed(request, from, to) == IF Has(request, from) THEN Members({to}, request.known[from]) ELSE << >>

Contract(request, to) == Members(IF Has(request, "outputContract") THEN {to} ELSE {}, "contract")

\* A boolean of the extras, in a body that has none of its own, says true.
Asked(request, f) == IF request.known[f] = "extra" THEN "true" ELSE request.known[f]

------------------------------------------------------------------------------
(* The third layer.  What goes out is a document, messages, and for        *)
(* Anthropic the texts of its system prompt apart.  The text of an         *)
(* instructions argument is "instructions".                                *)

Item(role, text) == [role |-> role, text |-> text]

Outgoing(fields, system, messages) == [fields |-> fields, system |-> system, messages |-> messages]

Instructions(request) == IF Has(request, "instructions") THEN <<"instructions">> ELSE << >>

WithRole(input, from, to) ==
  [i \in DOMAIN input |-> Item(IF input[i].role \in from THEN to ELSE input[i].role, input[i].text)]

InstructionsFirst(request, input) ==
  [i \in DOMAIN Instructions(request) |-> Item("system", "instructions")] \o input

\* marshalCodexWireRequest: the options set no session.
CodexFields(request) ==
  Members({"model"}, request.known.model)
  ++ Members({"input", "tool_choice", "parallel_tool_calls", "include"}, "default")
  ++ [stream |-> "true", store |-> "false"]
  ++ Passed(request, "instructions", "instructions")
  ++ Passed(request, "reasoning", "reasoning")
  ++ (Passed(request, "tools", "tools") ++ [tools |-> "default"])
  ++ Contract(request, "text")

CodexUnsupportedPortableField == {"max_output_tokens"}

CodexWireRequest_ExtraWins(request, input) ==
  Outgoing(Restrict(request.extra, DOMAIN request.extra \ CodexUnsupportedPortableField) ++ CodexFields(request),
       << >>, WithRole(input, {"system"}, "developer"))

CodexWireRequest(request, input) ==
  Outgoing(CodexFields(request) ++ Restrict(request.extra, DOMAIN request.extra \ CodexUnsupportedPortableField),
       << >>, WithRole(input, {"system"}, "developer"))

CodexRejects(request, input) ==
  \/ ~ Has(request, "model") \/ input = << >>
  \/ \E i \in DOMAIN input : input[i].role \notin {"user", "assistant", "system", "developer"} \/ input[i].text = 0

ChatCompletionBody(request, input) ==
  Outgoing([model |-> request.known.model, messages |-> "default", stream |-> Asked(request, "stream")]
         ++ Contract(request, "response_format") ++ request.extra,
       << >>,
       InstructionsFirst(request, WithRole(WithRole(input, {"developer"}, "system"), {""}, "user")))

LMStudioRejects(request, input) == ~ Has(request, "model") \/ input = << >>

MaxTokens(request) == Members({"max_tokens"}, IF "max_output_tokens" \in DOMAIN request.extra THEN "extra" ELSE "default")

CloudFields(request) ==
  [model |-> request.known.model, messages |-> "default", stream |-> Asked(request, "stream")] ++ MaxTokens(request)

TextsOf(input) == [i \in DOMAIN input |-> input[i].text]

Instructs(item) == item.role \in {"system", "developer"}
Speaks(item)    == item.role \in {"user", "assistant"}

Instructing(items) == Selected(items, {i \in DOMAIN items : Instructs(items[i])})
Speaking(items)    == Selected(items, {i \in DOMAIN items : Speaks(items[i])})

Systems_LastWins(request, input) ==
  LET said == Instructing(input)
  IN  IF said = << >> THEN Instructions(request) ELSE <<said[Len(said)].text>>

Systems(request, input) == Instructions(request) \o TextsOf(Instructing(input))

AnthropicBody(request, input) ==
  Outgoing(CloudFields(request) ++ Passed(request, "reasoning", "effort") ++ Contract(request, "format"),
       Systems(request, input), Speaking(input))

OpenRouterBody(request, input) ==
  Outgoing(CloudFields(request) ++ Contract(request, "response_format"), << >>,
       InstructionsFirst(request, WithRole(input, {"developer"}, "system")))

CloudRejects(llm, request, input) ==
  \/ ~ Has(request, "model") \/ input = << >>
  \/ "max_output_tokens" \in DOMAIN request.extra /\ request.extra.max_output_tokens = "odd"
  \/ \E i \in DOMAIN input : ~ Instructs(input[i]) /\ ~ Speaks(input[i])
  \/ llm = "anthropic" /\ Speaking(input) = << >>

TransportRejects(llm, request, input) ==
  CASE llm = "openai"         -> CodexRejects(request, input)
    [] llm = "lmstudio"       -> LMStudioRejects(request, input)
    [] Family(llm) = "cloud"  -> CloudRejects(llm, request, input)

WireRequest(llm, request, input) ==
  CASE llm = "openai"     -> CodexWireRequest(request, input)
    [] llm = "lmstudio"   -> ChatCompletionBody(request, input)
    [] llm = "anthropic"  -> AnthropicBody(request, input)
    [] llm = "openrouter" -> OpenRouterBody(request, input)
==============================================================================
